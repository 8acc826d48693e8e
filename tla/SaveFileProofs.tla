-------------------------- MODULE SaveFileProofs --------------------------
(***************************************************************************)
(* Proofs about SaveFile for any editors, kinds and bounds.  One inductive *)
(* invariant: types; the lock, held by the one save between its check and  *)
(* its end; what a save under the lock has seen of the file; what an       *)
(* editor's text descends from; and which save made each stored text.      *)
(***************************************************************************)
EXTENDS SaveFile, TLAPS

Files == [text : Int, mtime : Int, changed : Int]
Views == [object : Int, text : Int, mtime : Int, changed : Int]
Docs == [text : Int, base : Int, stamp : Int, object : Int, named : BOOLEAN, call : Nat,
         frozen : BOOLEAN]
Policies == [force : BOOLEAN, fresh : BOOLEAN, stamp : Int, object : Int, shown : Int]
Outcomes == {"committed", "refused", "uncertain"}
Untold == {"nothing", "doubted"}    \* of a save that is still open
Attempts == [by : Editors, text : Int, base : Int, policy : Policies, before : Views,
             pc : Running \union Outcomes, seen : Views, file : Nat, place : Nat,
             witness : Views, after : Views, known : Views,
             told : Untold \union {"written", "failed", "unchanged"}, calm : Nat]

DiskTyped ==
  /\ objects \in Seq(Files) /\ line \in Seq(Nat) /\ Len(line) >= 1
  /\ \A i \in 1..Len(line) : line[i] <= Len(objects)
  /\ floor \in 1..Len(line)
SavesTyped == saves \in Seq(Attempts) /\ lock \in 0..Len(saves)
DocsTyped ==
  /\ doc \in [Editors -> Docs] /\ kind \in [Editors -> {"local", "permit"}]
  /\ \A e \in Editors : doc[e].call <= Len(saves)
ClockTyped == now \in Nat /\ texts \in Nat \ {0} /\ foreign \in Nat
SaveTyped == DiskTyped /\ SavesTyped /\ DocsTyped /\ ClockTyped

(* A save that has checked the file holds the lock until it ends, and      *)
(* nobody else does.  Its place in the name's history begins with its      *)
(* publication, and a refusal comes before it.                             *)
Locked == {"checked", "staged", "published"}
Locking == \A s \in DOMAIN saves :
  /\ (lock = s) <=> (saves[s].pc \in Locked)
  /\ saves[s].pc \in {"prepared", "checked", "staged", "refused"} => saves[s].place = 0
  /\ saves[s].told = "failed" => saves[s].pc = "refused"
  /\ saves[s].place <= Len(line) /\ saves[s].file <= Len(objects)
  /\ saves[s].pc = "published" => saves[s].file # 0

(* What a save under the lock has seen is the file as it was at the        *)
(* counter's time: another program's write moves the counter, and it moves *)
(* the change time, by which the save would know it.                       *)
Seeing == \A s \in DOMAIN saves : saves[s].pc \in {"checked", "staged"} =>
  LET o == saves[s].seen.object IN
  /\ o \in 0..Len(objects) /\ saves[s].calm <= foreign
  /\ (saves[s].seen = Nothing) <=> (o = 0)
  /\ saves[s].seen.changed <= now
  /\ o # 0 /\ objects[o].changed = saves[s].seen.changed => saves[s].seen = Seen(o)
  /\ foreign = saves[s].calm => o = Entry /\ saves[s].seen = Seen(o)

(* Stored texts are somebody's: never the empty one, and a typed one was   *)
(* put there by a save of it.  A text that differs from its base is typed, *)
(* and an attempt that had one leaves its document unclean until it ends.  *)
Stored == \A i \in DOMAIN objects :
  /\ objects[i].text # 0 /\ objects[i].text <= texts /\ objects[i].changed <= now
  /\ objects[i].text >= 2 => \E r \in DOMAIN saves :
       saves[r].text = objects[i].text /\ saves[r].place # 0
Typed(text) == text >= 2
DocDescends(e) ==
  /\ doc[e].text <= texts /\ doc[e].base <= texts
  /\ doc[e].text # doc[e].base => Typed(doc[e].text)
  /\ doc[e].call # 0 => LET c == doc[e].call IN
       /\ saves[c].by = e /\ saves[c].told \in Untold
       /\ kind[e] = "permit" => doc[e].object # 0
       /\ saves[c].text # saves[c].base => doc[e].text # doc[e].base
  /\ kind[e] = "permit" => IF doc[e].object = 0 THEN doc[e].text = 0
                           ELSE doc[e].text # 0 /\ doc[e].base # 0
SaveDescends(s) ==
  /\ saves[s].text <= texts /\ saves[s].text # 0
  /\ saves[s].text # saves[s].base => Typed(saves[s].text)
  /\ kind[saves[s].by] = "permit" => saves[s].base # 0 /\ saves[s].policy.shown = saves[s].base
  /\ saves[s].pc \in Locked /\ saves[s].policy.shown # 0 =>
       saves[s].seen.text = saves[s].policy.shown
Descends == (\A e \in Editors : DocDescends(e)) /\ (\A s \in DOMAIN saves : SaveDescends(s))

(* A committed save has a place that would survive a power loss, and what  *)
(* was reported of a save is so.                                           *)
SaveKept(s) ==
  /\ saves[s].pc = "published" => saves[s].place \in 1..Len(line)
  /\ saves[s].pc = "committed" =>
       /\ saves[s].place \in 1..floor
       /\ saves[s].told \in Untold => saves[s].after.object # 0
  /\ saves[s].told = "written" => Durable(saves[s].text) \/ saves[s].text = saves[s].base
  /\ saves[s].told = "failed" => saves[s].place = 0
Kept == \A s \in DOMAIN saves : SaveKept(s)

(* The steps of other programs, those that end a save, and those by which  *)
(* an editor learns of one.                                                *)
Writes == WriteInPlace \/ Replace \/ Remove
Ended(s) == Refuse(s) \/ PublishFails(s) \/ Finish(s) \/ FinishFails(s)
Told(e, s) ==
  \/ Reply(e, s) \/ Lose(e, s)
  \/ VerifyWritten(e, s) \/ VerifyUnchanged(e, s) \/ VerifyFails(e, s)

(* A step about one save leaves the others alone.                          *)
Only(s) ==
  /\ saves' \in Seq(Attempts) /\ Len(saves') = Len(saves) /\ DOMAIN saves' = DOMAIN saves
  /\ \A r \in DOMAIN saves : r # s => saves'[r] = saves[r]

SaveInv == SaveTyped /\ Locking /\ Seeing /\ Stored /\ Descends /\ Kept
-----------------------------------------------------------------------------
(* What a view observes is typed, and the empty view is nobody's.          *)
LEMMA SeenTyped ==
  ASSUME DiskTyped
  PROVE  /\ \A o \in 0..Len(objects) : Seen(o) \in Views /\ Seen(o).object = o
         /\ Entry \in 0..Len(objects) /\ Observed \in Views /\ Observed.object = Entry
         /\ Nothing \in Views /\ Nothing.object = 0
<1>1. Nothing \in Views /\ Nothing.object = 0
  BY DEF Nothing, Views
<1>2. ASSUME NEW o \in 0..Len(objects) PROVE Seen(o) \in Views /\ Seen(o).object = o
  <2>1. CASE o = 0
    BY <1>1, <2>1 DEF Seen
  <2>2. CASE o # 0
    <3>1. objects[o] \in Files
      BY <2>2 DEF DiskTyped
    <3> QED
      BY <2>2, <3>1 DEF Seen, Files, Views
  <2> QED
    BY <2>1, <2>2
<1>3. Entry \in 0..Len(objects)
  BY DEF DiskTyped, Entry
<1> QED
  BY <1>1, <1>2, <1>3 DEF Observed

(* The fields of an attempt, of a document and of a file.                  *)
LEMMA FieldsTyped ==
  ASSUME SaveTyped
  PROVE  /\ \A s \in DOMAIN saves : LET a == saves[s] IN
              /\ a \in Attempts /\ a.by \in Editors /\ a.text \in Int /\ a.base \in Int
              /\ a.policy \in Policies /\ a.before \in Views /\ a.seen \in Views /\ a.file \in
                    Nat
              /\ a.place \in Nat /\ a.witness \in Views /\ a.after \in Views /\ a.known \in
                    Views
              /\ a.calm \in Nat
         /\ \A e \in Editors : LET d == doc[e] IN
              /\ d \in Docs /\ d.text \in Int /\ d.base \in Int /\ d.object \in Int
              /\ d.call \in 0..Len(saves) /\ d.named \in BOOLEAN /\ d.frozen \in BOOLEAN
         /\ \A o \in 1..Len(objects) : objects[o].text \in Int /\ objects[o].changed \in Int
         /\ DOMAIN objects = 1..Len(objects) /\ Len(objects) \in Nat
<1>1. \A s \in DOMAIN saves : saves[s] \in Attempts
  BY DEF SaveTyped, SavesTyped
<1>2. \A e \in Editors : doc[e] \in Docs /\ doc[e].call <= Len(saves)
  BY DEF SaveTyped, DocsTyped
<1>3. Len(saves) \in Nat
  BY DEF SaveTyped, SavesTyped
<1>4. /\ \A o \in 1..Len(objects) : objects[o] \in Files
      /\ DOMAIN objects = 1..Len(objects) /\ Len(objects) \in Nat
  BY DEF SaveTyped, DiskTyped
<1>5. \A o \in 1..Len(objects) : objects[o].text \in Int /\ objects[o].changed \in Int
  BY <1>4 DEF Files
<1> QED
  BY <1>1, <1>2, <1>3, <1>4, <1>5 DEF Attempts, Docs

(* Replacing one attempt by another keeps the list of saves.               *)
LEMMA Replaced ==
  ASSUME SavesTyped, NEW s \in DOMAIN saves, NEW a \in Attempts,
         saves' = [saves EXCEPT ![s] = a]
  PROVE  Only(s) /\ saves'[s] = a
  BY DEF SavesTyped, Only

(* What each step about a save makes of it.                                *)
LEMMA CheckSaves ==
  ASSUME SaveTyped, NEW s \in DOMAIN saves,
         Check(s)
  PROVE  /\ Only(s)
         /\ saves'[s].pc = "checked" /\ saves'[s].seen = Observed
         /\ saves'[s].calm = foreign /\ saves'[s].by = saves[s].by
         /\ saves'[s].text = saves[s].text /\ saves'[s].base = saves[s].base
         /\ saves'[s].policy = saves[s].policy /\ saves'[s].file = saves[s].file
         /\ saves'[s].place = saves[s].place /\ saves'[s].after = saves[s].after
         /\ saves'[s].told = saves[s].told
<1> DEFINE a == [saves[s] EXCEPT !.pc = "checked", !.seen = Observed, !.calm = foreign]
<1>1. saves[s] \in Attempts
  BY DEF SaveTyped, SavesTyped
<1>2. a \in Attempts
  BY <1>1, SeenTyped DEF SaveTyped, ClockTyped, Attempts, Running
<1>3. /\ a.pc = "checked" /\ a.seen = Observed /\ a.calm = foreign /\ a.by = saves[s].by
      /\ a.text = saves[s].text /\ a.base = saves[s].base /\ a.policy = saves[s].policy
      /\ a.file = saves[s].file /\ a.place = saves[s].place /\ a.after = saves[s].after
      /\ a.told = saves[s].told
  BY <1>1 DEF Attempts
<1>4. saves' = [saves EXCEPT ![s] = a]
  BY <1>1 DEF Check, SaveTyped, SavesTyped, Attempts
<1> HIDE DEF a
<1> QED
  BY <1>2, <1>3, <1>4, Replaced DEF SaveTyped

(* Staging.                                                                *)
LEMMA StageSaves ==
  ASSUME SaveTyped, NEW s \in DOMAIN saves,
         Stage(s)
  PROVE  /\ Only(s)
         /\ saves'[s].pc = "staged"
         /\ saves'[s].calm = IF Rechecks(s) THEN foreign ELSE saves[s].calm
         /\ saves'[s].by = saves[s].by /\ saves'[s].text = saves[s].text
         /\ saves'[s].base = saves[s].base /\ saves'[s].policy = saves[s].policy
         /\ saves'[s].seen = saves[s].seen /\ saves'[s].file = saves[s].file
         /\ saves'[s].place = saves[s].place /\ saves'[s].after = saves[s].after
         /\ saves'[s].told = saves[s].told
<1> DEFINE a == [saves[s] EXCEPT !.pc = "staged",
                                      !.calm = IF Rechecks(s) THEN foreign ELSE saves[s].calm]
<1>1. saves[s] \in Attempts
  BY DEF SaveTyped, SavesTyped
<1>2. a \in Attempts
  BY <1>1 DEF SaveTyped, ClockTyped, Attempts, Running
<1>3. /\ a.pc = "staged" /\ a.calm = IF Rechecks(s) THEN foreign ELSE saves[s].calm
      /\ a.by = saves[s].by /\ a.text = saves[s].text /\ a.base = saves[s].base
      /\ a.policy = saves[s].policy /\ a.seen = saves[s].seen /\ a.file = saves[s].file
      /\ a.place = saves[s].place /\ a.after = saves[s].after /\ a.told = saves[s].told
  BY <1>1 DEF Attempts
<1>4. saves' = [saves EXCEPT ![s] = a]
  BY <1>1 DEF Stage, SaveTyped, SavesTyped, Attempts
<1> HIDE DEF a
<1> QED
  BY <1>2, <1>3, <1>4, Replaced DEF SaveTyped

(* Publication.                                                            *)
LEMMA PublishSaves ==
  ASSUME SaveTyped, NEW s \in DOMAIN saves,
         Publish(s)
  PROVE  /\ Only(s)
         /\ saves'[s].pc = "published" /\ saves'[s].file = Len(objects) + 1
         /\ saves'[s].place = Len(line) + 1 /\ saves'[s].by = saves[s].by
         /\ saves'[s].text = saves[s].text /\ saves'[s].base = saves[s].base
         /\ saves'[s].policy = saves[s].policy /\ saves'[s].seen = saves[s].seen
         /\ saves'[s].after = saves[s].after /\ saves'[s].told = saves[s].told
         /\ saves'[s].calm = saves[s].calm
<1> DEFINE a == [saves[s] EXCEPT !.pc = "published", !.file = Len(objects) + 1,
                                      !.place = Len(line) + 1]
<1>1. saves[s] \in Attempts
  BY DEF SaveTyped, SavesTyped
<1>2. a \in Attempts
  <2>1. Len(objects) + 1 \in Nat /\ Len(line) + 1 \in Nat
    BY DEF SaveTyped, DiskTyped
  <2> QED
    BY <1>1, <2>1 DEF Attempts, Running
<1>3. /\ a.pc = "published" /\ a.file = Len(objects) + 1 /\ a.place = Len(line) + 1
      /\ a.by = saves[s].by /\ a.text = saves[s].text /\ a.base = saves[s].base
      /\ a.policy = saves[s].policy /\ a.seen = saves[s].seen /\ a.after = saves[s].after
      /\ a.told = saves[s].told /\ a.calm = saves[s].calm
  BY <1>1 DEF Attempts
<1>4. saves' = [saves EXCEPT ![s] = a]
  BY <1>1 DEF Publish, SaveTyped, SavesTyped, Attempts
<1> HIDE DEF a
<1> QED
  BY <1>2, <1>3, <1>4, Replaced DEF SaveTyped

(* An end, whatever the outcome.                                           *)
LEMMA EndsSaves ==
  ASSUME SaveTyped, NEW s \in DOMAIN saves,
         NEW pc \in Outcomes, NEW witness \in Views, NEW after \in Views,
         Ends(s, pc, witness, after)
  PROVE  /\ Only(s)
         /\ saves'[s].pc = pc /\ saves'[s].seen = Nothing /\ saves'[s].file = 0
         /\ saves'[s].calm = 0 /\ saves'[s].after = after /\ saves'[s].by = saves[s].by
         /\ saves'[s].text = saves[s].text /\ saves'[s].base = saves[s].base
         /\ saves'[s].policy = saves[s].policy /\ saves'[s].place = saves[s].place
         /\ saves'[s].told = saves[s].told
<1> DEFINE a == [saves[s] EXCEPT !.pc = pc, !.seen = Nothing, !.file = 0, !.calm = 0,
                                      !.witness = witness, !.after = after]
<1>1. saves[s] \in Attempts
  BY DEF SaveTyped, SavesTyped
<1>2. a \in Attempts
  BY <1>1, SeenTyped DEF SaveTyped, Attempts
<1>3. /\ a.pc = pc /\ a.seen = Nothing /\ a.file = 0 /\ a.calm = 0 /\ a.after = after
      /\ a.by = saves[s].by /\ a.text = saves[s].text /\ a.base = saves[s].base
      /\ a.policy = saves[s].policy /\ a.place = saves[s].place /\ a.told = saves[s].told
  BY <1>1 DEF Attempts
<1>4. saves' = [saves EXCEPT ![s] = a]
  BY <1>1 DEF Ends, Spent, SaveTyped, SavesTyped, Attempts
<1> HIDE DEF a
<1> QED
  BY <1>2, <1>3, <1>4, Replaced DEF SaveTyped

(* What the user is told.                                                  *)
LEMMA TellsSaves ==
  ASSUME SaveTyped, NEW s \in DOMAIN saves,
         NEW told \in Untold \union {"written", "failed", "unchanged"},
         Tells(s, told)
  PROVE  /\ Only(s)
         /\ saves'[s].told = told /\ saves'[s].after = saves[s].after
         /\ saves'[s].by = saves[s].by
         /\ saves'[s].text = saves[s].text /\ saves'[s].base = saves[s].base
         /\ saves'[s].policy = saves[s].policy /\ saves'[s].pc = saves[s].pc
         /\ saves'[s].seen = saves[s].seen /\ saves'[s].file = saves[s].file
         /\ saves'[s].place = saves[s].place /\ saves'[s].calm = saves[s].calm
<1> DEFINE a == [saves[s] EXCEPT !.told = told]
<1>1. saves[s] \in Attempts
  BY DEF SaveTyped, SavesTyped
<1>2. a \in Attempts
  BY <1>1 DEF Attempts
<1>3. /\ a.told = told /\ a.after = saves[s].after /\ a.by = saves[s].by
      /\ a.text = saves[s].text /\ a.base = saves[s].base
      /\ a.policy = saves[s].policy /\ a.pc = saves[s].pc
      /\ a.seen = saves[s].seen /\ a.file = saves[s].file /\ a.place = saves[s].place
      /\ a.calm = saves[s].calm
  BY <1>1 DEF Attempts
<1>4. saves' = [saves EXCEPT ![s] = a]
  BY <1>1 DEF Tells, SaveTyped, SavesTyped, Attempts
<1> HIDE DEF a
<1> QED
  BY <1>2, <1>3, <1>4, Replaced DEF SaveTyped

(* A save that is left unconfirmed.                                        *)
LEMMA FreezesSaves ==
  ASSUME SaveTyped, NEW s \in DOMAIN saves,
         NEW e \in Editors, NEW witness \in Views, Freezes(e, s, witness)
  PROVE  /\ Only(s)
         /\ saves'[s].by = saves[s].by /\ saves'[s].text = saves[s].text
         /\ saves'[s].base = saves[s].base /\ saves'[s].policy = saves[s].policy
         /\ saves'[s].pc = saves[s].pc /\ saves'[s].seen = saves[s].seen
         /\ saves'[s].file = saves[s].file /\ saves'[s].place = saves[s].place
         /\ saves'[s].after = saves[s].after /\ saves'[s].told = saves[s].told
         /\ saves'[s].calm = saves[s].calm
<1> DEFINE a == [saves[s] EXCEPT !.known = witness]
<1>1. saves[s] \in Attempts
  BY DEF SaveTyped, SavesTyped
<1>2. a \in Attempts
  BY <1>1 DEF Attempts
<1>3. /\ a.by = saves[s].by /\ a.text = saves[s].text /\ a.base = saves[s].base
      /\ a.policy = saves[s].policy /\ a.pc = saves[s].pc /\ a.seen = saves[s].seen
      /\ a.file = saves[s].file /\ a.place = saves[s].place /\ a.after = saves[s].after
      /\ a.told = saves[s].told /\ a.calm = saves[s].calm
  BY <1>1 DEF Attempts
<1>4. saves' = [saves EXCEPT ![s] = a]
  BY <1>1 DEF Freezes, SaveTyped, SavesTyped, Attempts
<1> HIDE DEF a
<1> QED
  BY <1>2, <1>3, <1>4, Replaced DEF SaveTyped

(* A document that a step gives a new state is a document, and the others  *)
(* are left alone.                                                         *)
LEMMA AcceptDocs ==
  ASSUME SaveTyped, NEW e \in Editors, NEW s \in DOMAIN saves, NEW after \in Views,
         Accept(e, s, after)
  PROVE  /\ doc' \in [Editors -> Docs] /\ \A d \in Editors : d # e => doc'[d] = doc[d]
         /\ doc'[e].text = doc[e].text /\ doc'[e].call = 0 /\ doc'[e].object = after.object
         /\ doc'[e].base = IF Clean(e) /\ doc[e].base # saves[s].base THEN doc[e].base
                           ELSE saves[s].text
<1> DEFINE base == IF Clean(e) /\ doc[e].base # saves[s].base THEN doc[e].base ELSE
   saves[s].text
           named == doc[e].named \/ doc[e].text = saves[s].text
           stamp == IF named THEN after.mtime ELSE doc[e].stamp
           d == [doc[e] EXCEPT !.call = 0, !.frozen = FALSE, !.base = base, !.named = named,
                               !.stamp = stamp, !.object = after.object]
<1>1. doc[e] \in Docs /\ base \in Int /\ named \in BOOLEAN /\ stamp \in Int
      /\ after.object \in Int
  <2>1. doc[e] \in Docs /\ saves[s] \in Attempts
    BY DEF SaveTyped, DocsTyped, SavesTyped
  <2>2. base \in Int /\ named \in BOOLEAN
    BY <2>1 DEF Docs, Attempts
  <2>3. stamp \in Int
    BY <2>1 DEF Docs, Views
  <2> QED
    BY <2>1, <2>2, <2>3 DEF Views
<1>2. doc' = [doc EXCEPT ![e] = d]
  BY DEF Accept
<1> HIDE DEF base, named, stamp
<1>3. d \in Docs /\ d.text = doc[e].text /\ d.call = 0 /\ d.object = after.object /\ d.base =
   base
  BY <1>1 DEF Docs
<1> HIDE DEF d
<1>4. /\ doc' \in [Editors -> Docs] /\ \A x \in Editors : x # e => doc'[x] = doc[x]
      /\ doc'[e] = d
  BY <1>2, <1>3 DEF SaveTyped, DocsTyped
<1> QED
  BY <1>3, <1>4 DEF base

(* The save is over for its document.                                      *)
LEMMA SettlesDocs ==
  ASSUME SaveTyped, NEW e \in Editors, Settles(e)
  PROVE  /\ doc' \in [Editors -> Docs] /\ \A d \in Editors : d # e => doc'[d] = doc[d]
         /\ doc'[e].text = doc[e].text /\ doc'[e].base = doc[e].base
         /\ doc'[e].object = doc[e].object /\ doc'[e].call = 0
<1> DEFINE d == [doc[e] EXCEPT !.call = 0, !.frozen = FALSE]
<1>1. doc[e] \in Docs
  BY DEF SaveTyped, DocsTyped
<1>2. d \in Docs /\ d.text = doc[e].text /\ d.base = doc[e].base /\ d.object = doc[e].object
      /\ d.call = 0
  BY <1>1 DEF Docs
<1>3. doc' = [doc EXCEPT ![e] = d]
  BY <1>1 DEF Settles, SaveTyped, DocsTyped, Docs
<1> HIDE DEF d
<1> QED
  BY <1>2, <1>3 DEF SaveTyped, DocsTyped

(* The save is left unconfirmed.                                           *)
LEMMA FreezesDocs ==
  ASSUME SaveTyped, NEW e \in Editors, NEW s \in DOMAIN saves, NEW witness \in Views,
         Freezes(e, s, witness)
  PROVE  /\ doc' \in [Editors -> Docs] /\ \A d \in Editors : d # e => doc'[d] = doc[d]
         /\ doc'[e].text = doc[e].text /\ doc'[e].base = doc[e].base
         /\ doc'[e].object = doc[e].object /\ doc'[e].call = doc[e].call
<1> DEFINE d == [doc[e] EXCEPT !.frozen = TRUE]
<1>1. doc[e] \in Docs
  BY DEF SaveTyped, DocsTyped
<1>2. d \in Docs /\ d.text = doc[e].text /\ d.base = doc[e].base /\ d.object = doc[e].object
      /\ d.call = doc[e].call
  BY <1>1 DEF Docs
<1>3. doc' = [doc EXCEPT ![e] = d]
  BY <1>1 DEF Freezes, SaveTyped, DocsTyped, Docs
<1> HIDE DEF d
<1> QED
  BY <1>2, <1>3 DEF SaveTyped, DocsTyped

(* Opening a document from what is observed.                               *)
LEMMA OpenedTyped ==
  \A o \in Views : Opened(o) \in Docs /\ Opened(o).text = o.text /\ Opened(o).base = o.text
                   /\ Opened(o).object = o.object /\ Opened(o).call = 0
  BY DEF Views, Docs, Opened

(* What a prepared save is, and that the others stay.                      *)
LEMMA PrepareSaves ==
  ASSUME SaveTyped, NEW e \in Editors, NEW force \in BOOLEAN, Prepare(e, force)
  PROVE  /\ saves' \in Seq(Attempts) /\ Len(saves') = Len(saves) + 1
         /\ DOMAIN saves' = DOMAIN saves \union {Len(saves) + 1}
         /\ \A r \in DOMAIN saves : saves'[r] = saves[r]
         /\ LET a == saves'[Len(saves) + 1] IN
              /\ a.by = e /\ a.text = doc[e].text /\ a.base = doc[e].base /\ a.place = 0
              /\ a.policy = Policy(e, force) /\ a.before = Observed /\ a.pc = "prepared"
              /\ a.told = "nothing" /\ a.known = Nothing /\ a.file = 0
<1> DEFINE a == [by |-> e, text |-> doc[e].text, base |-> doc[e].base, policy |-> Policy(e,
   force),
        before |-> Observed, pc |-> "prepared", seen |-> Nothing, file |-> 0,
        place |-> 0, witness |-> Nothing, after |-> Nothing,
        known |-> Nothing, told |-> "nothing", calm |-> 0]
<1>1. doc[e] \in Docs
  BY DEF SaveTyped, DocsTyped
<1>2. Policy(e, force) \in Policies
  BY <1>1 DEF Policy, Policies, Docs
<1>3. doc[e].text \in Int /\ doc[e].base \in Int
  BY <1>1 DEF Docs
<1>4. a \in Attempts
  BY <1>2, <1>3, SeenTyped DEF Attempts, Running, Untold, SaveTyped
<1>5. saves' = Append(saves, a)
  BY DEF Prepare
<1>6. a.by = e /\ a.text = doc[e].text /\ a.base = doc[e].base /\ a.place = 0
      /\ a.policy = Policy(e, force) /\ a.before = Observed /\ a.pc = "prepared"
      /\ a.told = "nothing" /\ a.known = Nothing /\ a.file = 0
  OBVIOUS
<1> HIDE DEF a
<1>7. /\ saves' \in Seq(Attempts) /\ Len(saves') = Len(saves) + 1
      /\ DOMAIN saves' = DOMAIN saves \union {Len(saves) + 1}
      /\ \A r \in DOMAIN saves : saves'[r] = saves[r]
      /\ saves'[Len(saves) + 1] = a
  BY <1>4, <1>5 DEF SaveTyped, SavesTyped
<1> QED
  BY <1>6, <1>7

(* A typed text is a document's own.                                       *)
LEMMA EditDocs ==
  ASSUME SaveTyped, NEW e \in Editors, Edit(e)
  PROVE  /\ doc' \in [Editors -> Docs] /\ \A d \in Editors : d # e => doc'[d] = doc[d]
         /\ doc'[e].text = texts + 1 /\ doc'[e].base = doc[e].base
         /\ doc'[e].object = doc[e].object /\ doc'[e].call = doc[e].call
<1> DEFINE d == [doc[e] EXCEPT !.text = texts + 1]
<1>1. doc[e] \in Docs /\ texts + 1 \in Int
  BY FieldsTyped DEF SaveTyped, ClockTyped
<1>2. d \in Docs /\ d.text = texts + 1 /\ d.base = doc[e].base /\ d.object = doc[e].object
      /\ d.call = doc[e].call
  BY <1>1 DEF Docs
<1>3. doc' = [doc EXCEPT ![e] = d]
  BY <1>1 DEF Edit, SaveTyped, DocsTyped, Docs
<1> HIDE DEF d
<1> QED
  BY <1>2, <1>3 DEF SaveTyped, DocsTyped

(* A prepared save is its document's call.                                 *)
LEMMA PrepareDocs ==
  ASSUME SaveTyped, NEW e \in Editors, NEW force \in BOOLEAN, Prepare(e, force)
  PROVE  /\ doc' \in [Editors -> Docs] /\ \A d \in Editors : d # e => doc'[d] = doc[d]
         /\ doc'[e].text = doc[e].text /\ doc'[e].base = doc[e].base
         /\ doc'[e].object = doc[e].object /\ doc'[e].call = Len(saves) + 1
<1> DEFINE d == [doc[e] EXCEPT !.call = Len(saves) + 1]
<1>1. doc[e] \in Docs /\ Len(saves) + 1 \in Nat
  BY FieldsTyped DEF SaveTyped, SavesTyped
<1>2. d \in Docs /\ d.text = doc[e].text /\ d.base = doc[e].base /\ d.object = doc[e].object
      /\ d.call = Len(saves) + 1
  BY <1>1 DEF Docs
<1>3. doc' = [doc EXCEPT ![e] = d]
  BY <1>1 DEF Prepare, SaveTyped, DocsTyped, Docs
<1> HIDE DEF d
<1> QED
  BY <1>2, <1>3 DEF SaveTyped, DocsTyped

(* A document read again is clean, and its call stays.                     *)
LEMMA ReadDocs ==
  ASSUME SaveTyped, NEW e \in Editors, Reload(e) \/ Enable(e)
  PROVE  /\ doc' \in [Editors -> Docs] /\ \A d \in Editors : d # e => doc'[d] = doc[d]
         /\ doc'[e].text = Observed.text /\ doc'[e].base = Observed.text
         /\ doc'[e].object = Entry /\ doc'[e].call = doc[e].call
<1>1. /\ Opened(Observed) \in Docs /\ Opened(Observed).text = Observed.text
      /\ Opened(Observed).base = Observed.text /\ Opened(Observed).object = Entry
      /\ Opened(Observed).call = 0 /\ doc[e].call \in Nat /\ doc[e].frozen \in BOOLEAN
  BY OpenedTyped, SeenTyped, FieldsTyped DEF SaveTyped
<1> DEFINE d == [Opened(Observed) EXCEPT !.call = doc[e].call, !.frozen = doc[e].frozen]
<1>2. d \in Docs /\ d.text = Observed.text /\ d.base = Observed.text /\ d.object = Entry
      /\ d.call = doc[e].call
  BY <1>1 DEF Docs
<1>3. CASE Reload(e)
  <2>1. doc' = [doc EXCEPT ![e] = d]
    BY <1>3 DEF Reload
  <2> HIDE DEF d
  <2> QED
    BY <1>2, <2>1 DEF SaveTyped, DocsTyped
<1>4. CASE Enable(e)
  <2>1. doc' = [doc EXCEPT ![e] = Opened(Observed)] /\ doc[e].call = 0
    BY <1>4 DEF Enable
  <2> QED
    BY <1>1, <2>1 DEF SaveTyped, DocsTyped
<1> QED
  BY <1>3, <1>4

(* Every action keeps the disk typed, and the name among the files made.   *)
LEMMA DiskStep == SaveTyped /\ [Next]_vars => DiskTyped'
<1> SUFFICES ASSUME SaveTyped /\ [Next]_vars PROVE DiskTyped'
  OBVIOUS
<1>1. ASSUME NEW e \in Editors, Edit(e) PROVE DiskTyped'
  BY <1>1 DEF Edit, disk, SaveTyped, DiskTyped, ClockTyped
<1>2. ASSUME NEW e \in Editors, Reload(e) PROVE DiskTyped'
  BY <1>2 DEF Reload, disk, clock, Opened, Observed, Seen, Entry, Clean, SaveTyped, DiskTyped,
     ClockTyped
<1>3. ASSUME NEW e \in Editors, Enable(e) PROVE DiskTyped'
  BY <1>3 DEF Enable, disk, clock, Opened, Observed, Seen, Entry, SaveTyped, DiskTyped,
     ClockTyped
<1>4. CASE WriteInPlace
  <2>1. Entry \in 1..Len(objects)
    BY <1>4, SeenTyped DEF WriteInPlace, SaveTyped
  <2>2. NewFile \in Files
    BY <1>4 DEF WriteInPlace, Foreign, NewFile, Files, SaveTyped, ClockTyped
  <2>3. objects' = [objects EXCEPT ![Entry] = NewFile] /\ UNCHANGED <<line, floor>>
    BY <1>4 DEF WriteInPlace, Foreign
  <2>4. objects' \in Seq(Files) /\ Len(objects') = Len(objects)
    BY <2>1, <2>2, <2>3 DEF SaveTyped, DiskTyped
  <2> QED
    BY <2>3, <2>4 DEF SaveTyped, DiskTyped
<1>5. CASE Replace
  BY <1>5 DEF Replace, Foreign, NewFile, Files, SaveTyped, DiskTyped, ClockTyped
<1>6. CASE Remove
  BY <1>6 DEF Remove, Foreign, Entry, SaveTyped, DiskTyped, ClockTyped
<1>7. ASSUME NEW e \in Editors, NEW force \in BOOLEAN, Prepare(e, force) PROVE DiskTyped'
  BY <1>7 DEF Prepare, disk, clock, Policy, SaveTyped, DiskTyped, ClockTyped
<1>8. ASSUME NEW s \in DOMAIN saves, Check(s) PROVE DiskTyped'
  BY <1>8 DEF Check, disk, clock, Serving, Free, SaveTyped, DiskTyped, ClockTyped
<1>9. ASSUME NEW s \in DOMAIN saves, Stage(s) PROVE DiskTyped'
  BY <1>9 DEF Stage, disk, clock, Serving, SaveTyped, DiskTyped, ClockTyped
<1>10. ASSUME NEW s \in DOMAIN saves, Refuse(s) PROVE DiskTyped'
  BY <1>10 DEF Refuse, disk, clock, Ends, Spent, Unlocks, SaveTyped, DiskTyped, ClockTyped
<1>11. ASSUME NEW s \in DOMAIN saves, Publish(s) PROVE DiskTyped'
  <2> DEFINE f == [text |-> saves[s].text, mtime |-> StampOf(s), changed |-> now + 1]
  <2>1. saves[s] \in Attempts
    BY DEF SaveTyped, SavesTyped
  <2>2. saves[s].text \in Int /\ saves[s].seen.mtime \in Int
    BY <2>1 DEF Attempts, Views
  <2>3. f \in Files
    BY <2>2 DEF StampOf, Files, SaveTyped, ClockTyped
  <2>4. objects' = Append(objects, f) /\ line' = Append(line, Len(objects) + 1) /\ floor' =
     floor
    BY <1>11 DEF Publish
  <2> HIDE DEF f
  <2> QED
    BY <2>3, <2>4 DEF SaveTyped, DiskTyped
<1>12. ASSUME NEW s \in DOMAIN saves, PublishFails(s) PROVE DiskTyped'
  BY <1>12 DEF PublishFails, disk, clock, Ends, Spent, Unlocks, Serving, SaveTyped, DiskTyped,
     ClockTyped
<1>13. ASSUME NEW s \in DOMAIN saves, Finish(s) PROVE DiskTyped'
  BY <1>13 DEF Finish, Ends, Spent, Unlocks, clock, Serving, Synced, SaveTyped, DiskTyped,
     ClockTyped
<1>14. ASSUME NEW s \in DOMAIN saves, FinishFails(s) PROVE DiskTyped'
  BY <1>14 DEF FinishFails, disk, clock, Ends, Spent, Unlocks, Serving, SaveTyped, DiskTyped,
     ClockTyped
<1>15. ASSUME NEW e \in Editors, NEW s \in DOMAIN saves, Reply(e, s) PROVE DiskTyped'
  BY <1>15 DEF Reply, disk, clock, SaveTyped, DiskTyped, ClockTyped
<1>16. ASSUME NEW e \in Editors, NEW s \in DOMAIN saves, Lose(e, s) PROVE DiskTyped'
  BY <1>16 DEF Lose, disk, clock, SaveTyped, DiskTyped, ClockTyped
<1>17. ASSUME NEW e \in Editors, NEW s \in DOMAIN saves, VerifyWritten(e, s) PROVE DiskTyped'
  BY <1>17 DEF VerifyWritten, Synced, clock, SaveTyped, DiskTyped, ClockTyped
<1>18. ASSUME NEW e \in Editors, NEW s \in DOMAIN saves, VerifyUnchanged(e, s) PROVE DiskTyped'
  BY <1>18 DEF VerifyUnchanged, disk, clock, SaveTyped, DiskTyped, ClockTyped
<1>19. ASSUME NEW e \in Editors, NEW s \in DOMAIN saves, VerifyFails(e, s) PROVE DiskTyped'
  BY <1>19 DEF VerifyFails, disk, clock, SaveTyped, DiskTyped, ClockTyped
<1>20. CASE UNCHANGED vars
  BY <1>20 DEF vars, SaveTyped, DiskTyped, ClockTyped, disk, clock
<1>21. QED
  BY <1>1, <1>2, <1>3, <1>4, <1>5, <1>6, <1>7, <1>8, <1>9, <1>10, <1>11, <1>12, <1>13, <1>14,
     <1>15, <1>16, <1>17, <1>18, <1>19, <1>20 DEF Next, Users, Answer, Verify, Serve

(* Every action keeps the list of saves typed.                             *)
LEMMA SavesStep == SaveTyped /\ Locking /\ [Next]_vars => SavesTyped'
<1> SUFFICES ASSUME SaveTyped /\ Locking /\ [Next]_vars PROVE SavesTyped'
  OBVIOUS
<1>1. ASSUME NEW e \in Editors, Edit(e) PROVE SavesTyped'
  BY <1>1 DEF Edit, disk, SaveTyped, SavesTyped
<1>2. ASSUME NEW e \in Editors, Reload(e) PROVE SavesTyped'
  BY <1>2 DEF Reload, disk, clock, Opened, Observed, Seen, Entry, Clean, SaveTyped, SavesTyped
<1>3. ASSUME NEW e \in Editors, Enable(e) PROVE SavesTyped'
  BY <1>3 DEF Enable, disk, clock, Opened, Observed, Seen, Entry, SaveTyped, SavesTyped
<1>4. CASE WriteInPlace
  BY <1>4 DEF WriteInPlace, Foreign, NewFile, Entry, SaveTyped, SavesTyped
<1>5. CASE Replace
  BY <1>5 DEF Replace, Foreign, NewFile, SaveTyped, SavesTyped
<1>6. CASE Remove
  BY <1>6 DEF Remove, Foreign, Entry, SaveTyped, SavesTyped
<1>7. ASSUME NEW e \in Editors, NEW force \in BOOLEAN, Prepare(e, force) PROVE SavesTyped'
  <2>1. saves' \in Seq(Attempts) /\ Len(saves') = Len(saves) + 1
    BY <1>7, PrepareSaves
  <2> QED
    BY <1>7, <2>1 DEF Prepare, SaveTyped, SavesTyped
<1>8. ASSUME NEW s \in DOMAIN saves, Check(s) PROVE SavesTyped'
  <2>1. Only(s)
    BY <1>8, CheckSaves
  <2> QED
    BY <1>8, <2>1 DEF Only, Check, SaveTyped, SavesTyped
<1>9. ASSUME NEW s \in DOMAIN saves, Stage(s) PROVE SavesTyped'
  <2>1. Only(s)
    BY <1>9, StageSaves
  <2> QED
    BY <1>9, <2>1 DEF Only, Stage, SaveTyped, SavesTyped
<1>10. ASSUME NEW s \in DOMAIN saves, Refuse(s) PROVE SavesTyped'
  <2>1. Only(s)
    BY <1>10, SeenTyped, EndsSaves DEF Refuse, Outcomes, SaveTyped
  <2> QED
    BY <1>10, <2>1 DEF Only, Refuse, SaveTyped, SavesTyped, Ends, Unlocks
<1>11. ASSUME NEW s \in DOMAIN saves, Publish(s) PROVE SavesTyped'
  <2>1. Only(s)
    BY <1>11, PublishSaves
  <2> QED
    BY <1>11, <2>1 DEF Only, Publish, SaveTyped, SavesTyped
<1>12. ASSUME NEW s \in DOMAIN saves, PublishFails(s) PROVE SavesTyped'
  <2>1. Staged(s) \in Views
    <3>1. saves[s] \in Attempts
      BY DEF SaveTyped, SavesTyped
    <3>2. saves[s].text \in Int /\ StampOf(s) \in Int
      BY <3>1 DEF Attempts, Views, StampOf, SaveTyped, ClockTyped
    <3> QED
      BY <3>2 DEF Staged, Views
  <2>2. Only(s)
    BY <1>12, <2>1, SeenTyped, EndsSaves DEF PublishFails, Outcomes, SaveTyped
  <2> QED
    BY <1>12, <2>2 DEF Only, PublishFails, Ends, Unlocks, SaveTyped, SavesTyped
<1>13. ASSUME NEW s \in DOMAIN saves, Finish(s) PROVE SavesTyped'
  <2>1. saves[s].file \in 0..Len(objects)
    BY FieldsTyped DEF Locking
  <2>2. Only(s)
    <3>1. CASE Entry = saves[s].file
      BY <1>13, <2>1, <3>1, SeenTyped, EndsSaves DEF Finish, Outcomes, SaveTyped
    <3>2. CASE Entry # saves[s].file
      BY <1>13, <2>1, <3>2, SeenTyped, EndsSaves DEF Finish, AfterError, Outcomes, SaveTyped
    <3> QED
      BY <3>1, <3>2
  <2> QED
    BY <1>13, <2>2 DEF Only, Finish, Ends, Unlocks, SaveTyped, SavesTyped
<1>14. ASSUME NEW s \in DOMAIN saves, FinishFails(s) PROVE SavesTyped'
  <2>1. saves[s].file \in 0..Len(objects)
    BY FieldsTyped DEF Locking
  <2>2. Only(s)
    BY <1>14, <2>1, SeenTyped, EndsSaves DEF FinishFails, AfterError, Outcomes, SaveTyped
  <2> QED
    BY <1>14, <2>2 DEF Only, FinishFails, Ends, Unlocks, SaveTyped, SavesTyped
<1>15. ASSUME NEW e \in Editors, NEW s \in DOMAIN saves, Reply(e, s) PROVE SavesTyped'
  <2>1. saves[s].witness \in Views
    BY FieldsTyped
  <2>2. Only(s)
    BY <1>15, <2>1, TellsSaves, FreezesSaves DEF Reply
  <2> QED
    BY <1>15, <2>2 DEF Only, Reply, SaveTyped, SavesTyped
<1>16. ASSUME NEW e \in Editors, NEW s \in DOMAIN saves, Lose(e, s) PROVE SavesTyped'
  <2>1. Only(s)
    BY <1>16, SeenTyped, FreezesSaves DEF Lose, SaveTyped
  <2> QED
    BY <1>16, <2>1 DEF Only, Lose, SaveTyped, SavesTyped
<1>17. ASSUME NEW e \in Editors, NEW s \in DOMAIN saves, VerifyWritten(e, s) PROVE SavesTyped'
  <2>1. Only(s)
    BY <1>17, TellsSaves DEF VerifyWritten
  <2> QED
    BY <1>17, <2>1 DEF Only, VerifyWritten, SaveTyped, SavesTyped
<1>18. ASSUME NEW e \in Editors, NEW s \in DOMAIN saves, VerifyUnchanged(e, s) PROVE SavesTyped'
  <2>1. Only(s)
    BY <1>18, TellsSaves DEF VerifyUnchanged
  <2> QED
    BY <1>18, <2>1 DEF Only, VerifyUnchanged, SaveTyped, SavesTyped
<1>19. ASSUME NEW e \in Editors, NEW s \in DOMAIN saves, VerifyFails(e, s) PROVE SavesTyped'
  <2>1. Only(s)
    BY <1>19, TellsSaves DEF VerifyFails, Untold
  <2> QED
    BY <1>19, <2>1 DEF Only, VerifyFails, SaveTyped, SavesTyped
<1>20. CASE UNCHANGED vars
  BY <1>20 DEF vars, SaveTyped, SavesTyped, disk, clock
<1>21. QED
  BY <1>1, <1>2, <1>3, <1>4, <1>5, <1>6, <1>7, <1>8, <1>9, <1>10, <1>11, <1>12, <1>13, <1>14,
     <1>15, <1>16, <1>17, <1>18, <1>19, <1>20 DEF Next, Users, Answer, Verify, Serve

(* Every action keeps the documents typed.                                 *)
LEMMA DocsStep == SaveTyped /\ [Next]_vars => DocsTyped'
<1> SUFFICES ASSUME SaveTyped /\ [Next]_vars PROVE DocsTyped'
  OBVIOUS
<1>1. ASSUME NEW e \in Editors, Edit(e) PROVE DocsTyped'
  BY <1>1, EditDocs, FieldsTyped DEF Edit, SaveTyped, DocsTyped
<1>2. ASSUME NEW e \in Editors, Reload(e) PROVE DocsTyped'
  BY <1>2, ReadDocs, FieldsTyped DEF Reload, SaveTyped, DocsTyped
<1>3. ASSUME NEW e \in Editors, Enable(e) PROVE DocsTyped'
  BY <1>3, ReadDocs, FieldsTyped DEF Enable, SaveTyped, DocsTyped
<1>4. CASE WriteInPlace
  BY <1>4 DEF WriteInPlace, Foreign, NewFile, Entry, SaveTyped, DocsTyped
<1>5. CASE Replace
  BY <1>5 DEF Replace, Foreign, NewFile, SaveTyped, DocsTyped
<1>6. CASE Remove
  BY <1>6 DEF Remove, Foreign, Entry, SaveTyped, DocsTyped
<1>7. ASSUME NEW e \in Editors, NEW force \in BOOLEAN, Prepare(e, force) PROVE DocsTyped'
  <2>1. Len(saves') = Len(saves) + 1 /\ Len(saves) \in Nat
    BY <1>7, PrepareSaves DEF SaveTyped, SavesTyped
  <2>2. /\ doc' \in [Editors -> Docs] /\ \A d \in Editors : d # e => doc'[d] = doc[d]
        /\ doc'[e].call = Len(saves) + 1 /\ UNCHANGED kind
    BY <1>7, PrepareDocs DEF Prepare
  <2>3. \A d \in Editors : doc'[d].call <= Len(saves)'
    BY <2>1, <2>2, FieldsTyped
  <2> QED
    BY <2>2, <2>3 DEF SaveTyped, DocsTyped
<1>8. ASSUME NEW s \in DOMAIN saves, Check(s) PROVE DocsTyped'
  <2>1. Len(saves') = Len(saves) /\ UNCHANGED <<doc, kind>>
    BY <1>8 DEF Check, SaveTyped, SavesTyped
  <2> QED
    BY <1>8, <2>1 DEF SaveTyped, DocsTyped
<1>9. ASSUME NEW s \in DOMAIN saves, Stage(s) PROVE DocsTyped'
  <2>1. Len(saves') = Len(saves) /\ UNCHANGED <<doc, kind>>
    BY <1>9 DEF Stage, SaveTyped, SavesTyped
  <2> QED
    BY <1>9, <2>1 DEF SaveTyped, DocsTyped
<1>10. ASSUME NEW s \in DOMAIN saves, Refuse(s) PROVE DocsTyped'
  <2>1. Len(saves') = Len(saves) /\ UNCHANGED <<doc, kind>>
    BY <1>10 DEF Refuse, Ends, Spent, SaveTyped, SavesTyped
  <2> QED
    BY <1>10, <2>1 DEF SaveTyped, DocsTyped
<1>11. ASSUME NEW s \in DOMAIN saves, Publish(s) PROVE DocsTyped'
  <2>1. Len(saves') = Len(saves) /\ UNCHANGED <<doc, kind>>
    BY <1>11 DEF Publish, SaveTyped, SavesTyped
  <2> QED
    BY <1>11, <2>1 DEF SaveTyped, DocsTyped
<1>12. ASSUME NEW s \in DOMAIN saves, PublishFails(s) PROVE DocsTyped'
  <2>1. Len(saves') = Len(saves) /\ UNCHANGED <<doc, kind>>
    BY <1>12 DEF PublishFails, Ends, Spent, SaveTyped, SavesTyped
  <2> QED
    BY <1>12, <2>1 DEF SaveTyped, DocsTyped
<1>13. ASSUME NEW s \in DOMAIN saves, Finish(s) PROVE DocsTyped'
  <2>1. Len(saves') = Len(saves) /\ UNCHANGED <<doc, kind>>
    BY <1>13 DEF Finish, Ends, Spent, SaveTyped, SavesTyped
  <2> QED
    BY <1>13, <2>1 DEF SaveTyped, DocsTyped
<1>14. ASSUME NEW s \in DOMAIN saves, FinishFails(s) PROVE DocsTyped'
  <2>1. Len(saves') = Len(saves) /\ UNCHANGED <<doc, kind>>
    BY <1>14 DEF FinishFails, Ends, Spent, SaveTyped, SavesTyped
  <2> QED
    BY <1>14, <2>1 DEF SaveTyped, DocsTyped
<1>15. ASSUME NEW e \in Editors, NEW s \in DOMAIN saves, Reply(e, s) PROVE DocsTyped'
  <2>1. saves[s].witness \in Views /\ saves[s].after \in Views
    BY FieldsTyped
  <2>2. Len(saves') = Len(saves) /\ UNCHANGED kind
    BY <1>15, <2>1, TellsSaves, FreezesSaves DEF Reply, Only
  <2>3. CASE Accept(e, s, saves[s].after)
    BY <2>1, <2>2, <2>3, AcceptDocs DEF SaveTyped, DocsTyped, SavesTyped
  <2>4. CASE Settles(e)
    BY <2>2, <2>4, SettlesDocs DEF SaveTyped, DocsTyped, SavesTyped
  <2>5. CASE Freezes(e, s, saves[s].witness)
    BY <2>1, <2>2, <2>5, FreezesDocs DEF SaveTyped, DocsTyped
  <2> QED
    BY <1>15, <2>3, <2>4, <2>5 DEF Reply
<1>16. ASSUME NEW e \in Editors, NEW s \in DOMAIN saves, Lose(e, s) PROVE DocsTyped'
  <2>1. Len(saves') = Len(saves) /\ UNCHANGED kind
    BY <1>16, SeenTyped, FreezesSaves DEF Lose, Only, SaveTyped
  <2> QED
    BY <1>16, <2>1, SeenTyped, FreezesDocs DEF Lose, SaveTyped, DocsTyped
<1>17. ASSUME NEW e \in Editors, NEW s \in DOMAIN saves, VerifyWritten(e, s) PROVE DocsTyped'
  <2>1. Len(saves') = Len(saves) /\ UNCHANGED kind
    BY <1>17, TellsSaves DEF VerifyWritten, Only
  <2> QED
    BY <1>17, <2>1, SeenTyped, AcceptDocs DEF VerifyWritten, SaveTyped, DocsTyped, SavesTyped
<1>18. ASSUME NEW e \in Editors, NEW s \in DOMAIN saves, VerifyUnchanged(e, s) PROVE DocsTyped'
  <2>1. Len(saves') = Len(saves) /\ UNCHANGED kind
    BY <1>18, TellsSaves DEF VerifyUnchanged, Only
  <2> QED
    BY <1>18, <2>1, SettlesDocs DEF VerifyUnchanged, SaveTyped, DocsTyped, SavesTyped
<1>19. ASSUME NEW e \in Editors, NEW s \in DOMAIN saves, VerifyFails(e, s) PROVE DocsTyped'
  <2>1. Len(saves') = Len(saves) /\ UNCHANGED kind
    BY <1>19, TellsSaves DEF VerifyFails, Untold, Only
  <2> QED
    BY <1>19, <2>1, SettlesDocs DEF VerifyFails, SaveTyped, DocsTyped, SavesTyped
<1>20. CASE UNCHANGED vars
  BY <1>20 DEF vars, SaveTyped, DocsTyped, disk, clock
<1>21. QED
  BY <1>1, <1>2, <1>3, <1>4, <1>5, <1>6, <1>7, <1>8, <1>9, <1>10, <1>11, <1>12, <1>13, <1>14,
     <1>15, <1>16, <1>17, <1>18, <1>19, <1>20 DEF Next, Users, Answer, Verify, Serve

(* The clocks only count.                                                  *)
LEMMA ClockStep == SaveTyped /\ [Next]_vars => ClockTyped'
<1> SUFFICES ASSUME SaveTyped /\ [Next]_vars PROVE ClockTyped'
  OBVIOUS
<1>1. ASSUME NEW e \in Editors, Edit(e) PROVE ClockTyped'
  BY <1>1 DEF Edit, disk, SaveTyped, ClockTyped
<1>2. ASSUME NEW e \in Editors, Reload(e) PROVE ClockTyped'
  BY <1>2 DEF Reload, disk, clock, Opened, Observed, Seen, Entry, Clean, SaveTyped, ClockTyped
<1>3. ASSUME NEW e \in Editors, Enable(e) PROVE ClockTyped'
  BY <1>3 DEF Enable, disk, clock, Opened, Observed, Seen, Entry, SaveTyped, ClockTyped
<1>4. CASE WriteInPlace
  BY <1>4 DEF WriteInPlace, Foreign, NewFile, Entry, SaveTyped, ClockTyped
<1>5. CASE Replace
  BY <1>5 DEF Replace, Foreign, NewFile, SaveTyped, ClockTyped
<1>6. CASE Remove
  BY <1>6 DEF Remove, Foreign, Entry, SaveTyped, ClockTyped
<1>7. ASSUME NEW e \in Editors, NEW force \in BOOLEAN, Prepare(e, force) PROVE ClockTyped'
  BY <1>7 DEF Prepare, disk, clock, Policy, SaveTyped, ClockTyped
<1>8. ASSUME NEW s \in DOMAIN saves, Check(s) PROVE ClockTyped'
  BY <1>8 DEF Check, disk, clock, Serving, Free, SaveTyped, ClockTyped
<1>9. ASSUME NEW s \in DOMAIN saves, Stage(s) PROVE ClockTyped'
  BY <1>9 DEF Stage, disk, clock, Serving, SaveTyped, ClockTyped
<1>10. ASSUME NEW s \in DOMAIN saves, Refuse(s) PROVE ClockTyped'
  BY <1>10 DEF Refuse, disk, clock, Ends, Spent, Unlocks, SaveTyped, ClockTyped
<1>11. ASSUME NEW s \in DOMAIN saves, Publish(s) PROVE ClockTyped'
  BY <1>11 DEF Publish, Serving, StampOf, SaveTyped, ClockTyped
<1>12. ASSUME NEW s \in DOMAIN saves, PublishFails(s) PROVE ClockTyped'
  BY <1>12 DEF PublishFails, disk, clock, Ends, Spent, Unlocks, Serving, SaveTyped, ClockTyped
<1>13. ASSUME NEW s \in DOMAIN saves, Finish(s) PROVE ClockTyped'
  BY <1>13 DEF Finish, Ends, Spent, Unlocks, clock, Serving, Synced, SaveTyped, ClockTyped
<1>14. ASSUME NEW s \in DOMAIN saves, FinishFails(s) PROVE ClockTyped'
  BY <1>14 DEF FinishFails, disk, clock, Ends, Spent, Unlocks, Serving, SaveTyped, ClockTyped
<1>15. ASSUME NEW e \in Editors, NEW s \in DOMAIN saves, Reply(e, s) PROVE ClockTyped'
  BY <1>15 DEF Reply, disk, clock, SaveTyped, ClockTyped
<1>16. ASSUME NEW e \in Editors, NEW s \in DOMAIN saves, Lose(e, s) PROVE ClockTyped'
  BY <1>16 DEF Lose, disk, clock, SaveTyped, ClockTyped
<1>17. ASSUME NEW e \in Editors, NEW s \in DOMAIN saves, VerifyWritten(e, s) PROVE ClockTyped'
  BY <1>17 DEF VerifyWritten, Synced, clock, SaveTyped, ClockTyped
<1>18. ASSUME NEW e \in Editors, NEW s \in DOMAIN saves, VerifyUnchanged(e, s) PROVE ClockTyped'
  BY <1>18 DEF VerifyUnchanged, disk, clock, SaveTyped, ClockTyped
<1>19. ASSUME NEW e \in Editors, NEW s \in DOMAIN saves, VerifyFails(e, s) PROVE ClockTyped'
  BY <1>19 DEF VerifyFails, disk, clock, SaveTyped, ClockTyped
<1>20. CASE UNCHANGED vars
  BY <1>20 DEF vars, SaveTyped, ClockTyped, clock
<1>21. QED
  BY <1>1, <1>2, <1>3, <1>4, <1>5, <1>6, <1>7, <1>8, <1>9, <1>10, <1>11, <1>12, <1>13, <1>14,
     <1>15, <1>16, <1>17, <1>18, <1>19, <1>20 DEF Next, Users, Answer, Verify, Serve

(* How a save ends: refused only before its publication, committed only    *)
(* when the name stands for its file and the directory is synced.          *)
LEMMA EndedSaves ==
  ASSUME SaveTyped, Locking, NEW s \in DOMAIN saves, Ended(s)
  PROVE  /\ Only(s) /\ saves[s].pc \in Running /\ saves'[s].pc \in Outcomes
         /\ saves'[s].pc = "refused" => saves[s].pc # "published"
         /\ saves'[s].pc = "committed" => /\ saves[s].pc = "published" /\ Entry = saves[s].file
                                          /\ saves'[s].after = Observed /\ floor' = Len(line)
         /\ saves'[s].by = saves[s].by /\ saves'[s].text = saves[s].text
         /\ saves'[s].base = saves[s].base /\ saves'[s].policy = saves[s].policy
         /\ saves'[s].place = saves[s].place /\ saves'[s].told = saves[s].told
         /\ saves'[s].file = 0
         /\ lock' = IF lock = s THEN 0 ELSE lock
         /\ UNCHANGED <<kind, objects, line, doc, now, texts, foreign>>
         /\ floor' \in {floor, Len(line)}
<1> DEFINE Result(pc, after) ==
      /\ Only(s) /\ saves'[s].pc = pc /\ saves'[s].after = after /\ saves'[s].file = 0
      /\ saves'[s].by = saves[s].by /\ saves'[s].text = saves[s].text
      /\ saves'[s].base = saves[s].base /\ saves'[s].policy = saves[s].policy
      /\ saves'[s].place = saves[s].place /\ saves'[s].told = saves[s].told
      /\ lock' = IF lock = s THEN 0 ELSE lock
<1>1. ASSUME NEW pc \in Outcomes, NEW witness \in Views, NEW after \in Views,
             Ends(s, pc, witness, after)
      PROVE  Result(pc, after)
  BY <1>1, EndsSaves DEF Ends, Unlocks
<1>2. Nothing \in Views /\ Observed \in Views
  BY SeenTyped DEF SaveTyped
<1>3. Staged(s) \in Views
  <2>1. saves[s].text \in Int /\ saves[s].seen.mtime \in Int
    BY FieldsTyped DEF Views
  <2>2. StampOf(s) \in Int
    BY <2>1 DEF StampOf, SaveTyped, ClockTyped
  <2> QED
    BY <2>1, <2>2 DEF Staged, Views
<1>4. Seen(saves[s].file) \in Views
  BY FieldsTyped, SeenTyped DEF Locking, SaveTyped
<1> HIDE DEF Result
<1>5. CASE Refuse(s)
  <2>1. Result("refused", Nothing)
    BY <1>1, <1>2, <1>5 DEF Refuse, Outcomes
  <2> QED
    BY <1>5, <2>1 DEF Result, Refuse, disk, clock, Outcomes
<1>6. CASE PublishFails(s)
  <2>1. Result("uncertain", Nothing)
    BY <1>1, <1>2, <1>3, <1>6 DEF PublishFails, Outcomes
  <2> QED
    BY <1>6, <2>1 DEF Result, PublishFails, Serving, Running, disk, clock, Outcomes
<1>7. CASE Finish(s)
  <2>1. CASE Entry = saves[s].file
    <3>1. Result("committed", Observed)
      BY <1>1, <1>2, <1>7, <2>1 DEF Finish, Outcomes
    <3> QED
      BY <1>7, <2>1, <3>1 DEF Result, Finish, Serving, Running, Synced, clock, Outcomes
  <2>2. CASE Entry # saves[s].file
    <3>1. Result("uncertain", Nothing)
      BY <1>1, <1>2, <1>4, <1>7, <2>2 DEF Finish, AfterError, Outcomes
    <3> QED
      BY <1>7, <3>1 DEF Result, Finish, Serving, Running, Synced, clock, Outcomes
  <2> QED
    BY <2>1, <2>2
<1>8. CASE FinishFails(s)
  <2>1. Result("uncertain", Nothing)
    BY <1>1, <1>2, <1>4, <1>8 DEF FinishFails, AfterError, Outcomes
  <2> QED
    BY <1>8, <2>1 DEF Result, FinishFails, Serving, Running, disk, clock, Outcomes
<1> QED
  BY <1>5, <1>6, <1>7, <1>8 DEF Ended

(* What an editor learns changes neither the name nor what the save did.   *)
LEMMA ToldSaves ==
  ASSUME SaveTyped, Descends, NEW e \in Editors, NEW s \in DOMAIN saves, Told(e, s)
  PROVE  /\ doc[e].call = s /\ saves[s].told \in Untold /\ Only(s)
         /\ \/ saves'[s].told \in Untold /\ saves'[s].after = saves[s].after
            \/ saves'[s].told = "written" /\ \/ saves[s].pc = "committed"
                                             \/ Landed(s, Observed) /\ floor' = Len(line)
            \/ saves'[s].told = "failed" /\ saves[s].pc = "refused"
            \/ saves'[s].told = "unchanged"
         /\ saves'[s].pc = saves[s].pc /\ saves'[s].by = saves[s].by
         /\ saves'[s].text = saves[s].text /\ saves'[s].base = saves[s].base
         /\ saves'[s].policy = saves[s].policy /\ saves'[s].seen = saves[s].seen
         /\ saves'[s].place = saves[s].place /\ saves'[s].file = saves[s].file
         /\ saves'[s].calm = saves[s].calm
         /\ UNCHANGED <<kind, lock, objects, line, now, texts, foreign>>
         /\ floor' \in {floor, Len(line)}
<1> DEFINE Same ==
      /\ Only(s) /\ saves'[s].pc = saves[s].pc /\ saves'[s].by = saves[s].by
      /\ saves'[s].text = saves[s].text /\ saves'[s].base = saves[s].base
      /\ saves'[s].policy = saves[s].policy /\ saves'[s].seen = saves[s].seen
      /\ saves'[s].place = saves[s].place /\ saves'[s].file = saves[s].file
      /\ saves'[s].calm = saves[s].calm
<1>1. saves[s].witness \in Views /\ Nothing \in Views
  BY FieldsTyped, SeenTyped DEF SaveTyped
<1>2. ASSUME NEW witness \in Views, Freezes(e, s, witness)
      PROVE  Same /\ saves'[s].told = saves[s].told /\ saves'[s].after = saves[s].after
  BY <1>2, FreezesSaves
<1>3. ASSUME NEW told \in Untold \union {"written", "failed", "unchanged"}, Tells(s, told)
      PROVE  Same /\ saves'[s].told = told /\ saves'[s].after = saves[s].after
  BY <1>3, TellsSaves
<1>4. doc[e].call = s /\ saves[s].told \in Untold
  <2>1. doc[e].call = s /\ s # 0
    BY DEF Told, Reply, Lose, VerifyWritten, VerifyUnchanged, VerifyFails, Verifies, Calls
  <2> QED
    BY <2>1 DEF Descends, DocDescends, SaveDescends
<1>5. UNCHANGED <<kind, lock, objects, line, now, texts, foreign>> /\ floor' \in {floor,
   Len(line)}
  BY DEF Told, Reply, Lose, VerifyWritten, VerifyUnchanged, VerifyFails, Synced, disk, clock
<1> HIDE DEF Same
<1>6. CASE Reply(e, s)
  <2>1. CASE saves[s].pc = "committed" /\ Tells(s, "written")
    BY <1>3, <1>4, <1>5, <2>1 DEF Same
  <2>2. CASE saves[s].pc = "refused" /\ Tells(s, "failed")
    BY <1>3, <1>4, <1>5, <2>2 DEF Same
  <2>3. CASE Freezes(e, s, saves[s].witness)
    BY <1>1, <1>2, <1>4, <1>5, <2>3 DEF Same
  <2> QED
    BY <1>6, <2>1, <2>2, <2>3 DEF Reply
<1>7. CASE Lose(e, s)
  BY <1>1, <1>2, <1>4, <1>5, <1>7 DEF Same, Lose
<1>8. CASE VerifyWritten(e, s)
  BY <1>3, <1>4, <1>5, <1>8 DEF Same, VerifyWritten, Synced
<1>9. CASE VerifyUnchanged(e, s)
  BY <1>3, <1>4, <1>5, <1>9 DEF Same, VerifyUnchanged
<1>10. CASE VerifyFails(e, s)
  <2>1. Tells(s, "doubted") /\ "doubted" \in Untold
    BY <1>10 DEF VerifyFails, Untold
  <2> QED
    BY <1>3, <1>4, <1>5, <2>1 DEF Same
<1> QED
  BY <1>6, <1>7, <1>8, <1>9, <1>10 DEF Told

(* The document afterwards: its text stays, and unless a save was          *)
(* confirmed, so do its base and its evidence.                             *)
LEMMA ToldDocs ==
  ASSUME SaveTyped, Descends, Kept, NEW e \in Editors, NEW s \in DOMAIN saves, Told(e, s)
  PROVE  /\ doc' \in [Editors -> Docs] /\ \A d \in Editors : d # e => doc'[d] = doc[d]
         /\ doc'[e].text = doc[e].text
         /\ \/ /\ doc'[e].call \in {0, doc[e].call}
               /\ doc'[e].base = doc[e].base /\ doc'[e].object = doc[e].object
               /\ doc'[e].call # 0 => saves'[s].told \in Untold
            \/ doc'[e].call = 0 /\ doc'[e].object # 0
               /\ doc'[e].base = IF Clean(e) /\ doc[e].base # saves[s].base THEN doc[e].base
                                 ELSE saves[s].text
<1>1. /\ saves[s].witness \in Views /\ saves[s].after \in Views
      /\ Nothing \in Views /\ Observed \in Views /\ Observed.object = Entry
  BY FieldsTyped, SeenTyped DEF SaveTyped
<1>0. saves[s].told \in Untold
  BY ToldSaves
<1>2. CASE Reply(e, s)
  <2>2. CASE saves[s].pc = "committed" /\ Accept(e, s, saves[s].after)
    BY <1>0, <1>1, <2>2, AcceptDocs DEF Kept, SaveKept
  <2>3. CASE Settles(e)
    BY <2>3, SettlesDocs
  <2>4. CASE Freezes(e, s, saves[s].witness)
    BY <1>0, <1>1, <2>4, FreezesDocs, FreezesSaves
  <2> QED
    BY <1>2, <2>2, <2>3, <2>4 DEF Reply
<1>3. CASE Lose(e, s)
  BY <1>0, <1>1, <1>3, FreezesDocs, FreezesSaves DEF Lose
<1>4. CASE VerifyWritten(e, s)
  <2>1. Entry # 0
    BY <1>4 DEF VerifyWritten, Landed, Observed, Seen
  <2> QED
    BY <1>1, <1>4, <2>1, AcceptDocs DEF VerifyWritten
<1>5. CASE VerifyUnchanged(e, s)
  BY <1>5, SettlesDocs DEF VerifyUnchanged
<1>6. CASE VerifyFails(e, s)
  <2>1. saves'[s].told = "doubted"
    BY <1>6, TellsSaves DEF VerifyFails, Untold
  <2>2. CASE Settles(e)
    BY <2>2, SettlesDocs
  <2>3. CASE UNCHANGED doc
    BY <2>1, <2>3 DEF SaveTyped, DocsTyped, Untold
  <2> QED
    BY <1>6, <2>2, <2>3 DEF VerifyFails
<1> QED
  BY <1>2, <1>3, <1>4, <1>5, <1>6 DEF Told

(* Another program's write gives what it touches a new change time.        *)
LEMMA WritesDisk ==
  ASSUME SaveTyped, Writes
  PROVE  /\ UNCHANGED <<kind, floor, lock, saves, doc, texts>>
         /\ foreign' = foreign + 1 /\ now' = now + 1
         /\ Len(objects') >= Len(objects) /\ Len(line') >= Len(line)
         /\ \A o \in 1..Len(objects') :
              \/ o \in 1..Len(objects) /\ objects'[o] = objects[o]
              \/ objects'[o].text = 0 - (foreign + 1) /\ objects'[o].changed = now + 1
<1>1. /\ UNCHANGED <<kind, floor, lock, saves, doc, texts>>
      /\ foreign' = foreign + 1 /\ now' = now + 1
  BY DEF Writes, WriteInPlace, Replace, Remove, Foreign
<1>2. CASE WriteInPlace
  <2>1. objects' = [objects EXCEPT ![Entry] = NewFile] /\ line' = line
    BY <1>2 DEF WriteInPlace
  <2>2. NewFile.text = 0 - (foreign + 1) /\ NewFile.changed = now + 1
    BY <1>1 DEF NewFile
  <2>3. Entry \in 1..Len(objects)
    BY <1>2, SeenTyped DEF WriteInPlace, SaveTyped
  <2>4. /\ Len(objects') = Len(objects) /\ objects'[Entry] = NewFile
        /\ \A o \in 1..Len(objects) : o # Entry => objects'[o] = objects[o]
    BY <2>1, <2>3 DEF SaveTyped, DiskTyped
  <2> QED
    BY <1>1, <2>1, <2>2, <2>3, <2>4, FieldsTyped DEF SaveTyped, DiskTyped
<1>3. CASE Replace
  <2>1. objects' = Append(objects, NewFile) /\ line' = Append(line, Len(objects) + 1)
    BY <1>3 DEF Replace
  <2>2. NewFile.text = 0 - (foreign + 1) /\ NewFile.changed = now + 1
    BY <1>1 DEF NewFile
  <2>3. NewFile \in Files
    BY <1>1 DEF NewFile, Files, SaveTyped, ClockTyped
  <2> QED
    BY <1>1, <2>1, <2>2, <2>3 DEF SaveTyped, DiskTyped
<1>4. CASE Remove
  BY <1>1, <1>4 DEF Remove, SaveTyped, DiskTyped
<1> QED
  BY <1>2, <1>3, <1>4 DEF Writes

(* A publication adds the saved text and gives it the name.                *)
LEMMA PublishDisk ==
  ASSUME SaveTyped, NEW s \in DOMAIN saves, Publish(s)
  PROVE  /\ Len(objects') = Len(objects) + 1 /\ Len(line') = Len(line) + 1
         /\ \A o \in 1..Len(objects) : objects'[o] = objects[o]
         /\ objects'[Len(objects) + 1].text = saves[s].text
         /\ objects'[Len(objects) + 1].changed = now + 1
         /\ UNCHANGED <<kind, floor, lock, doc, texts, foreign>> /\ now' = now + 1
<1> DEFINE f == [text |-> saves[s].text, mtime |-> StampOf(s), changed |-> now + 1]
<1>1. saves[s].text \in Int /\ saves[s].seen.mtime \in Int
  BY FieldsTyped DEF Views
<1>2. f \in Files /\ f.text = saves[s].text /\ f.changed = now + 1
  BY <1>1 DEF StampOf, Files, SaveTyped, ClockTyped
<1>3. objects' = Append(objects, f) /\ line' = Append(line, Len(objects) + 1)
  BY DEF Publish
<1> HIDE DEF f
<1>4. /\ Len(objects') = Len(objects) + 1 /\ Len(line') = Len(line) + 1
      /\ \A o \in 1..Len(objects) : objects'[o] = objects[o]
      /\ objects'[Len(objects) + 1] = f
  BY <1>2, <1>3 DEF SaveTyped, DiskTyped
<1> QED
  BY <1>2, <1>4 DEF Publish

(* Every action keeps the lock with the save that has checked the file.    *)
LEMMA LockingStep == SaveTyped /\ Locking /\ Descends /\ [Next]_vars => Locking'
<1> SUFFICES ASSUME SaveTyped /\ Locking /\ Descends /\ [Next]_vars PROVE Locking'
  OBVIOUS
<1>1. ASSUME NEW e \in Editors, Edit(e) PROVE Locking'
  BY <1>1 DEF Edit, disk, Locking
<1>2. ASSUME NEW e \in Editors, Reload(e) PROVE Locking'
  BY <1>2 DEF Reload, disk, clock, Locking
<1>3. ASSUME NEW e \in Editors, Enable(e) PROVE Locking'
  BY <1>3 DEF Enable, disk, clock, Locking
<1>4. CASE Writes
  BY <1>4, WritesDisk, FieldsTyped DEF Locking, SaveTyped, DiskTyped
<1>5. ASSUME NEW e \in Editors, NEW force \in BOOLEAN, Prepare(e, force) PROVE Locking'
  <2>1. UNCHANGED <<lock, objects, line>>
    BY <1>5 DEF Prepare, disk
  <2>2. lock # Len(saves) + 1
    BY DEF SaveTyped, SavesTyped
  <2>3. Len(objects) \in Nat /\ Len(line) \in Nat
    BY DEF SaveTyped, DiskTyped
  <2> QED
    BY <1>5, <2>1, <2>2, <2>3, PrepareSaves DEF Locking, Locked
<1>6. ASSUME NEW s \in DOMAIN saves, Check(s) PROVE Locking'
  <2>1. saves[s].pc = "prepared" /\ lock = 0 /\ lock' = s /\ UNCHANGED <<objects, line>>
    BY <1>6 DEF Check, Serving, Free, disk
  <2>2. \A r \in DOMAIN saves : r # 0
    BY DEF SaveTyped, SavesTyped
  <2> QED
    BY <1>6, <2>1, <2>2, CheckSaves DEF Locking, Locked, Only
<1>7. ASSUME NEW s \in DOMAIN saves, Stage(s) PROVE Locking'
  <2>1. saves[s].pc = "checked" /\ UNCHANGED <<lock, objects, line>>
    BY <1>7 DEF Stage, Serving, disk
  <2> QED
    BY <1>7, <2>1, StageSaves DEF Locking, Locked, Only
<1>8. ASSUME NEW s \in DOMAIN saves, Publish(s) PROVE Locking'
  <2>1. saves[s].pc = "staged"
    BY <1>8 DEF Publish, Serving
  <2>2. Len(objects) \in Nat /\ Len(line) \in Nat
    BY DEF SaveTyped, DiskTyped
  <2> QED
    BY <1>8, <2>1, <2>2, PublishSaves, PublishDisk, FieldsTyped DEF Locking, Locked, Only
<1>9. ASSUME NEW s \in DOMAIN saves, Ended(s) PROVE Locking'
  <2>1. /\ Only(s) /\ saves[s].pc \in Running /\ saves'[s].pc \in Outcomes
        /\ saves'[s].pc = "refused" => saves[s].pc # "published"
        /\ saves'[s].place = saves[s].place /\ saves'[s].told = saves[s].told
        /\ saves'[s].file = 0
        /\ lock' = IF lock = s THEN 0 ELSE lock
        /\ UNCHANGED <<objects, line>>
    BY <1>9, EndedSaves
  <2>2. Len(objects) \in Nat /\ \A r \in DOMAIN saves : r # 0
    BY DEF SaveTyped, DiskTyped, SavesTyped
  <2> QED
    BY <2>1, <2>2 DEF Locking, Locked, Running, Outcomes, Only
<1>10. ASSUME NEW e \in Editors, NEW s \in DOMAIN saves, Told(e, s) PROVE Locking'
  BY <1>10, ToldSaves DEF Locking, Locked, Only, Untold
<1>11. CASE UNCHANGED vars
  BY <1>11 DEF vars, Locking, disk, clock
<1>12. QED
  BY <1>1, <1>2, <1>3, <1>4, <1>5, <1>6, <1>7, <1>8, <1>9, <1>10, <1>11 DEF Next, Users, Answer,
     Verify, Serve, Writes, Ended, Told

(* Every action keeps what a save has seen as true as its counter says.    *)
LEMMA SeeingStep == SaveTyped /\ Locking /\ Seeing /\ Stored /\ Descends /\ [Next]_vars =>
   Seeing'
<1> SUFFICES ASSUME SaveTyped /\ Locking /\ Seeing /\ Stored /\ Descends /\ [Next]_vars PROVE
   Seeing'
  OBVIOUS
<1>1. ASSUME NEW e \in Editors, Edit(e) PROVE Seeing'
  BY <1>1 DEF Edit, disk, Seeing, Seen, Entry
<1>2. ASSUME NEW e \in Editors, Reload(e) PROVE Seeing'
  BY <1>2 DEF Reload, disk, clock, Seeing, Seen, Entry
<1>3. ASSUME NEW e \in Editors, Enable(e) PROVE Seeing'
  BY <1>3 DEF Enable, disk, clock, Seeing, Seen, Entry
<1>4. CASE Writes
  <2>0. /\ UNCHANGED saves /\ foreign' = foreign + 1 /\ now' = now + 1
        /\ Len(objects') >= Len(objects)
        /\ \A o \in 1..Len(objects') :
             \/ o \in 1..Len(objects) /\ objects'[o] = objects[o]
             \/ objects'[o].text = 0 - (foreign + 1) /\ objects'[o].changed = now + 1
    BY <1>4, WritesDisk
  <2> SUFFICES ASSUME NEW s \in DOMAIN saves, saves[s].pc \in {"checked", "staged"}
               PROVE  LET o == saves[s].seen.object IN
                        /\ o \in 0..Len(objects') /\ saves[s].calm <= foreign'
                        /\ (saves[s].seen = Nothing) <=> (o = 0)
                        /\ saves[s].seen.changed <= now'
                        /\ o # 0 /\ objects'[o].changed = saves[s].seen.changed =>
                             saves[s].seen = Seen(o)'
                        /\ foreign' # saves[s].calm
    BY <2>0 DEF Seeing
  <2> DEFINE o == saves[s].seen.object
  <2>1. /\ o \in 0..Len(objects) /\ saves[s].calm <= foreign
        /\ (saves[s].seen = Nothing) <=> (o = 0)
        /\ saves[s].seen.changed <= now
        /\ o # 0 /\ objects[o].changed = saves[s].seen.changed => saves[s].seen = Seen(o)
    BY DEF Seeing
  <2>2. /\ foreign \in Nat /\ now \in Nat /\ saves[s].calm \in Nat
        /\ saves[s].seen.changed \in Int /\ Len(objects) \in Nat /\ Len(objects') \in Nat
    BY <1>4, FieldsTyped, DiskStep DEF SaveTyped, ClockTyped, DiskTyped, Views, Next
  <2>3. ASSUME o # 0, objects'[o].changed = saves[s].seen.changed
        PROVE  saves[s].seen = Seen(o)'
    <3>1. objects'[o] = objects[o]
      BY <2>0, <2>1, <2>2, <2>3
    <3>2. Seen(o)' = Seen(o)
      BY <2>0, <3>1 DEF Seen
    <3> QED
      BY <2>1, <2>3, <3>1, <3>2
  <2> QED
    BY <2>0, <2>1, <2>2, <2>3
<1>5. ASSUME NEW e \in Editors, NEW force \in BOOLEAN, Prepare(e, force) PROVE Seeing'
  <2>1. UNCHANGED <<objects, line, now, foreign>>
    BY <1>5 DEF Prepare, disk, clock
  <2> QED
    BY <1>5, <2>1, PrepareSaves DEF Seeing, Seen, Entry
<1>6. ASSUME NEW s \in DOMAIN saves, Check(s) PROVE Seeing'
  <2>1. lock = 0 /\ UNCHANGED <<objects, line, now, foreign>>
    BY <1>6 DEF Check, Serving, Free, disk, clock
  <2>2. \A r \in DOMAIN saves : saves[r].pc \notin {"checked", "staged"}
    <3>1. \A r \in DOMAIN saves : r # 0
      BY DEF SaveTyped, SavesTyped
    <3> QED
      BY <2>1, <3>1 DEF Locking, Locked
  <2>3. Entry \in 0..Len(objects) /\ Observed.object = Entry /\ Observed = Seen(Entry)
    BY SeenTyped DEF SaveTyped, Observed
  <2>4. (Observed = Nothing) <=> (Entry = 0)
    BY <2>3, SeenTyped DEF SaveTyped, Seen
  <2>5. Observed.changed <= now
    <3>1. CASE Entry = 0
      BY <2>3, <3>1 DEF Seen, Nothing, SaveTyped, ClockTyped
    <3>2. CASE Entry # 0
      <4>1. objects[Entry].changed <= now
        BY <2>3, <3>2 DEF Stored, SaveTyped, DiskTyped
      <4> QED
        BY <2>3, <3>2, <4>1 DEF Seen
    <3> QED
      BY <3>1, <3>2
  <2>6. foreign <= foreign
    BY DEF SaveTyped, ClockTyped
  <2>7. Entry' = Entry /\ Seen(Entry)' = Seen(Entry) /\ Observed' = Observed
    BY <2>1 DEF Entry, Seen, Observed
  <2>8. /\ Only(s) /\ saves'[s].seen = Observed /\ saves'[s].calm = foreign
    BY <1>6, CheckSaves
  <2> QED
    BY <2>1, <2>2, <2>3, <2>4, <2>5, <2>6, <2>7, <2>8 DEF Seeing, Only
<1>7. ASSUME NEW s \in DOMAIN saves, Stage(s) PROVE Seeing'
  <2>1. saves[s].pc = "checked" /\ Still(s) /\ UNCHANGED <<objects, line, now, foreign>>
    BY <1>7 DEF Stage, Serving, disk, clock
  <2>2. Entry' = Entry /\ \A o : Seen(o)' = Seen(o)
    BY <2>1 DEF Entry, Seen
  <2>3. /\ Only(s) /\ saves'[s].seen = saves[s].seen
        /\ saves'[s].calm = IF Rechecks(s) THEN foreign ELSE saves[s].calm
    BY <1>7, StageSaves
  <2>4. Rechecks(s) => /\ Entry = saves[s].seen.object /\ saves[s].seen # Nothing
                       /\ objects[Entry].changed = saves[s].seen.changed
    BY <2>1 DEF Still, Rechecks
  <2>5. saves'[s].calm <= foreign
    BY <2>1, <2>3 DEF Seeing, SaveTyped, ClockTyped
  <2>6. Rechecks(s) => saves[s].seen = Seen(Entry)
    BY <2>1, <2>4 DEF Seeing
  <2> QED
    BY <2>1, <2>2, <2>3, <2>4, <2>5, <2>6 DEF Seeing, Only
<1>8. ASSUME NEW s \in DOMAIN saves, Publish(s) PROVE Seeing'
  <2>1. saves[s].pc = "staged"
    BY <1>8 DEF Publish, Serving
  <2>2. \A r \in DOMAIN saves : r # s => saves[r].pc \notin {"checked", "staged"}
    BY <2>1 DEF Locking, Locked
  <2> QED
    BY <1>8, <2>2, PublishSaves DEF Seeing, Only
<1>9. ASSUME NEW s \in DOMAIN saves, Ended(s) PROVE Seeing'
  <2>1. /\ Only(s) /\ saves'[s].pc \in Outcomes
        /\ UNCHANGED <<objects, line, now, foreign>>
    BY <1>9, EndedSaves
  <2>2. Entry' = Entry /\ \A o : Seen(o)' = Seen(o)
    BY <2>1 DEF Entry, Seen
  <2> QED
    BY <2>1, <2>2 DEF Seeing, Only, Outcomes
<1>10. ASSUME NEW e \in Editors, NEW s \in DOMAIN saves, Told(e, s) PROVE Seeing'
  <2>1. /\ Only(s) /\ saves'[s].pc = saves[s].pc
        /\ saves'[s].seen = saves[s].seen /\ saves'[s].calm = saves[s].calm
        /\ UNCHANGED <<objects, line, now, foreign>>
    BY <1>10, ToldSaves
  <2>2. Entry' = Entry /\ \A o : Seen(o)' = Seen(o)
    BY <2>1 DEF Entry, Seen
  <2> QED
    BY <2>1, <2>2 DEF Seeing, Only
<1>11. CASE UNCHANGED vars
  BY <1>11 DEF vars, Seeing, Seen, Entry, disk, clock
<1>12. QED
  BY <1>1, <1>2, <1>3, <1>4, <1>5, <1>6, <1>7, <1>8, <1>9, <1>10, <1>11 DEF Next, Users, Answer,
     Verify, Serve, Writes, Ended, Told

(* Every action keeps the stored texts accounted for.                      *)
LEMMA StoredStep == SaveTyped /\ Locking /\ Stored /\ Descends /\ [Next]_vars => Stored'
<1> SUFFICES ASSUME SaveTyped /\ Locking /\ Stored /\ Descends /\ [Next]_vars PROVE Stored'
  OBVIOUS
<1>1. ASSUME NEW e \in Editors, Edit(e) PROVE Stored'
  <2>1. texts' = texts + 1 /\ UNCHANGED <<objects, saves, now>>
    BY <1>1 DEF Edit, disk
  <2>2. \A i \in DOMAIN objects : objects[i].text \in Int
    BY FieldsTyped
  <2> QED
    BY <2>1, <2>2 DEF Stored, SaveTyped, ClockTyped
<1>2. ASSUME NEW e \in Editors, Reload(e) PROVE Stored'
  BY <1>2 DEF Reload, disk, clock, Stored
<1>3. ASSUME NEW e \in Editors, Enable(e) PROVE Stored'
  BY <1>3 DEF Enable, disk, clock, Stored
<1>4. CASE Writes
  <2>1. /\ UNCHANGED <<saves, texts>> /\ now' = now + 1
        /\ \A o \in 1..Len(objects') :
             \/ o \in 1..Len(objects) /\ objects'[o] = objects[o]
             \/ objects'[o].text = 0 - (foreign + 1) /\ objects'[o].changed = now + 1
    BY <1>4, WritesDisk
  <2>2. \A i \in 1..Len(objects) : objects[i].changed \in Int
    BY FieldsTyped
  <2>3. DOMAIN objects' = 1..Len(objects') /\ DOMAIN objects = 1..Len(objects)
    BY <1>4, DiskStep DEF SaveTyped, DiskTyped, Next
  <2> QED
    BY <2>1, <2>2, <2>3 DEF Stored, SaveTyped, ClockTyped
<1>5. ASSUME NEW e \in Editors, NEW force \in BOOLEAN, Prepare(e, force) PROVE Stored'
  <2>1. UNCHANGED <<objects, texts, now>>
    BY <1>5 DEF Prepare, disk, clock
  <2> QED
    BY <1>5, <2>1, PrepareSaves DEF Stored
<1>6. ASSUME NEW s \in DOMAIN saves, Check(s) PROVE Stored'
  <2>1. UNCHANGED <<objects, texts, now>>
    BY <1>6 DEF Check, disk, clock
  <2>2. Only(s) /\ saves'[s].text = saves[s].text /\ saves'[s].place = saves[s].place
    BY <1>6, CheckSaves
  <2> QED
    BY <2>1, <2>2 DEF Stored, Only
<1>7. ASSUME NEW s \in DOMAIN saves, Stage(s) PROVE Stored'
  <2>1. UNCHANGED <<objects, texts, now>>
    BY <1>7 DEF Stage, disk, clock
  <2>2. Only(s) /\ saves'[s].text = saves[s].text /\ saves'[s].place = saves[s].place
    BY <1>7, StageSaves
  <2> QED
    BY <2>1, <2>2 DEF Stored, Only
<1>8. ASSUME NEW s \in DOMAIN saves, Publish(s) PROVE Stored'
  <2>1. /\ Only(s) /\ saves'[s].text = saves[s].text /\ saves'[s].place = Len(line) + 1
    BY <1>8, PublishSaves
  <2>2. Len(line) + 1 # 0 /\ now \in Nat /\ \A i \in 1..Len(objects) : objects[i].changed \in
     Int
    BY FieldsTyped DEF SaveTyped, DiskTyped, ClockTyped
  <2>3. DOMAIN objects' = 1..Len(objects') /\ DOMAIN objects = 1..Len(objects)
        /\ Len(objects) \in Nat
    BY <1>8, DiskStep DEF SaveTyped, DiskTyped, Next, Serve
  <2>4. saves[s].text # 0 /\ saves[s].text <= texts
    BY DEF Descends, DocDescends, SaveDescends
  <2>5. /\ Len(objects') = Len(objects) + 1 /\ texts' = texts /\ now' = now + 1
        /\ \A i \in 1..Len(objects) : objects'[i] = objects[i]
        /\ objects'[Len(objects) + 1].text = saves[s].text
        /\ objects'[Len(objects) + 1].changed = now + 1
    BY <1>8, PublishDisk
  <2> SUFFICES ASSUME NEW i \in DOMAIN objects'
               PROVE  /\ objects'[i].text # 0 /\ objects'[i].text <= texts'
                      /\ objects'[i].changed <= now'
                      /\ objects'[i].text >= 2 => \E r \in DOMAIN saves' :
                           saves'[r].text = objects'[i].text /\ saves'[r].place # 0
    BY DEF Stored
  <2>6. CASE i \in 1..Len(objects)
    <3>1. /\ objects[i].text # 0 /\ objects[i].text <= texts /\ objects[i].changed <= now
          /\ objects[i].text >= 2 => \E r \in DOMAIN saves :
               saves[r].text = objects[i].text /\ saves[r].place # 0
      BY <2>3, <2>6 DEF Stored
    <3>2. \A r \in DOMAIN saves : saves[r].place # 0 =>
            saves'[r].text = saves[r].text /\ saves'[r].place # 0
      BY <2>1, <2>2 DEF Only
    <3>3. DOMAIN saves' = DOMAIN saves /\ objects'[i] = objects[i]
          /\ objects[i].changed <= now + 1
      BY <2>1, <2>2, <2>5, <2>6, <3>1 DEF Only
    <3> QED
      BY <2>5, <3>1, <3>2, <3>3
  <2>7. CASE i = Len(objects) + 1
    <3>1. s \in DOMAIN saves' /\ saves'[s].text = objects'[i].text /\ saves'[s].place # 0
      BY <2>1, <2>2, <2>5, <2>7 DEF Only
    <3> QED
      BY <2>2, <2>4, <2>5, <2>7, <3>1
  <2> QED
    BY <2>3, <2>5, <2>6, <2>7
<1>9. ASSUME NEW s \in DOMAIN saves, Ended(s) PROVE Stored'
  <2>1. UNCHANGED <<objects, texts, now>>
    BY <1>9, EndedSaves DEF Ended, disk, clock
  <2>2. Only(s) /\ saves'[s].text = saves[s].text /\ saves'[s].place = saves[s].place
    BY <1>9, EndedSaves
  <2> QED
    BY <2>1, <2>2 DEF Stored, Only
<1>10. ASSUME NEW e \in Editors, NEW s \in DOMAIN saves, Told(e, s) PROVE Stored'
  <2>1. UNCHANGED <<objects, texts, now>>
    BY <1>10, ToldSaves DEF Told, disk, clock
  <2>2. Only(s) /\ saves'[s].text = saves[s].text /\ saves'[s].place = saves[s].place
    BY <1>10, ToldSaves
  <2> QED
    BY <2>1, <2>2 DEF Stored, Only
<1>11. CASE UNCHANGED vars
  BY <1>11 DEF vars, Stored, disk, clock
<1>12. QED
  BY <1>1, <1>2, <1>3, <1>4, <1>5, <1>6, <1>7, <1>8, <1>9, <1>10, <1>11 DEF Next, Users, Answer,
     Verify, Serve, Writes, Ended, Told

(* A step about the saves alone, which keeps what documents ask of them.   *)
LEMMA Carried ==
  ASSUME SaveTyped, Descends, UNCHANGED <<doc, kind, texts>>,
         \A r \in DOMAIN saves :
           /\ saves'[r].by = saves[r].by /\ saves'[r].told = saves[r].told
           /\ saves'[r].text = saves[r].text /\ saves'[r].base = saves[r].base
  PROVE  \A e \in Editors : DocDescends(e)'
<1> SUFFICES ASSUME NEW e \in Editors PROVE DocDescends(e)'
  OBVIOUS
<1>1. doc[e].call # 0 => doc[e].call \in DOMAIN saves
  BY FieldsTyped DEF SaveTyped, SavesTyped
<1>2. DocDescends(e)
  BY DEF Descends, DocDescends, SaveDescends
<1> QED
  BY <1>1, <1>2 DEF DocDescends, Typed

(* What a view has of a text.                                              *)
LEMMA ObservedText ==
  ASSUME SaveTyped, Stored, Entry # 0
  PROVE  Observed.text # 0 /\ Observed.text <= texts
<1>1. Entry \in DOMAIN objects
  BY SeenTyped DEF SaveTyped, DiskTyped
<1>2. Observed.text = objects[Entry].text
  BY DEF Observed, Seen
<1> QED
  BY <1>1, <1>2 DEF Stored

(* What an attempt holds outlives a step that keeps its fields.            *)
LEMMA Held ==
  ASSUME SaveTyped, Descends, UNCHANGED kind, texts <= texts',
         texts' \in Nat, NEW r \in DOMAIN saves,
         saves'[r].by = saves[r].by, saves'[r].text = saves[r].text,
         saves'[r].base = saves[r].base, saves'[r].policy = saves[r].policy,
         saves'[r].pc \in Locked /\ saves[r].policy.shown # 0 =>
           \/ saves[r].pc \in Locked /\ saves'[r].seen = saves[r].seen
           \/ saves'[r].seen.text = saves[r].policy.shown
  PROVE  SaveDescends(r)'
<1>1. SaveDescends(r)
  BY DEF Descends, DocDescends, SaveDescends
<1>2. saves[r].text \in Int /\ texts \in Nat
  BY FieldsTyped DEF SaveTyped, ClockTyped
<1> QED
  BY <1>1, <1>2 DEF SaveDescends, Typed

(* Every action keeps what the attempts descend from.                      *)
LEMMA SaveDescendsStep == SaveTyped /\ Locking /\ Stored /\ Descends /\ Kept /\ [Next]_vars =>
   \A r \in DOMAIN saves' : SaveDescends(r)'
<1> SUFFICES ASSUME SaveTyped /\ Locking /\ Stored /\ Descends /\ Kept /\ [Next]_vars PROVE \A r
   \in DOMAIN saves' : SaveDescends(r)'
  OBVIOUS
<1>1. ASSUME NEW e \in Editors, Edit(e) PROVE \A r \in DOMAIN saves' : SaveDescends(r)'
  <2>0. texts \in Nat
    BY DEF SaveTyped, ClockTyped
  <2>1. UNCHANGED <<kind, saves>> /\ texts <= texts' /\ texts' \in Nat
    BY <1>1, <2>0 DEF Edit, clock
  <2> QED
    BY <2>1, Held
<1>2. ASSUME NEW e \in Editors, Reload(e) PROVE \A r \in DOMAIN saves' : SaveDescends(r)'
  <2>0. texts \in Nat
    BY DEF SaveTyped, ClockTyped
  <2>1. UNCHANGED <<kind, saves>> /\ texts <= texts' /\ texts' \in Nat
    BY <1>2, <2>0 DEF Reload, clock
  <2> QED
    BY <2>1, Held
<1>3. ASSUME NEW e \in Editors, Enable(e) PROVE \A r \in DOMAIN saves' : SaveDescends(r)'
  <2>0. texts \in Nat
    BY DEF SaveTyped, ClockTyped
  <2>1. UNCHANGED <<kind, saves>> /\ texts <= texts' /\ texts' \in Nat
    BY <1>3, <2>0 DEF Enable, clock
  <2> QED
    BY <2>1, Held
<1>4. CASE Writes
  <2>0. texts \in Nat
    BY DEF SaveTyped, ClockTyped
  <2>1. UNCHANGED <<kind, saves, texts>>
    BY <1>4, WritesDisk
  <2> QED
    BY <2>0, <2>1, Held
<1>5. ASSUME NEW e \in Editors, NEW force \in BOOLEAN, Prepare(e, force)
      PROVE  \A r \in DOMAIN saves' : SaveDescends(r)'
  <2>0. texts \in Nat
    BY DEF SaveTyped, ClockTyped
  <2>1. UNCHANGED <<kind, texts>> /\ doc[e].text # 0
    BY <1>5 DEF Prepare, clock
  <2>2. /\ DOMAIN saves' = DOMAIN saves \union {Len(saves) + 1}
        /\ \A r \in DOMAIN saves : saves'[r] = saves[r]
    BY <1>5, PrepareSaves
  <2>3. \A r \in DOMAIN saves : SaveDescends(r)'
    BY <2>0, <2>1, <2>2, Held
  <2>4. ASSUME NEW n, n = Len(saves) + 1 PROVE SaveDescends(n)'
    <3> DEFINE a == saves'[n]
    <3>1. a.by = e /\ a.text = doc[e].text /\ a.base = doc[e].base
          /\ a.policy = Policy(e, force) /\ a.pc = "prepared"
      BY <1>5, <2>4, PrepareSaves
    <3>2. DocDescends(e)
      BY DEF Descends, DocDescends, SaveDescends
    <3>3. kind[e] = "permit" => a.policy.shown = doc[e].base
      BY <3>1 DEF Policy
    <3> QED
      BY <2>1, <3>1, <3>2, <3>3 DEF SaveDescends, DocDescends, Typed, Locked
  <2> QED
    BY <2>2, <2>3, <2>4
<1>6. ASSUME NEW s \in DOMAIN saves, Check(s) PROVE \A r \in DOMAIN saves' : SaveDescends(r)'
  <2>0. texts \in Nat
    BY DEF SaveTyped, ClockTyped
  <2>1. UNCHANGED <<kind, texts>> /\ Admits(saves[s].policy, Observed)
    BY <1>6 DEF Check, clock
  <2>2. saves[s].policy.shown # 0 => Observed.text = saves[s].policy.shown
    BY <2>1 DEF Admits
  <2> QED
    BY <1>6, <2>0, <2>1, <2>2, CheckSaves, Held DEF Only
<1>7. ASSUME NEW s \in DOMAIN saves, Stage(s) PROVE \A r \in DOMAIN saves' : SaveDescends(r)'
  <2>0. texts \in Nat
    BY DEF SaveTyped, ClockTyped
  <2>1. UNCHANGED <<kind, texts>> /\ saves[s].pc = "checked"
    BY <1>7 DEF Stage, Serving, clock
  <2> QED
    BY <1>7, <2>0, <2>1, StageSaves, Held DEF Only, Locked, Outcomes
<1>8. ASSUME NEW s \in DOMAIN saves, Publish(s) PROVE \A r \in DOMAIN saves' : SaveDescends(r)'
  <2>0. texts \in Nat
    BY DEF SaveTyped, ClockTyped
  <2>1. UNCHANGED <<kind, texts>> /\ saves[s].pc = "staged"
    BY <1>8, PublishDisk DEF Publish, Serving
  <2> QED
    BY <1>8, <2>0, <2>1, PublishSaves, Held DEF Only, Locked, Outcomes
<1>9. ASSUME NEW s \in DOMAIN saves, Ended(s) PROVE \A r \in DOMAIN saves' : SaveDescends(r)'
  <2>0. texts \in Nat
    BY DEF SaveTyped, ClockTyped
  <2>1. UNCHANGED <<kind, texts>>
    BY <1>9, EndedSaves
  <2> QED
    BY <1>9, <2>0, <2>1, EndedSaves, Held DEF Only, Locked, Outcomes
<1>10. ASSUME NEW e \in Editors, NEW s \in DOMAIN saves, Told(e, s)
       PROVE  \A r \in DOMAIN saves' : SaveDescends(r)'
  <2>0. texts \in Nat
    BY DEF SaveTyped, ClockTyped
  <2>1. UNCHANGED <<kind, texts>>
    BY <1>10, ToldSaves
  <2> QED
    BY <1>10, <2>0, <2>1, ToldSaves, Held DEF Only, Locked, Outcomes
<1>11. CASE UNCHANGED vars
  BY <1>11, Held DEF vars, clock, SaveTyped, ClockTyped
<1>12. QED
  BY <1>1, <1>2, <1>3, <1>4, <1>5, <1>6, <1>7, <1>8, <1>9, <1>10, <1>11 DEF Next, Users, Answer,
     Verify, Serve, Writes, Ended, Told

(* Every action keeps what the documents descend from.                     *)
LEMMA DocDescendsStep == SaveTyped /\ Locking /\ Stored /\ Descends /\ Kept /\ [Next]_vars => \A
   d \in Editors : DocDescends(d)'
<1> SUFFICES ASSUME SaveTyped /\ Locking /\ Stored /\ Descends /\ Kept /\ [Next]_vars PROVE \A d
   \in Editors : DocDescends(d)'
  OBVIOUS
<1>1. ASSUME NEW e \in Editors, Edit(e) PROVE \A d \in Editors : DocDescends(d)'
  <2>9. \A d \in Editors : doc[d].call # 0 => doc[d].call \in DOMAIN saves
    BY FieldsTyped DEF SaveTyped, SavesTyped
  <2>8. \A d \in Editors : DocDescends(d) /\ doc[d].text \in Int /\ doc[d].base \in Int
    BY FieldsTyped DEF Descends, DocDescends, SaveDescends
  <2>1. /\ UNCHANGED <<kind, saves>> /\ texts' = texts + 1
        /\ kind[e] = "permit" => doc[e].object # 0
    BY <1>1 DEF Edit
  <2>2. texts \in Nat \ {0}
    BY DEF SaveTyped, ClockTyped
  <2>3. \A d \in Editors : d # e => doc'[d] = doc[d]
    BY <1>1, EditDocs
  <2>4. /\ doc'[e].text = texts + 1 /\ doc'[e].base = doc[e].base
        /\ doc'[e].object = doc[e].object /\ doc'[e].call = doc[e].call
    BY <1>1, EditDocs
  <2>5. DocDescends(e)'
    BY <2>1, <2>2, <2>4, <2>8 DEF DocDescends, Typed
  <2>6. \A d \in Editors : d # e => DocDescends(d)'
    BY <2>1, <2>2, <2>3, <2>8 DEF DocDescends, Typed
  <2> QED
    BY <2>5, <2>6
<1>2. ASSUME NEW e \in Editors, Reload(e) PROVE \A d \in Editors : DocDescends(d)'
  <2>9. \A d \in Editors : doc[d].call # 0 => doc[d].call \in DOMAIN saves
    BY FieldsTyped DEF SaveTyped, SavesTyped
  <2>8. \A d \in Editors : DocDescends(d) /\ doc[d].text \in Int /\ doc[d].base \in Int
    BY FieldsTyped DEF Descends, DocDescends, SaveDescends
  <2>1. UNCHANGED <<kind, saves, texts>> /\ Entry # 0 /\ kind[e] = "local" /\ Clean(e)
    BY <1>2 DEF Reload, clock
  <2>2. Observed.text # 0 /\ Observed.text <= texts
    BY <2>1, ObservedText
  <2>3. \A d \in Editors : d # e => doc'[d] = doc[d]
    BY <1>2, ReadDocs
  <2>4. /\ doc'[e].text = Observed.text /\ doc'[e].base = Observed.text
        /\ doc'[e].object = Entry /\ doc'[e].call = doc[e].call
    BY <1>2, ReadDocs
  <2>5. DocDescends(e)'
    BY <2>1, <2>2, <2>4, <2>8 DEF DocDescends, Typed, Clean
  <2>6. \A d \in Editors : d # e => DocDescends(d)'
    BY <2>1, <2>3, <2>8 DEF DocDescends, Typed
  <2> QED
    BY <2>5, <2>6
<1>3. ASSUME NEW e \in Editors, Enable(e) PROVE \A d \in Editors : DocDescends(d)'
  <2>9. \A d \in Editors : doc[d].call # 0 => doc[d].call \in DOMAIN saves
    BY FieldsTyped DEF SaveTyped, SavesTyped
  <2>8. \A d \in Editors : DocDescends(d) /\ doc[d].text \in Int /\ doc[d].base \in Int
    BY FieldsTyped DEF Descends, DocDescends, SaveDescends
  <2>1. UNCHANGED <<kind, saves, texts>> /\ Entry # 0 /\ doc[e].call = 0
    BY <1>3 DEF Enable, clock
  <2>2. Observed.text # 0 /\ Observed.text <= texts
    BY <2>1, ObservedText
  <2>3. \A d \in Editors : d # e => doc'[d] = doc[d]
    BY <1>3, ReadDocs
  <2>4. /\ doc'[e].text = Observed.text /\ doc'[e].base = Observed.text
        /\ doc'[e].object = Entry /\ doc'[e].call = doc[e].call
    BY <1>3, ReadDocs
  <2>5. DocDescends(e)'
    BY <2>1, <2>2, <2>4, <2>8 DEF DocDescends, Typed, Clean
  <2>6. \A d \in Editors : d # e => DocDescends(d)'
    BY <2>1, <2>3, <2>8 DEF DocDescends, Typed
  <2> QED
    BY <2>5, <2>6
<1>4. CASE Writes
  BY <1>4, WritesDisk, Carried
<1>5. ASSUME NEW e \in Editors, NEW force \in BOOLEAN, Prepare(e, force)
      PROVE  \A d \in Editors : DocDescends(d)'
  <2>9. \A d \in Editors : doc[d].call # 0 => doc[d].call \in DOMAIN saves
    BY FieldsTyped DEF SaveTyped, SavesTyped
  <2>8. \A d \in Editors : DocDescends(d) /\ doc[d].text \in Int /\ doc[d].base \in Int
    BY FieldsTyped DEF Descends, DocDescends, SaveDescends
  <2>1. UNCHANGED <<kind, texts>> /\ doc[e].text # 0 /\ doc[e].call = 0
    BY <1>5 DEF Prepare, clock
  <2>2. \A r \in DOMAIN saves : saves'[r] = saves[r]
    BY <1>5, PrepareSaves
  <2>3. \A d \in Editors : d # e => doc'[d] = doc[d]
    BY <1>5, PrepareDocs
  <2>4. /\ doc'[e].text = doc[e].text /\ doc'[e].base = doc[e].base
        /\ doc'[e].object = doc[e].object /\ doc'[e].call = Len(saves) + 1
    BY <1>5, PrepareDocs
  <2>5. DocDescends(e)'
    <3> DEFINE a == saves'[Len(saves) + 1]
    <3>1. a.by = e /\ a.text = doc[e].text /\ a.base = doc[e].base /\ a.told = "nothing"
      BY <1>5, PrepareSaves
    <3> HIDE DEF a
    <3>2. saves'[doc'[e].call] = a
      BY <2>4 DEF a
    <3> QED
      BY <2>1, <2>4, <2>8, <3>1, <3>2 DEF DocDescends, Typed, Untold
  <2>6. \A d \in Editors : d # e => DocDescends(d)'
    BY <2>1, <2>2, <2>3, <2>8, <2>9 DEF DocDescends, Typed
  <2> QED
    BY <2>5, <2>6
<1>6. ASSUME NEW s \in DOMAIN saves, Check(s) PROVE \A d \in Editors : DocDescends(d)'
  <2>1. UNCHANGED <<doc, kind, texts>>
    BY <1>6 DEF Check, clock
  <2> QED
    BY <1>6, <2>1, CheckSaves, Carried DEF Only
<1>7. ASSUME NEW s \in DOMAIN saves, Stage(s) PROVE \A d \in Editors : DocDescends(d)'
  <2>1. UNCHANGED <<doc, kind, texts>>
    BY <1>7 DEF Stage, clock
  <2> QED
    BY <1>7, <2>1, StageSaves, Carried DEF Only
<1>8. ASSUME NEW s \in DOMAIN saves, Publish(s) PROVE \A d \in Editors : DocDescends(d)'
  <2>1. UNCHANGED <<doc, kind, texts>>
    BY <1>8, PublishDisk
  <2> QED
    BY <1>8, <2>1, PublishSaves, Carried DEF Only
<1>9. ASSUME NEW s \in DOMAIN saves, Ended(s) PROVE \A d \in Editors : DocDescends(d)'
  <2>1. UNCHANGED <<doc, kind, texts>>
    BY <1>9, EndedSaves
  <2> QED
    BY <1>9, <2>1, EndedSaves, Carried DEF Only
<1>10. ASSUME NEW e \in Editors, NEW s \in DOMAIN saves, Told(e, s)
       PROVE  \A d \in Editors : DocDescends(d)'
  <2>9. \A d \in Editors : doc[d].call # 0 => doc[d].call \in DOMAIN saves
    BY FieldsTyped DEF SaveTyped, SavesTyped
  <2>8. \A d \in Editors : DocDescends(d) /\ doc[d].text \in Int /\ doc[d].base \in Int
    BY FieldsTyped DEF Descends, DocDescends, SaveDescends
  <2>1. /\ UNCHANGED <<kind, texts>> /\ doc[e].call = s /\ Only(s) /\ s # 0
        /\ saves'[s].by = saves[s].by /\ saves'[s].text = saves[s].text
        /\ saves'[s].base = saves[s].base /\ saves[s].told \in Untold
    BY <1>10, ToldSaves DEF SaveTyped, SavesTyped
  <2>2. /\ \A d \in Editors : d # e => doc'[d] = doc[d]
        /\ doc'[e].text = doc[e].text
    BY <1>10, ToldDocs
  <2>3. /\ saves[s].by = e /\ SaveDescends(s)
        /\ saves[s].text # saves[s].base => doc[e].text # doc[e].base
        /\ kind[e] = "permit" => doc[e].object # 0
    BY <2>1, <2>8 DEF Descends, DocDescends, SaveDescends
  <2>4. \A d \in Editors : d # e => DocDescends(d)'
    <3> SUFFICES ASSUME NEW d \in Editors, d # e PROVE DocDescends(d)'
      OBVIOUS
    <3>1. doc'[d] = doc[d] /\ DocDescends(d)
      BY <2>2, <2>8
    <3>2. ASSUME doc[d].call # 0 PROVE saves'[doc[d].call] = saves[doc[d].call]
      <4>1. doc[d].call # s
        BY <2>3, <3>1, <3>2 DEF DocDescends
      <4> QED
        BY <2>1, <2>9, <3>2, <4>1 DEF Only
    <3> QED
      BY <2>1, <3>1, <3>2 DEF DocDescends, Typed
  <2>5. DocDescends(e)'
    <3>1. CASE /\ doc'[e].call \in {0, doc[e].call} /\ doc'[e].base = doc[e].base
               /\ doc'[e].object = doc[e].object
               /\ doc'[e].call # 0 => saves'[s].told \in Untold
      BY <2>1, <2>2, <2>3, <2>8, <3>1 DEF DocDescends, Typed
    <3>2. CASE /\ doc'[e].call = 0 /\ doc'[e].object # 0
               /\ doc'[e].base = IF Clean(e) /\ doc[e].base # saves[s].base THEN doc[e].base
                                 ELSE saves[s].text
      <4>1. doc'[e].base <= texts /\ (doc[e].base # 0 => doc'[e].base # 0)
        BY <2>3, <2>8, <3>2 DEF DocDescends, SaveDescends
      <4>2. doc[e].text # doc'[e].base => Typed(doc[e].text)
        BY <2>3, <2>8, <3>2 DEF DocDescends, Clean
      <4> QED
        BY <2>1, <2>2, <2>3, <2>8, <3>2, <4>1, <4>2 DEF DocDescends, Typed
    <3>3. \/ /\ doc'[e].call \in {0, doc[e].call}
             /\ doc'[e].base = doc[e].base /\ doc'[e].object = doc[e].object
             /\ doc'[e].call # 0 => saves'[s].told \in Untold
          \/ doc'[e].call = 0 /\ doc'[e].object # 0
             /\ doc'[e].base = IF Clean(e) /\ doc[e].base # saves[s].base THEN doc[e].base
                               ELSE saves[s].text
      BY <1>10, ToldDocs
    <3> QED
      BY <3>1, <3>2, <3>3
  <2> QED
    BY <2>4, <2>5
<1>11. CASE UNCHANGED vars
  BY <1>11, Carried DEF vars, clock
<1>12. QED
  BY <1>1, <1>2, <1>3, <1>4, <1>5, <1>6, <1>7, <1>8, <1>9, <1>10, <1>11 DEF Next, Users, Answer,
     Verify, Serve, Writes, Ended, Told

(* Places in the name's history are kept, and power loss spares more and   *)
(* more of it.                                                             *)
LEMMA Durables ==
  ASSUME SaveTyped, floor' \in Nat, floor <= floor',
         \A r \in DOMAIN saves :
           /\ r \in DOMAIN saves'
           /\ saves[r].place # 0 => saves'[r].place = saves[r].place /\ saves'[r].text =
                 saves[r].text,
         NEW s \in DOMAIN saves, saves'[s].text = saves[s].text
  PROVE  Durable(saves[s].text) => Durable(saves[s].text)'
<1> SUFFICES ASSUME Durable(saves[s].text) PROVE Durable(saves[s].text)'
  OBVIOUS
<1>1. PICK r \in DOMAIN saves : saves[r].text = saves[s].text /\ saves[r].place \in 1..floor
  BY DEF Durable
<1>2. floor \in Nat
  BY DEF SaveTyped, DiskTyped
<1>3. /\ r \in DOMAIN saves' /\ saves'[r].text = saves'[s].text
      /\ saves'[r].place \in 1..floor'
  BY <1>1, <1>2
<1> QED
  BY <1>3 DEF Durable

(* A step that leaves a save alone keeps what is known of it.              *)
LEMMA Keeps ==
  ASSUME SaveTyped, Kept, floor' \in Nat, floor <= floor',
         Len(line') \in Nat, Len(line) <= Len(line'),
         \A r \in DOMAIN saves :
           /\ r \in DOMAIN saves'
           /\ saves[r].place # 0 => saves'[r].place = saves[r].place /\ saves'[r].text =
                 saves[r].text,
         NEW s \in DOMAIN saves,
         saves'[s].text = saves[s].text, saves'[s].base = saves[s].base,
         saves'[s].place = saves[s].place,
         saves'[s].pc = saves[s].pc \/ saves'[s].pc \notin {"published", "committed"},
         \/ saves'[s].told = saves[s].told /\ saves'[s].after = saves[s].after
         \/ saves'[s].told \notin Untold \union {"written", "failed"}
  PROVE  SaveKept(s)'
<1>1. Durable(saves[s].text) => Durable(saves[s].text)'
  BY Durables
<1>2. saves[s].text \in Int /\ saves[s].place \in Nat
  BY FieldsTyped
<1>3. SaveKept(s) /\ floor \in Nat /\ Len(line) \in Nat
  BY DEF Kept, SaveKept, SaveTyped, DiskTyped
<1> QED
  BY <1>1, <1>2, <1>3 DEF SaveKept

(* Every action keeps what was reported true.                              *)
LEMMA KeptStep == SaveTyped /\ Locking /\ Stored /\ Descends /\ Kept /\ [Next]_vars => \A r \in
   DOMAIN saves' : SaveKept(r)'
<1> SUFFICES ASSUME SaveTyped /\ Locking /\ Stored /\ Descends /\ Kept /\ [Next]_vars PROVE \A r
   \in DOMAIN saves' : SaveKept(r)'
  OBVIOUS
<1>1. ASSUME NEW e \in Editors, Edit(e) PROVE \A r \in DOMAIN saves' : SaveKept(r)'
  <2>0. floor \in Nat /\ Len(line) \in Nat /\ floor <= Len(line)
    BY DEF SaveTyped, DiskTyped
  <2>1. UNCHANGED <<saves, line, floor>>
    BY <1>1 DEF Edit, disk
  <2> QED
    BY <2>0, <2>1, Keeps
<1>2. ASSUME NEW e \in Editors, Reload(e) PROVE \A r \in DOMAIN saves' : SaveKept(r)'
  <2>0. floor \in Nat /\ Len(line) \in Nat /\ floor <= Len(line)
    BY DEF SaveTyped, DiskTyped
  <2>1. UNCHANGED <<saves, line, floor>>
    BY <1>2 DEF Reload, disk
  <2> QED
    BY <2>0, <2>1, Keeps
<1>3. ASSUME NEW e \in Editors, Enable(e) PROVE \A r \in DOMAIN saves' : SaveKept(r)'
  <2>0. floor \in Nat /\ Len(line) \in Nat /\ floor <= Len(line)
    BY DEF SaveTyped, DiskTyped
  <2>1. UNCHANGED <<saves, line, floor>>
    BY <1>3 DEF Enable, disk
  <2> QED
    BY <2>0, <2>1, Keeps
<1>4. CASE Writes
  <2>0. floor \in Nat /\ Len(line) \in Nat /\ floor <= Len(line)
    BY DEF SaveTyped, DiskTyped
  <2>1. UNCHANGED <<saves, floor>> /\ Len(line') >= Len(line) /\ Len(line') \in Nat
    BY <1>4, WritesDisk, DiskStep DEF SaveTyped, DiskTyped, Next
  <2> QED
    BY <2>0, <2>1, Keeps
<1>5. ASSUME NEW e \in Editors, NEW force \in BOOLEAN, Prepare(e, force)
      PROVE  \A r \in DOMAIN saves' : SaveKept(r)'
  <2>0. floor \in Nat /\ Len(line) \in Nat /\ floor <= Len(line)
    BY DEF SaveTyped, DiskTyped
  <2>1. UNCHANGED <<line, floor>>
    BY <1>5 DEF Prepare, disk
  <2>2. /\ DOMAIN saves' = DOMAIN saves \union {Len(saves) + 1}
        /\ \A r \in DOMAIN saves : saves'[r] = saves[r]
        /\ saves'[Len(saves) + 1].pc = "prepared" /\ saves'[Len(saves) + 1].told = "nothing"
    BY <1>5, PrepareSaves
  <2>3. \A r \in DOMAIN saves : SaveKept(r)'
    BY <2>0, <2>1, <2>2, Keeps
  <2>4. ASSUME NEW n, n = Len(saves) + 1 PROVE SaveKept(n)'
    BY <2>2, <2>4 DEF SaveKept
  <2> QED
    BY <2>2, <2>3, <2>4
<1>6. ASSUME NEW s \in DOMAIN saves, Check(s) PROVE \A r \in DOMAIN saves' : SaveKept(r)'
  <2>0. floor \in Nat /\ Len(line) \in Nat /\ floor <= Len(line)
    BY DEF SaveTyped, DiskTyped
  <2>1. UNCHANGED <<line, floor>>
    BY <1>6 DEF Check, disk
  <2>2. /\ Only(s) /\ saves'[s].pc \in {"checked", "staged"}
        /\ saves'[s].text = saves[s].text /\ saves'[s].base = saves[s].base
        /\ saves'[s].place = saves[s].place /\ saves'[s].told = saves[s].told
        /\ saves'[s].after = saves[s].after
    BY <1>6, CheckSaves
  <2>3. ASSUME NEW r \in DOMAIN saves PROVE SaveKept(r)'
    BY <2>0, <2>1, <2>2, Keeps DEF Only
  <2> QED
    BY <2>2, <2>3 DEF Only
<1>7. ASSUME NEW s \in DOMAIN saves, Stage(s) PROVE \A r \in DOMAIN saves' : SaveKept(r)'
  <2>0. floor \in Nat /\ Len(line) \in Nat /\ floor <= Len(line)
    BY DEF SaveTyped, DiskTyped
  <2>1. UNCHANGED <<line, floor>>
    BY <1>7 DEF Stage, disk
  <2>2. /\ Only(s) /\ saves'[s].pc \in {"checked", "staged"}
        /\ saves'[s].text = saves[s].text /\ saves'[s].base = saves[s].base
        /\ saves'[s].place = saves[s].place /\ saves'[s].told = saves[s].told
        /\ saves'[s].after = saves[s].after
    BY <1>7, StageSaves
  <2>3. ASSUME NEW r \in DOMAIN saves PROVE SaveKept(r)'
    BY <2>0, <2>1, <2>2, Keeps DEF Only
  <2> QED
    BY <2>2, <2>3 DEF Only
<1>8. ASSUME NEW s \in DOMAIN saves, Publish(s) PROVE \A r \in DOMAIN saves' : SaveKept(r)'
  <2>0. floor \in Nat /\ Len(line) \in Nat /\ floor <= Len(line)
    BY DEF SaveTyped, DiskTyped
  <2>1. /\ saves[s].pc = "staged" /\ saves[s].place = 0 /\ saves[s].told # "failed"
        /\ \A r \in DOMAIN saves : saves[r].text \in Int
    BY <1>8, FieldsTyped DEF Publish, Serving, Locking
  <2>2. /\ Only(s) /\ saves'[s].pc = "published" /\ saves'[s].place = Len(line) + 1
        /\ saves'[s].text = saves[s].text /\ saves'[s].base = saves[s].base
        /\ saves'[s].told = saves[s].told
    BY <1>8, PublishSaves
  <2>3. UNCHANGED floor /\ Len(line') = Len(line) + 1
    BY <1>8, PublishDisk
  <2>4. \A r \in DOMAIN saves : /\ r \in DOMAIN saves'
                                /\ saves[r].place # 0 => /\ saves'[r].place = saves[r].place
                                                         /\ saves'[r].text = saves[r].text
    BY <2>1, <2>2 DEF Only
  <2>5. ASSUME NEW r \in DOMAIN saves, r # s PROVE SaveKept(r)'
    <3>1. saves'[r] = saves[r]
      BY <2>2, <2>5 DEF Only
    <3> QED
      BY <2>0, <2>3, <2>4, <3>1, Keeps
  <2>6. Durable(saves[s].text) => Durable(saves[s].text)'
    BY <2>0, <2>1, <2>2, <2>3, <2>4, Durables
  <2>7. SaveKept(s)'
    <3>1. SaveKept(s)
      BY DEF Kept, SaveKept
    <3> QED
      BY <2>0, <2>1, <2>2, <2>3, <2>6, <3>1 DEF SaveKept
  <2> QED
    BY <2>2, <2>5, <2>7 DEF Only
<1>9. ASSUME NEW s \in DOMAIN saves, Ended(s) PROVE \A r \in DOMAIN saves' : SaveKept(r)'
  <2>0. floor \in Nat /\ Len(line) \in Nat /\ floor <= Len(line)
    BY DEF SaveTyped, DiskTyped
  <2>1. /\ Only(s) /\ saves[s].pc \in Running /\ saves'[s].pc \in Outcomes
        /\ saves'[s].pc = "committed" => /\ saves[s].pc = "published" /\ Entry = saves[s].file
                                         /\ saves'[s].after = Observed /\ floor' = Len(line)
        /\ saves'[s].text = saves[s].text /\ saves'[s].base = saves[s].base
        /\ saves'[s].place = saves[s].place /\ saves'[s].told = saves[s].told
        /\ UNCHANGED line /\ floor' \in {floor, Len(line)}
    BY <1>9, EndedSaves
  <2>2. \A r \in DOMAIN saves : /\ r \in DOMAIN saves'
                                /\ saves[r].place # 0 => /\ saves'[r].place = saves[r].place
                                                         /\ saves'[r].text = saves[r].text
    BY <2>1 DEF Only
  <2>3. ASSUME NEW r \in DOMAIN saves, r # s PROVE SaveKept(r)'
    <3>1. saves'[r] = saves[r]
      BY <2>1, <2>3 DEF Only
    <3> QED
      BY <2>0, <2>1, <2>2, <3>1, Keeps
  <2>4. Durable(saves[s].text) => Durable(saves[s].text)'
    BY <2>0, <2>1, <2>2, FieldsTyped, Durables
  <2>5. saves'[s].pc = "committed" => saves'[s].after.object # 0
    BY <2>1, SeenTyped DEF Locking, SaveTyped
  <2>6. SaveKept(s)'
    <3>1. SaveKept(s)
      BY DEF Kept, SaveKept
    <3> QED
      BY <2>0, <2>1, <2>4, <2>5, <3>1 DEF SaveKept, Outcomes
  <2> QED
    BY <2>1, <2>3, <2>6 DEF Only
<1>10. ASSUME NEW e \in Editors, NEW s \in DOMAIN saves, Told(e, s)
       PROVE  \A r \in DOMAIN saves' : SaveKept(r)'
  <2>0. floor \in Nat /\ Len(line) \in Nat /\ floor <= Len(line)
    BY DEF SaveTyped, DiskTyped
  <2>1. /\ Only(s) /\ saves[s].told \in Untold
        /\ \/ saves'[s].told \in Untold /\ saves'[s].after = saves[s].after
           \/ saves'[s].told = "written" /\ \/ saves[s].pc = "committed"
                                            \/ Landed(s, Observed) /\ floor' = Len(line)
           \/ saves'[s].told = "failed" /\ saves[s].pc = "refused"
           \/ saves'[s].told = "unchanged"
        /\ saves'[s].pc = saves[s].pc
        /\ saves'[s].text = saves[s].text /\ saves'[s].base = saves[s].base
        /\ saves'[s].place = saves[s].place
        /\ UNCHANGED line /\ floor' \in {floor, Len(line)}
    BY <1>10, ToldSaves
  <2>2. \A r \in DOMAIN saves : /\ r \in DOMAIN saves'
                                /\ saves[r].place # 0 => /\ saves'[r].place = saves[r].place
                                                         /\ saves'[r].text = saves[r].text
    BY <2>1 DEF Only
  <2>3. ASSUME NEW r \in DOMAIN saves, r # s PROVE SaveKept(r)'
    <3>1. saves'[r] = saves[r]
      BY <2>1, <2>3 DEF Only
    <3> QED
      BY <2>0, <2>1, <2>2, <3>1, Keeps
  <2>4. saves'[s].told = "written" => Durable(saves[s].text)' \/ saves[s].text = saves[s].base
    <3>1. CASE saves[s].pc = "committed"
      <4>1. s \in DOMAIN saves' /\ saves'[s].place \in 1..floor'
        BY <2>0, <2>1, <2>2, <3>1 DEF Kept, SaveKept
      <4> QED
        BY <4>1 DEF Durable
    <3>2. CASE Landed(s, Observed) /\ floor' = Len(line) /\ saves[s].text # saves[s].base
      <4>1. Entry \in DOMAIN objects /\ objects[Entry].text = saves[s].text
        BY <3>2, SeenTyped DEF Landed, Observed, Seen, SaveTyped, DiskTyped
      <4>2. saves[s].text >= 2
        BY <3>2 DEF Descends, DocDescends, SaveDescends, Typed
      <4>3. PICK r \in DOMAIN saves : saves[r].text = saves[s].text /\ saves[r].place # 0
        BY <4>1, <4>2 DEF Stored
      <4>4. saves[r].place \in 1..Len(line)
        BY <2>0, <4>3, FieldsTyped DEF Locking
      <4>5. /\ r \in DOMAIN saves' /\ saves'[r].text = saves'[s].text
            /\ saves'[r].place \in 1..floor'
        BY <2>1, <2>2, <3>2, <4>3, <4>4
      <4> QED
        BY <4>5 DEF Durable
    <3> QED
      BY <2>1, <3>1, <3>2 DEF Untold
  <2>5. SaveKept(s)'
    <3>1. SaveKept(s)
      BY DEF Kept, SaveKept
    <3>2. saves[s].pc = "refused" => saves[s].place = 0
      BY DEF Locking
    <3> QED
      BY <2>0, <2>1, <2>4, <3>1, <3>2 DEF SaveKept, Untold
  <2> QED
    BY <2>1, <2>3, <2>5 DEF Only
<1>11. CASE UNCHANGED vars
  BY <1>11, Keeps DEF vars, disk, SaveTyped, DiskTyped
<1>12. QED
  BY <1>1, <1>2, <1>3, <1>4, <1>5, <1>6, <1>7, <1>8, <1>9, <1>10, <1>11 DEF Next, Users, Answer,
     Verify, Serve, Writes, Ended, Told

(* A save is published by its own Publish.                                 *)
LEMMA PublishedBy == SaveTyped /\ Locking /\ Descends /\ [Next]_vars => \A r \in DOMAIN saves :
   Publishes(r) => Publish(r)
<1> SUFFICES ASSUME SaveTyped /\ Locking /\ Descends /\ [Next]_vars PROVE \A r \in DOMAIN saves
   : Publishes(r) => Publish(r)
  OBVIOUS
<1>1. ASSUME NEW e \in Editors, Edit(e) PROVE \A r \in DOMAIN saves : Publishes(r) => Publish(r)
  BY <1>1 DEF Edit, Publishes, Serving
<1>2. ASSUME NEW e \in Editors, Reload(e)
      PROVE  \A r \in DOMAIN saves : Publishes(r) => Publish(r)
  BY <1>2 DEF Reload, Publishes, Serving
<1>3. ASSUME NEW e \in Editors, Enable(e)
      PROVE  \A r \in DOMAIN saves : Publishes(r) => Publish(r)
  BY <1>3 DEF Enable, Publishes, Serving
<1>4. CASE Writes
  BY <1>4, WritesDisk DEF Publishes, Serving
<1>5. ASSUME NEW e \in Editors, NEW force \in BOOLEAN, Prepare(e, force)
      PROVE  \A r \in DOMAIN saves : Publishes(r) => Publish(r)
  BY <1>5, PrepareSaves DEF Publishes, Serving
<1>6. ASSUME NEW s \in DOMAIN saves, Check(s)
      PROVE  \A r \in DOMAIN saves : Publishes(r) => Publish(r)
  BY <1>6, CheckSaves DEF Only, Publishes, Serving
<1>7. ASSUME NEW s \in DOMAIN saves, Stage(s)
      PROVE  \A r \in DOMAIN saves : Publishes(r) => Publish(r)
  BY <1>7, StageSaves DEF Only, Publishes, Serving
<1>8. ASSUME NEW s \in DOMAIN saves, Publish(s)
      PROVE  \A r \in DOMAIN saves : Publishes(r) => Publish(r)
  BY <1>8, PublishSaves DEF Only, Publishes, Serving
<1>9. ASSUME NEW s \in DOMAIN saves, Ended(s)
      PROVE  \A r \in DOMAIN saves : Publishes(r) => Publish(r)
  BY <1>9, EndedSaves DEF Only, Outcomes, Publishes, Serving
<1>10. ASSUME NEW e \in Editors, NEW s \in DOMAIN saves, Told(e, s)
       PROVE  \A r \in DOMAIN saves : Publishes(r) => Publish(r)
  BY <1>10, ToldSaves DEF Only, Publishes, Serving
<1>11. CASE UNCHANGED vars
  BY <1>11 DEF vars, Publishes, Serving
<1>12. QED
  BY <1>1, <1>2, <1>3, <1>4, <1>5, <1>6, <1>7, <1>8, <1>9, <1>10, <1>11 DEF Next, Users, Answer,
     Verify, Serve, Writes, Ended, Told

(* Every action keeps the invariant.                                       *)
LEMMA SaveNext == SaveInv /\ [Next]_vars => SaveInv'
<1> SUFFICES ASSUME SaveInv, [Next]_vars PROVE SaveInv'
  OBVIOUS
<1>1. SaveTyped /\ Locking /\ Seeing /\ Stored /\ Descends /\ Kept
  BY DEF SaveInv
<1>2. SaveTyped'
  BY <1>1, DiskStep, SavesStep, DocsStep, ClockStep DEF SaveTyped
<1>3. Locking' /\ Seeing' /\ Stored'
  BY <1>1, LockingStep, SeeingStep, StoredStep
<1>4. Descends' /\ Kept'
  <2>1. \A r \in DOMAIN saves' : SaveDescends(r)'
    BY <1>1, SaveDescendsStep
  <2>2. \A d \in Editors : DocDescends(d)'
    BY <1>1, DocDescendsStep
  <2>3. \A r \in DOMAIN saves' : SaveKept(r)'
    BY <1>1, KeptStep
  <2>4. Descends'
    <3> QED
      BY <2>1, <2>2 DEF Descends, DocDescends, SaveDescends
  <2>5. Kept'
    BY <2>3 DEF Kept, SaveKept
  <2> QED
    BY <2>4, <2>5
<1> QED
  BY <1>2, <1>3, <1>4 DEF SaveInv

(* A file that is there or not, editors that have opened it or have a      *)
(* document without a name, and no save.                                   *)
LEMMA SaveInit == Init => SaveInv
<1> SUFFICES ASSUME Init PROVE SaveInv
  OBVIOUS
<1> DEFINE file == [text |-> 1, mtime |-> 1, changed |-> 1]
<1>1. /\ objects = <<file>> /\ line \in {<<0>>, <<1>>} /\ floor = 1 /\ lock = 0
      /\ saves = <<>> /\ now = 1 /\ texts = 1 /\ foreign = 0
  BY DEF Init
<1>2. file \in Files
  BY DEF Files
<1>3. Len(objects) = 1 /\ objects[1] = file /\ objects \in Seq(Files)
  <2> HIDE DEF file
  <2> QED
    BY <1>1, <1>2
<1>4. Len(line) = 1 /\ line[1] \in {0, 1} /\ line \in Seq(Nat)
  BY <1>1
<1>5. DiskTyped
  BY <1>1, <1>3, <1>4 DEF DiskTyped
<1>6. SavesTyped /\ DOMAIN saves = {} /\ ClockTyped
  BY <1>1 DEF SavesTyped, ClockTyped
<1>7. kind \in [Editors -> {"local", "permit"}]
  BY SaveAssumption DEF Init
<1>8. /\ Observed \in Views /\ Nothing \in Views /\ Nothing.object = 0 /\ Nothing.text = 0
      /\ Observed.object = Entry /\ Entry \in 0..1
  BY <1>3, <1>5, SeenTyped DEF Nothing
<1>9. Observed.text = IF Entry = 0 THEN 0 ELSE 1
  BY <1>3, <1>8 DEF Observed, Seen, Nothing
<1>10. ASSUME NEW e \in Editors
       PROVE  /\ doc[e] \in Docs /\ doc[e].call = 0 /\ doc[e].text = doc[e].base
              /\ doc[e].text \in {0, 1}
              /\ (doc[e].object = 0) <=> (doc[e].text = 0)
  <2>1. doc[e] \in {Opened(Observed), Unnamed}
    BY DEF Init
  <2>2. CASE doc[e] = Opened(Observed)
    BY <1>8, <1>9, <2>2, OpenedTyped
  <2>3. CASE doc[e] = Unnamed
    <3>1. /\ Opened(Nothing) \in Docs /\ Opened(Nothing).text = 0 /\ Opened(Nothing).base = 0
          /\ Opened(Nothing).object = 0 /\ Opened(Nothing).call = 0
      BY <1>8, OpenedTyped
    <3> QED
      BY <2>3, <3>1 DEF Unnamed, Docs
  <2> QED
    BY <2>1, <2>2, <2>3
<1>11. DocsTyped
  <2>1. DOMAIN doc = Editors /\ doc = [e \in DOMAIN doc |-> doc[e]]
    BY DEF Init
  <2>2. Len(saves) = 0
    BY <1>1
  <2> QED
    BY <1>7, <1>10, <2>1, <2>2 DEF DocsTyped, Docs
<1>12. Locking /\ Seeing /\ Kept /\ \A s \in DOMAIN saves : SaveDescends(s)
  BY <1>6 DEF Locking, Seeing, Kept, SaveKept
<1>13. Stored
  BY <1>1, <1>3 DEF Stored
<1>14. ASSUME NEW e \in Editors PROVE DocDescends(e)
  <2>1. /\ doc[e].call = 0 /\ doc[e].text = doc[e].base /\ doc[e].text \in {0, 1}
        /\ (doc[e].object = 0) <=> (doc[e].text = 0)
    BY <1>10
  <2>2. doc[e].text <= texts /\ doc[e].base <= texts
    BY <1>1, <2>1
  <2> QED
    BY <2>1, <2>2 DEF DocDescends
<1> QED
  BY <1>5, <1>6, <1>11, <1>12, <1>13, <1>14 DEF SaveInv, SaveTyped, Descends, DocDescends,
     SaveDescends

(* The invariant holds of every behaviour.                                 *)
LEMMA SaveHolds == Spec => []SaveInv
<1>1. Init => SaveInv
  BY SaveInit
<1>2. SaveInv /\ [Next]_vars => SaveInv'
  BY SaveNext
<1> QED
  BY <1>1, <1>2, PTL DEF Spec

(* Two saves never work on the name at once, whatever the number of        *)
(* editors: unless a program that takes no lock has written since, what a  *)
(* save has checked is still what has the name when it publishes.          *)
THEOREM SavesExclude == Spec => []CheckedStays
<1>1. SaveInv => CheckedStays
  BY DEF SaveInv, Seeing, CheckedStays
<1> QED
  BY <1>1, SaveHolds, PTL

(* What a user is told of a save is true and stays true: one reported as   *)
(* written would survive a power loss, and one reported as refused has     *)
(* never had the name, however replies were lost and outcomes verified.    *)
THEOREM ReportsHold == Spec => []ReportsAreTrue
<1>1. SaveInv => ReportsAreTrue
  BY DEF SaveInv, Kept, SaveKept, ReportsAreTrue
<1> QED
  BY <1>1, SaveHolds, PTL

(* A permit replaces the very text its buffer descends from, and a save    *)
(* under a new name replaces nothing.                                      *)
THEOREM OnlyTheSeenIsReplaced == Spec => ReplacesOnlyTheSeen
<1> DEFINE Step == \A s \in DOMAIN saves : Publishes(s) =>
             /\ saves[s].policy.fresh /\ ~saves[s].policy.force => Entry = 0
             /\ kind[saves[s].by] = "permit" /\ foreign = saves[s].calm => Observed.text =
                   saves[s].base
<1>1. SaveInv /\ [Next]_vars => Step
  <2> SUFFICES ASSUME SaveInv, [Next]_vars, NEW s \in DOMAIN saves, Publishes(s)
               PROVE  /\ saves[s].policy.fresh /\ ~saves[s].policy.force => Entry = 0
                      /\ kind[saves[s].by] = "permit" /\ foreign = saves[s].calm =>
                           Observed.text = saves[s].base
    OBVIOUS
  <2>1. Publish(s) /\ saves[s].pc = "staged"
    BY PublishedBy DEF SaveInv, Publishes, Serving
  <2>2. saves[s].policy.fresh /\ ~saves[s].policy.force => Entry = 0
    BY <2>1 DEF Publish, Overwrites
  <2>3. foreign = saves[s].calm => saves[s].seen = Observed
    BY <2>1 DEF SaveInv, Seeing, Observed
  <2>4. kind[saves[s].by] = "permit" => saves[s].seen.text = saves[s].base
    BY <2>1 DEF SaveInv, Descends, DocDescends, SaveDescends, Locked
  <2> QED
    BY <2>2, <2>3, <2>4
<1>2. SaveInv /\ [Next]_vars => [Step]_vars
  BY <1>1
<1> QED
  BY <1>2, SaveHolds, PTL DEF Spec, ReplacesOnlyTheSeen
=============================================================================
