----------------------------- MODULE SaveFile -----------------------------
(***************************************************************************)
(* One file name and everybody who writes it: editors that save through    *)
(* the protected Store of their workers, and programs that know nothing    *)
(* of it.  A local document's evidence is the modification time it loaded; *)
(* a permit (remote and container documents) adds the object's identity    *)
(* and the bytes.  A save is a prepare, an apply that a lock serialises    *)
(* with other saves, and a reply that may be lost; a save whose reply is   *)
(* lost is frozen until an observation of the file settles it.             *)
(***************************************************************************)
EXTENDS Integers, Sequences

CONSTANTS
  Editors,
  Kinds,        \* what editors may be: functions to "local" and "permit"
  MaxTexts,     \* bound: texts ever typed
  MaxSaves,     \* bound: saves prepared
  MaxForeign    \* bound: writes by other programs

ASSUME SaveAssumption ==
  /\ Kinds \subseteq [Editors -> {"local", "permit"}]
  /\ {MaxTexts, MaxSaves, MaxForeign} \subseteq Nat

VARIABLES
  kind,
  objects,   \* the files ever made: text, mtime, ctime
  line,      \* what the name has stood for, in order; 0: nothing
  floor,     \* a power loss leaves the name at one of line[floor..]
  lock,      \* the save that holds the name's lock, or 0
  saves,     \* the saves ever prepared
  doc,       \* per editor: its buffer and its evidence
  now, texts, foreign

disk == <<objects, line, floor>>
clock == <<now, texts, foreign>>
vars == <<kind, disk, lock, saves, doc, clock>>

Nothing == [object |-> 0, text |-> 0, mtime |-> 0, changed |-> 0]
Entry == line[Len(line)]
Seen(o) == IF o = 0 THEN Nothing
           ELSE [object |-> o, text |-> objects[o].text,
                 mtime |-> objects[o].mtime, changed |-> objects[o].changed]
Observed == Seen(Entry)

\* An open document: its text, the text it descends from, and its evidence.
\* A document without a name is saved under a name that must be free.
Opened(o) == [text |-> o.text, base |-> o.text, stamp |-> o.mtime, object |-> o.object,
              named |-> TRUE, call |-> 0, frozen |-> FALSE]
Unnamed == [Opened(Nothing) EXCEPT !.named = FALSE]

Init ==
  /\ kind \in Kinds
  /\ objects = <<[text |-> 1, mtime |-> 1, changed |-> 1]>>
  /\ line \in {<<0>>, <<1>>}
  /\ floor = 1 /\ lock = 0 /\ saves = <<>>
  /\ doc \in [Editors -> {Opened(Observed), Unnamed}]
  /\ \A e \in Editors : kind[e] = "permit" => doc[e].named
  /\ now = 1 /\ texts = 1 /\ foreign = 0

-----------------------------------------------------------------------------
(* Buffers.                                                                *)

Edit(e) ==
  /\ texts < MaxTexts /\ (kind[e] = "permit" => doc[e].object # 0)
  /\ texts' = texts + 1
  /\ doc' = [doc EXCEPT ![e].text = texts + 1]
  /\ UNCHANGED <<kind, disk, lock, saves, now, foreign>>

Clean(e) == doc[e].text = doc[e].base

\* A hint makes a clean local document read its file again, if the time is
\* news; otherwise there is nothing to do.
Reload(e) ==
  /\ kind[e] = "local" /\ doc[e].named /\ Clean(e)
  /\ Entry # 0 /\ Observed.mtime # doc[e].stamp
  /\ doc' = [doc EXCEPT ![e] = [Opened(Observed) EXCEPT !.call = doc[e].call,
                                                        !.frozen = doc[e].frozen]]
  /\ UNCHANGED <<kind, disk, lock, saves, clock>>

\* A remote document is read again and its editing enabled again: the
\* preparation proves that the bytes displayed are the bytes stored.
Enable(e) ==
  /\ kind[e] = "permit" /\ doc[e].call = 0 /\ Entry # 0
  /\ doc' = [doc EXCEPT ![e] = Opened(Observed)]
  /\ UNCHANGED <<kind, disk, lock, saves, clock>>

-----------------------------------------------------------------------------
(* Other programs write the file in place, replace it or remove it, and    *)
(* take no lock.  Each leaves a new modification time.                     *)

Foreign ==
  /\ foreign < MaxForeign
  /\ foreign' = foreign + 1 /\ now' = now + 1
  /\ UNCHANGED <<kind, floor, lock, saves, doc, texts>>

\* Their texts are numbered downwards.
NewFile == [text |-> 0 - foreign', mtime |-> now', changed |-> now']

WriteInPlace ==
  /\ Foreign /\ Entry # 0
  /\ objects' = [objects EXCEPT ![Entry] = NewFile]
  /\ UNCHANGED line

Replace ==
  /\ Foreign
  /\ objects' = Append(objects, NewFile)
  /\ line' = Append(line, Len(objects) + 1)

Remove ==
  /\ Foreign /\ Entry # 0
  /\ line' = Append(line, 0)
  /\ UNCHANGED objects

-----------------------------------------------------------------------------
(* Preparing a save.  The policy freezes the editor's evidence; preparing  *)
(* and storing judge the file by it in the same way.                       *)

PolicyByTime(e, force) == [force |-> force, fresh |-> ~doc[e].named, stamp |-> doc[e].stamp,
                           object |-> 0, shown |-> 0]    \* mutant of Policy
Policy(e, force) ==
  [force  |-> force,
   fresh  |-> ~doc[e].named,
   stamp  |-> doc[e].stamp,
   object |-> IF kind[e] = "permit" THEN doc[e].object ELSE 0,
   shown  |-> IF kind[e] = "permit" THEN doc[e].base ELSE 0]

Admits(policy, o) ==
  /\ policy.object # 0 => o.object = policy.object
  /\ policy.shown # 0 => o.text = policy.shown
  /\ ~policy.force => IF policy.fresh THEN o = Nothing ELSE o.mtime = policy.stamp

\* :w, and :w! for a local document.  A refusal changes nothing.
Prepare(e, force) ==
  /\ doc[e].call = 0 /\ doc[e].text # 0
  /\ Len(saves) < MaxSaves
  /\ kind[e] = "permit" => ~force
  /\ Admits(Policy(e, force), Observed)
  /\ saves' = Append(saves,
       [by |-> e, text |-> doc[e].text, base |-> doc[e].base, policy |-> Policy(e, force),
        before |-> Observed, pc |-> "prepared", seen |-> Nothing, file |-> 0,
        place |-> 0, witness |-> Nothing, after |-> Nothing,
        known |-> Nothing, told |-> "nothing", calm |-> 0])
  /\ doc' = [doc EXCEPT ![e].call = Len(saves) + 1]
  /\ UNCHANGED <<kind, disk, lock, clock>>

-----------------------------------------------------------------------------
(* The worker applies the step.  One that dies on the way leaves what an   *)
(* error there would, and its reply is lost: Refuse or FinishFails, and    *)
(* then Lose.                                                              *)

Running == {"prepared", "checked", "staged", "published"}
Serving(s, pc) == s \in DOMAIN saves /\ saves[s].pc = pc
Unlocks(s) == lock' = IF lock = s THEN 0 ELSE lock
Spent(s, pc) == [saves[s] EXCEPT !.pc = pc, !.seen = Nothing, !.file = 0, !.calm = 0]
Ends(s, outcome, witness, after) ==
  /\ saves' = [saves EXCEPT ![s] = [Spent(s, outcome) EXCEPT !.witness = witness, !.after = after]]
  /\ Unlocks(s)

\* The lock is tried, never waited for.  Then the file is pinned by a
\* descriptor, and must be as it was prepared and as the policy wants it.
FreeNever(s) == TRUE    \* mutant of Free
Free(s) == lock = 0

Unmoved(s, o) == saves[s].before # Nothing =>
  [o EXCEPT !.text = 0] = [saves[s].before EXCEPT !.text = 0]

Check(s) ==
  /\ Serving(s, "prepared") /\ Free(s)
  /\ Unmoved(s, Observed) /\ Admits(saves[s].policy, Observed)
  /\ lock' = s
  /\ saves' = [saves EXCEPT ![s].pc = "checked", ![s].seen = Observed, ![s].calm = foreign]
  /\ UNCHANGED <<kind, disk, doc, clock>>

\* The contents are staged with the metadata of the file they replace, its
\* modification time included, and are synced; then the pinned file is
\* looked at again, unless it is forced or there was none.
StampOf(s) == IF saves[s].seen = Nothing THEN now + 1 ELSE saves[s].seen.mtime

Rechecks(s) == ~saves[s].policy.force /\ saves[s].seen # Nothing
Still(s) == Rechecks(s) =>
  /\ Entry = saves[s].seen.object
  /\ objects[Entry].changed = saves[s].seen.changed

Stage(s) ==
  /\ Serving(s, "checked") /\ Still(s)
  /\ saves' = [saves EXCEPT ![s].pc = "staged", ![s].calm = IF Rechecks(s) THEN foreign ELSE @]
  /\ UNCHANGED <<kind, disk, lock, doc, clock>>

\* Anything that fails before the publication is a refusal: a busy lock, a
\* check, a staging error, a cancellation.
Refuse(s) ==
  /\ s \in DOMAIN saves /\ saves[s].pc \in Running \ {"published"}
  /\ Ends(s, "refused", Nothing, Nothing)
  /\ UNCHANGED <<kind, disk, doc, clock>>

\* A rename replaces whatever has the name; a link takes only a free name.
Overwrites(s) == saves[s].policy.force \/ ~saves[s].policy.fresh

Publish(s) ==
  /\ Serving(s, "staged") /\ (Overwrites(s) \/ Entry = 0)
  /\ objects' = Append(objects, [text |-> saves[s].text, mtime |-> StampOf(s), changed |-> now + 1])
  /\ line' = Append(line, Len(objects) + 1)
  /\ now' = now + 1
  /\ saves' = [saves EXCEPT ![s].pc = "published", ![s].file = Len(objects) + 1,
                            ![s].place = Len(line) + 1]
  /\ UNCHANGED <<kind, floor, lock, doc, texts, foreign>>

\* The system call fails in a way that does not say whether it has acted.
\* The witness is that of the staged file, which has never had the name.
Staged(s) == [object |-> -1, text |-> saves[s].text, mtime |-> StampOf(s), changed |-> -1]

PublishFails(s) ==
  /\ Serving(s, "staged")
  /\ Ends(s, "uncertain", Staged(s), Nothing)
  /\ UNCHANGED <<kind, disk, doc, clock>>

\* After the publication an error is uncertainty, never a refusal.
AfterErrorRefused(s) == "refused"    \* mutant of AfterError
AfterError(s) == "uncertain"

\* The directory is synced, and the name must still stand for the published
\* file; the receipt carries what is observed there now.
Synced == Len(line)

Finish(s) ==
  /\ Serving(s, "published")
  /\ floor' = Synced
  /\ IF Entry = saves[s].file
       THEN Ends(s, "committed", Observed, Observed)
       ELSE Ends(s, AfterError(s), Seen(saves[s].file), Nothing)
  /\ UNCHANGED <<kind, objects, line, doc, clock>>

\* An error on the way, and whatever of the witness could be had.
FinishFails(s) ==
  /\ Serving(s, "published")
  /\ \E witness \in {Nothing, Seen(saves[s].file)} :
       Ends(s, AfterError(s), witness, Nothing)
  /\ UNCHANGED <<kind, disk, doc, clock>>

-----------------------------------------------------------------------------
(* The editor learns the outcome, or loses the connection or gives up.     *)

Calls(e, s) == doc[e].call = s /\ s # 0

\* A confirmed save: only the revision that was saved is retired, but the
\* evidence moves in any case, except that a document that has no name yet
\* and has newer edits stays without one.
Accept(e, s, after) ==
  LET d == doc[e]
      named == d.named \/ d.text = saves[s].text IN
  doc' = [doc EXCEPT ![e] =
    [d EXCEPT !.call = 0, !.frozen = FALSE,
       !.base = IF Clean(e) /\ d.base # saves[s].base THEN d.base ELSE saves[s].text,
       !.named = named,
       !.stamp = IF named THEN after.mtime ELSE d.stamp,
       !.object = after.object]]
Settles(e) == doc' = [doc EXCEPT ![e].call = 0, ![e].frozen = FALSE]
Freezes(e, s, witness) ==
  /\ doc' = [doc EXCEPT ![e].frozen = TRUE]
  /\ saves' = [saves EXCEPT ![s].known = witness]
Tells(s, what) == saves' = [saves EXCEPT ![s].told = what]

Reply(e, s) ==
  /\ Calls(e, s) /\ ~doc[e].frozen
  /\ \/ saves[s].pc = "committed" /\ Accept(e, s, saves[s].after) /\ Tells(s, "written")
     \/ saves[s].pc = "refused" /\ Settles(e) /\ Tells(s, "failed")
     \/ saves[s].pc = "uncertain" /\ Freezes(e, s, saves[s].witness)
  /\ UNCHANGED <<kind, disk, lock, clock>>

\* The reply is lost, or the user cancels, while the worker may go on: the
\* receipt has no witness.
Lose(e, s) ==
  /\ Calls(e, s) /\ ~doc[e].frozen
  /\ Freezes(e, s, Nothing)
  /\ UNCHANGED <<kind, disk, lock, clock>>

-----------------------------------------------------------------------------
(* A frozen save blocks every other save of its document.  Verifying it    *)
(* observes the file, syncs it if it is the one intended, and never writes.*)

\* The intended bytes, under the modification time they were staged with,
\* in the file that was witnessed if one was.
Landed(s, o) ==
  /\ o # Nothing /\ o.text = saves[s].text
  /\ saves[s].before # Nothing => o.mtime = saves[s].before.mtime
  /\ saves[s].known # Nothing => /\ o.object = saves[s].known.object
                                 /\ o.changed = saves[s].known.changed

\* The observation taken now carries no digest; the one that a permit
\* prepared does, and the two are compared field by field.
Digested(s) == saves[s].policy.shown # 0
Untouched(s, o) == o = saves[s].before /\ ~Digested(s)

Verifies(e, s) == Calls(e, s) /\ doc[e].frozen

VerifyWritten(e, s) ==
  /\ Verifies(e, s) /\ Landed(s, Observed) /\ ~Untouched(s, Observed)
  /\ floor' = Synced
  /\ Accept(e, s, Observed) /\ Tells(s, "written")
  /\ UNCHANGED <<kind, objects, line, lock, clock>>

VerifyUnchanged(e, s) ==
  /\ Verifies(e, s) /\ Untouched(s, Observed)
  /\ Settles(e) /\ Tells(s, "unchanged")
  /\ UNCHANGED <<kind, disk, lock, clock>>

\* The file moves under the observation, the worker that answers sees
\* another namespace or another principal, or the observation fails.  The
\* user of a permit reads that the save failed; a conflict drops the
\* attempt, anything else keeps it, as a local document always does.
VerifyFails(e, s) ==
  /\ Verifies(e, s) /\ kind[e] = "permit"
  /\ Settles(e) \/ UNCHANGED doc
  /\ Tells(s, "doubted")
  /\ UNCHANGED <<kind, disk, lock, clock>>

-----------------------------------------------------------------------------
Serve(s) ==
  \/ Check(s) \/ Stage(s) \/ Publish(s) \/ Finish(s)
  \/ Refuse(s) \/ PublishFails(s) \/ FinishFails(s)
Answer(e) == \E s \in DOMAIN saves : Reply(e, s)
Verify(e) == \E s \in DOMAIN saves : VerifyWritten(e, s) \/ VerifyUnchanged(e, s)
Users(e) ==
  \/ Edit(e) \/ Reload(e) \/ Enable(e)
  \/ \E force \in BOOLEAN : Prepare(e, force)
  \/ \E s \in DOMAIN saves : Lose(e, s) \/ VerifyFails(e, s)

Next ==
  \/ \E e \in Editors : Users(e) \/ Answer(e) \/ Verify(e)
  \/ \E s \in DOMAIN saves : Serve(s)
  \/ WriteInPlace \/ Replace \/ Remove

Spec == Init /\ [][Next]_vars

\* Workers run, their answers are read, and a user who is told that a save
\* is unconfirmed verifies it, again and again.
FairSpec ==
  /\ Spec
  /\ \A s \in 1..MaxSaves : WF_vars(Serve(s))
  /\ \A e \in Editors : WF_vars(Answer(e)) /\ WF_vars(Verify(e))

-----------------------------------------------------------------------------
(* A save replaces only what its document has seen.  A permit replaces the *)
(* very text its buffer descends from, unless a program that takes no lock *)
(* has written since the last check; a save under a new name replaces      *)
(* nothing, whatever races with it.                                        *)
Publishes(s) == Serving(s, "staged") /\ saves'[s].pc = "published"
ReplacesOnlyTheSeen == [][\A s \in DOMAIN saves : Publishes(s) =>
  /\ saves[s].policy.fresh /\ ~saves[s].policy.force => Entry = 0
  /\ kind[saves[s].by] = "permit" /\ foreign = saves[s].calm => Observed.text = saves[s].base]_vars

(* What the user is told of a save that is answered or verified is true    *)
(* and stays true: one reported as written is the name's and would survive *)
(* a power loss, and one reported as refused has never had the name, not   *)
(* even for a moment.                                                      *)
Durable(text) == \E r \in DOMAIN saves : saves[r].text = text /\ saves[r].place \in 1..floor
ReportsAreTrue == \A s \in DOMAIN saves :
  /\ saves[s].told = "written" => Durable(saves[s].text) \/ saves[s].text = saves[s].base
  /\ saves[s].told = "failed" => saves[s].place = 0

(* A save that is said to have failed has never had the name, whether its  *)
(* reply or a verification says so.                                        *)
FailuresNeverLanded == \A s \in DOMAIN saves :
  saves[s].told \in {"failed", "doubted"} => saves[s].place = 0

(* Two saves never work on the name at once: what one has checked is not   *)
(* replaced by another before it is published itself.                      *)
CheckedStays == \A s \in DOMAIN saves :
  saves[s].pc \in {"checked", "staged"} /\ foreign = saves[s].calm
    => saves[s].seen.object = Entry

(* A local save whose evidence is only a time loses no other edit: unless  *)
(* it is forced, what it replaces is what its buffer descends from.        *)
LocalsReplaceTheirBase == [][\A s \in DOMAIN saves :
  Publishes(s) /\ ~saves[s].policy.force /\ foreign = saves[s].calm
    => Observed.text = saves[s].base]_vars

(* An unconfirmed save of a file that nobody else writes is settled by     *)
(* verifying it: it has landed, or the original is unchanged.              *)
UnconfirmedSettles == \A e \in Editors : doc[e].frozen ~> ~doc[e].frozen
=============================================================================
