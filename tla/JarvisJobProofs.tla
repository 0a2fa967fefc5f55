--------------------------- MODULE JarvisJobProofs ---------------------------
(* Theorems about JarvisJob, for every value of its constants. *)
EXTENDS JarvisJob, TLAPS

(* A job that goes on has a text to patch, and was not written before. *)
Sound(st) ==
    /\ st.status \in {"proposed", "applied"} => st.original \in Patchable
    /\ st.status = "proposed" => st.writes = 0

StatesSound == /\ saved # None => Sound(saved)
               /\ job # None => Sound(job.st)

(* Each place of a call has its status; at the end of a call the status    *)
(* says what the file is.                                                  *)
PlacesSound ==
    job # None =>
        /\ job.pc = "save" => job.st.status = "applied"
        /\ job.pc \in {"continue", "cancel"} => job.st.status \in {"proposed", "applied"}
        /\ job.pc = "close" => job.st.status # "applied"
        /\ job.pc = "close" /\ job.st.status = "verified" =>
               file = Patched(job.st.original) /\ job.st.passed
        /\ job.pc = "close" /\ job.st.status = "rolled_back" => file = job.st.original

(* A call works on an open job, and on the text that the saved state has. *)
OfSavedJob ==
    job # None /\ saved # None =>
        saved.status \in {"proposed", "applied"} /\ saved.original = job.st.original

Inv == TypeOK /\ StatesSound /\ PlacesSound /\ OfSavedJob

(* Until "applied" is on disk, only writing the patch changes the file.    *)
Unapplied == saved = None \/ saved.status = "proposed"
PatchedTexts == {Patched(t) : t \in Patchable}

AppliedSaved ==
    job # None =>
        /\ \/ job.pc \in {"verify", "restore"}
           \/ job.pc \in {"continue", "cancel"} /\ job.st.status = "applied"
           => saved # None /\ saved.status = "applied"
        /\ job.st.status = "proposed" => Unapplied
        /\ job.pc = "close" /\ job.st.status = "proposed" => saved = None

WritesClimb == Unapplied => patches = 0 \/ (file \in PatchedTexts /\ patches <= file)

(* A request that is proposed first is on disk before it is written. *)
ProposedFirst ==
    Stops = {"proposed"} =>
        /\ saved = None => base = None /\ patches = 0 /\ (job # None => job.pc = "close")
        /\ base # None => saved # None /\ saved.original = base
        /\ saved # None /\ saved.status = "proposed" /\ patches # 0 =>
               file = Patched(saved.original)

Writes == AppliedSaved /\ WritesClimb /\ ProposedFirst

-----------------------------------------------------------------------------
LEMMA Bounds == MaxEdits \in Nat /\ MaxFaults \in Nat
  BY ConstantAssumption

LEMMA RequestTyped ==
  ASSUME request \in Requests
  PROVE  Patchable \subseteq 0..1 /\ Stops \subseteq {"proposed", "applied", "verified"}
         /\ Patchable \subseteq Text /\ Text \subseteq {Missing, Other} \cup 0..2
         /\ \A t \in Patchable : Patched(t) \in Text /\ Patched(t) # t
  BY RequestsAssumption DEF Request, Patchable, Stops, Text, Patched

LEMMA StateThere ==
  ASSUME request \in Requests, NEW st \in State
  PROVE  st # None
  BY RequestTyped, NoneAssumption DEF State

(* The states that the calls make. *)
LEMMA StatusChanged ==
  ASSUME NEW st \in State, NEW status \in Status
  PROVE  /\ [st EXCEPT !.status = status] \in State
         /\ [st EXCEPT !.status = status].status = status
         /\ [st EXCEPT !.status = status].original = st.original
         /\ [st EXCEPT !.status = status].passed = st.passed
         /\ [st EXCEPT !.status = status].writes = st.writes
  BY DEF State

LEMMA StateMade ==
  ASSUME TypeOK, NEW status \in Status
  PROVE  /\ NewState(status) \in State /\ NewState(status).status = status
         /\ NewState(status).original = file /\ NewState(status).writes = 0
         /\ [NewState(status) EXCEPT !.original = Missing] \in State
<1>1. file \in Text /\ Missing \in Text
  BY DEF TypeOK, Text
<1>2. NewState(status) \in State
  BY <1>1 DEF State, NewState
<1>3. [NewState(status) EXCEPT !.original = Missing] \in State
  BY <1>1, <1>2 DEF State
<1>4. /\ NewState(status).status = status /\ NewState(status).original = file
      /\ NewState(status).writes = 0
  BY DEF NewState, State
<1>. QED BY <1>2, <1>3, <1>4

LEMMA RequestKept ==
  ASSUME UNCHANGED request
  PROVE  /\ Patchable' = Patchable /\ Stops' = Stops /\ Text' = Text /\ State' = State
  BY DEF Patchable, Stops, Text, State

(* The call that runs. *)
LEMMA JobTyped ==
  ASSUME TypeOK, job # None
  PROVE  /\ job.pc \in Pc /\ job.stop \in Stops \cup {"verified"} /\ job.st \in State
         /\ job.pc \in {"verify", "restore"} => job.st.status = "applied"
         /\ saved \in State \cup {None}
         /\ job.st # None
  BY StateThere DEF TypeOK

(* The place and the state of a call, after it moved. *)
LEMMA Moved ==
  ASSUME NEW pc, NEW st, NEW stop, At(pc, st, stop)
  PROVE  job'.pc = pc /\ job'.st = st /\ job'.stop = stop
  BY DEF At

(* A call that closes leaves its receipt to be written. *)
LEMMA Closed ==
  ASSUME Inv, job # None, NEW status \in Status \ {"applied", "proposed"}, Close(status),
         UNCHANGED <<request, saved>>, file' \in Text, base' \in Text \cup {None},
         patches' \in 0..2, edits' \in 0..MaxEdits, faults' \in 0..MaxFaults,
         status # "verified", status = "rolled_back" => file' = job.st.original
  PROVE  Inv'
<1>1. /\ job'.pc = "close" /\ job'.st = [job.st EXCEPT !.status = status]
      /\ job'.stop = job.stop
  BY DEF Close, Goto, At
<1>2. job.st \in State /\ job.stop \in Stops \cup {"verified"}
  BY JobTyped DEF Inv
<1>3. /\ job'.st \in State /\ job'.st.status = status /\ job'.st.original = job.st.original
  BY <1>1, <1>2, StatusChanged
<1>4. TypeOK'
  BY <1>1, <1>2, <1>3, RequestKept DEF Inv, TypeOK, Pc
<1>. QED BY <1>1, <1>3, <1>4, RequestKept
         DEF Inv, StatesSound, PlacesSound, OfSavedJob, Sound

(* A call that is over leaves its state, or the one before it. *)
LEMMA Gone ==
  ASSUME Inv, UNCHANGED request, job' = None, saved' = saved \/ (job # None /\ saved' = job.st),
         file' \in Text, base' \in Text \cup {None}, patches' \in 0..2,
         edits' \in 0..MaxEdits, faults' \in 0..MaxFaults
  PROVE  Inv'
<1>1. saved' \in State \cup {None}
  BY JobTyped DEF Inv, TypeOK
<1>2. TypeOK'
  BY <1>1, RequestKept DEF Inv, TypeOK
<1>3. StatesSound'
  <2>1. saved' # None => Sound(saved')
    BY DEF Inv, StatesSound
  <2>2. saved' # None => Sound(saved)'
    BY <2>1, RequestKept DEF Sound
  <2>. QED BY <2>2 DEF StatesSound
<1>. QED BY <1>2, <1>3 DEF Inv, PlacesSound, OfSavedJob

(* A call that goes on has a state of its kind at its next place. *)
LEMMA GoesOn ==
  ASSUME Inv, UNCHANGED request,
         job'.pc \in Pc, job'.stop \in Stops \cup {"verified"}, job'.st \in State,
         job'.pc \in {"verify", "restore"} => job'.st.status = "applied",
         saved' \in State \cup {None}, saved' # None => Sound(saved'), Sound(job'.st),
         PlacesSound', OfSavedJob',
         file' \in Text, base' \in Text \cup {None}, patches' \in 0..2,
         edits' \in 0..MaxEdits, faults' \in 0..MaxFaults
  PROVE  Inv'
<1>1. TypeOK'
  BY RequestKept DEF Inv, TypeOK
<1>2. StatesSound'
  <2>1. saved' # None => Sound(saved)'
    BY RequestKept DEF Sound
  <2>2. Sound(job.st)'
    BY RequestKept DEF Sound
  <2>. QED BY <2>1, <2>2 DEF StatesSound
<1>. QED BY <1>1, <1>2 DEF Inv

(* A new job: its receipt is written at once, unless it goes on. *)
LEMMA Started ==
  ASSUME Inv, saved = None, UNCHANGED <<file, saved, base, patches, edits, request>>,
         faults' \in 0..MaxFaults, NEW stop \in Stops, NEW st \in State,
         \/ At("close", st, stop) /\ st.status \in {"denied", "failed"}
         \/ At(FirstStep(stop), st, stop) /\ st.status = "proposed"
            /\ st.original \in Patchable /\ st.writes = 0
  PROVE  Inv'
<1>1. /\ job'.pc \in {"close", "continue"} /\ job'.st = st /\ job'.stop = stop
      /\ st.status \in {"denied", "failed"} => job'.pc = "close"
      /\ st.status \in {"denied", "failed", "proposed"}
      /\ st.status = "proposed" => st.original \in Patchable /\ st.writes = 0
  BY DEF At, FirstStep
<1>2. PlacesSound' /\ OfSavedJob'
  BY <1>1 DEF PlacesSound, OfSavedJob
<1>3. /\ file' \in Text /\ base' \in Text \cup {None} /\ patches' \in 0..2
      /\ edits' \in 0..MaxEdits /\ saved' \in State \cup {None}
  BY DEF Inv, TypeOK
<1>. QED BY <1>1, <1>2, <1>3, GoesOn DEF Sound, Pc

LEMMA InvStep == Inv /\ Writes /\ [Next]_vars => Inv'
<1>. SUFFICES ASSUME Inv, Writes, [Next]_vars PROVE Inv'
  OBVIOUS
<1>0. request \in Requests /\ saved \in State \cup {None} /\ file \in Text
      /\ base \in Text \cup {None} /\ patches \in 0..2
  BY DEF Inv, TypeOK
<1>1. CASE UNCHANGED vars
  BY <1>1, RequestKept DEF vars, Inv, TypeOK, StatesSound, PlacesSound, OfSavedJob, Sound
<1>2. ASSUME NEW stop \in Stops, RunUnread(stop) PROVE Inv'
  <2>1. [NewState("failed") EXCEPT !.original = Missing] \in State
        /\ [NewState("failed") EXCEPT !.original = Missing].status = "failed"
    BY StateMade DEF Inv, Status, NewState
  <2>2. faults' \in 0..MaxFaults
    BY <1>2, Bounds DEF RunUnread, Inv, TypeOK
  <2>. QED BY <1>2, <2>1, <2>2, Started DEF RunUnread
<1>3. ASSUME NEW stop \in Stops, NEW authorized \in BOOLEAN, Run(stop, authorized) PROVE Inv'
  <2>1. /\ NewState("failed") \in State /\ NewState("failed").status = "failed"
        /\ NewState("denied") \in State /\ NewState("denied").status = "denied"
        /\ NewState("proposed") \in State /\ NewState("proposed").status = "proposed"
        /\ NewState("proposed").original = file /\ NewState("proposed").writes = 0
    BY StateMade DEF Inv, Status
  <2>2. faults' \in 0..MaxFaults
    BY <1>3 DEF Run, Inv, TypeOK
  <2>. QED BY <1>3, <2>1, <2>2, Started DEF Run
<1>4. CASE Resume \/ Cancel
  <2>1. /\ job' \in [pc : {"continue", "cancel"}, st : {saved}, stop : {"verified"}]
        /\ UNCHANGED <<file, saved, base, patches, edits, faults, request>>
    BY <1>4 DEF Resume, Cancel, At
  <2>2. saved \in State /\ saved # None /\ saved.status \in {"proposed", "applied"}
    BY <1>0, <1>4 DEF Resume, Cancel, Open, Terminal, State
  <2>3. TypeOK'
    BY <2>1, <2>2, RequestKept DEF Inv, TypeOK, Pc
  <2>. QED BY <2>1, <2>2, <2>3, RequestKept
           DEF Inv, StatesSound, PlacesSound, OfSavedJob, Sound
<1>5. CASE AlreadyPatched
  <2>. DEFINE st == [job.st EXCEPT !.status = "applied"]
  <2>1. job # None /\ job.st \in State /\ job.stop \in Stops \cup {"verified"}
        /\ job.pc = "continue" /\ job.st.status = "proposed"
    BY <1>5, JobTyped DEF AlreadyPatched, Proposed, Inv
  <2>2. st \in State /\ st.status = "applied" /\ st.original = job.st.original
    BY <2>1, StatusChanged DEF Status
  <2>3. job'.pc = "save" /\ job'.st = st /\ job'.stop = job.stop
    BY <1>5 DEF AlreadyPatched, Goto, At
  <2>4. PlacesSound' /\ OfSavedJob' /\ Sound(st)
    BY <1>5, <2>1, <2>2, <2>3 DEF AlreadyPatched, Inv, StatesSound, PlacesSound, OfSavedJob, Sound
  <2>5. (saved' # None => Sound(saved')) /\ edits' \in 0..MaxEdits /\ faults' \in 0..MaxFaults
    BY <1>5 DEF AlreadyPatched, Inv, StatesSound, TypeOK
  <2>. QED BY <1>0, <1>5, <2>1, <2>2, <2>3, <2>4, <2>5, GoesOn DEF AlreadyPatched, Pc
<1>6. CASE WritePatch
  <2>. DEFINE st == [job.st EXCEPT !.status = "applied", !.writes = @ + 1]
  <2>1. job # None /\ job.st \in State /\ job.stop \in Stops \cup {"verified"}
        /\ job.pc = "continue" /\ job.st.status = "proposed"
        /\ job.st.original \in Patchable /\ job.st.writes = 0
    BY <1>6, JobTyped DEF WritePatch, Proposed, Inv, StatesSound, Sound
  <2>2. file' \in Text /\ base' \in Text
    BY <1>0, <1>6, <2>1, RequestTyped DEF WritePatch
  <2>3. UNCHANGED <<saved, request>> /\ edits' \in 0..MaxEdits /\ faults' \in 0..MaxFaults
    BY <1>6, Bounds DEF WritePatch, Inv, TypeOK
  <2>4. patches' \in 0..2
    <3>1. Unapplied /\ file = job.st.original /\ file \in 0..1
      BY <1>0, <1>6, <2>1, RequestTyped DEF Writes, AppliedSaved, WritePatch, Unpatched
    <3>2. patches <= 1
      BY <1>0, <3>1 DEF Writes, WritesClimb
    <3>. QED BY <1>0, <1>6, <3>2 DEF WritePatch
  <2>5. CASE Close("failed")
    BY <2>1, <2>2, <2>3, <2>4, <2>5, Closed DEF Status
  <2>6. CASE Goto("save", st)
    <3>1. st \in State /\ st.status = "applied" /\ st.original = job.st.original
      <4>1. "applied" \in Status /\ job.st.writes + 1 \in 0..1
        BY <2>1 DEF Status
      <4>. QED BY <2>1, <4>1 DEF State
    <3>2. job'.pc = "save" /\ job'.st = st /\ job'.stop = job.stop
      BY <2>6 DEF Goto, At
    <3>3. PlacesSound' /\ OfSavedJob' /\ Sound(st) /\ (saved' # None => Sound(saved'))
      BY <2>1, <2>3, <3>1, <3>2 DEF Inv, StatesSound, PlacesSound, OfSavedJob, Sound
    <3>. QED BY <1>0, <2>1, <2>2, <2>3, <2>4, <3>1, <3>2, <3>3, GoesOn DEF Pc
  <2>. QED BY <1>6, <2>5, <2>6 DEF WritePatch
<1>7. CASE ContinueFails \/ EditedMeanwhile \/ CancelUnapplied
  BY <1>0, <1>7, Closed, Bounds DEF ContinueFails, EditedMeanwhile, Proposed, CancelUnapplied, Inv, TypeOK, Status
<1>8. CASE SaveApplied
  <2>1. job # None /\ job.st \in State /\ job.stop \in Stops \cup {"verified"}
        /\ job.pc = "save" /\ job.st.status = "applied" /\ job.st # None
    BY <1>8, JobTyped DEF SaveApplied, Inv, PlacesSound
  <2>2. UNCHANGED <<file, base, patches, edits, request>> /\ faults' \in 0..MaxFaults
        /\ edits' \in 0..MaxEdits /\ (saved' = job.st \/ saved' = saved)
    BY <1>8, Bounds DEF SaveApplied, Inv, TypeOK
  <2>3. CASE job' = None
    BY <1>0, <2>1, <2>2, <2>3, Gone
  <2>4. CASE Close("failed") /\ saved' = saved
    BY <1>0, <2>1, <2>2, <2>4, Closed DEF Status
  <2>5. CASE saved' = job.st /\ Goto("continue", job.st)
    <3>1. job'.pc = "continue" /\ job'.st = job.st /\ job'.stop = job.stop
      BY <2>5 DEF Goto, At
    <3>2. PlacesSound' /\ OfSavedJob' /\ Sound(job.st)
      BY <2>1, <2>5, <3>1 DEF Inv, StatesSound, PlacesSound, OfSavedJob
    <3>. QED BY <1>0, <2>1, <2>2, <2>5, <3>1, <3>2, GoesOn DEF Pc
  <2>. QED BY <1>8, <2>3, <2>4, <2>5 DEF SaveApplied
<1>9. CASE TakeUpApplied
  <2>1. job # None /\ job.st \in State /\ job.stop \in Stops \cup {"verified"}
        /\ job.pc = "continue" /\ job.st.status = "applied"
    BY <1>9, JobTyped DEF TakeUpApplied, Inv
  <2>2. UNCHANGED <<file, saved, base, patches, edits, faults, request>>
        /\ faults' \in 0..MaxFaults /\ edits' \in 0..MaxEdits
    BY <1>9 DEF TakeUpApplied, Inv, TypeOK
  <2>3. CASE Close("failed")
    BY <1>0, <2>1, <2>2, <2>3, Closed DEF Status
  <2>4. CASE Goto("verify", job.st)
    <3>1. job'.pc = "verify" /\ job'.st = job.st /\ job'.stop = job.stop
      BY <2>4 DEF Goto, At
    <3>2. PlacesSound' /\ OfSavedJob' /\ Sound(job.st) /\ (saved' # None => Sound(saved'))
      BY <2>1, <2>2, <3>1 DEF Inv, StatesSound, PlacesSound, OfSavedJob
    <3>. QED BY <1>0, <2>1, <2>2, <3>1, <3>2, GoesOn DEF Pc
  <2>. QED BY <1>9, <2>3, <2>4 DEF TakeUpApplied
<1>10. ASSUME NEW exit \in 0..1, NEW text \in Text, Verify(exit, text) PROVE Inv'
  <2>1. job # None /\ job.st \in State /\ job.stop \in Stops \cup {"verified"}
        /\ job.pc = "verify" /\ job.st.status = "applied"
    BY <1>10, JobTyped DEF Verify, Inv
  <2>2. /\ UNCHANGED <<saved, patches, edits, request>> /\ file' = text
        /\ faults' \in 0..MaxFaults /\ edits' \in 0..MaxEdits /\ base' \in Text \cup {None}
    BY <1>0, <1>10, ConstantAssumption DEF Verify, Inv, TypeOK
  <2>. DEFINE verified == [job.st EXCEPT !.status = "verified", !.passed = TRUE]
              refused == [job.st EXCEPT !.passed = (exit = 0)]
  <2>3. CASE Passes(exit, text) /\ Goto("close", verified)
    <3>. DEFINE st == verified
    <3>1. st \in State /\ st.status = "verified" /\ st.original = job.st.original /\ st.passed
      <4>1. "verified" \in Status
        BY DEF Status
      <4>. QED BY <2>1, <4>1 DEF State
    <3>2. job'.pc = "close" /\ job'.st = st /\ job'.stop = job.stop
      BY <2>3 DEF Goto, At
    <3>3. PlacesSound' /\ OfSavedJob' /\ Sound(st) /\ (saved' # None => Sound(saved'))
      BY <2>1, <2>2, <2>3, <3>1, <3>2 DEF Inv, StatesSound, PlacesSound, OfSavedJob, Passes, Sound
    <3>. QED BY <1>0, <2>1, <2>2, <3>1, <3>2, <3>3, GoesOn DEF Pc
  <2>4. CASE Goto("restore", refused)
    <3>. DEFINE st == refused
    <3>1. st \in State /\ st.status = "applied" /\ st.original = job.st.original
      BY <2>1 DEF State
    <3>2. job'.pc = "restore" /\ job'.st = st /\ job'.stop = job.stop
      BY <2>4 DEF Goto, At
    <3>3. PlacesSound' /\ OfSavedJob' /\ Sound(st) /\ (saved' # None => Sound(saved'))
      BY <2>1, <2>2, <3>1, <3>2 DEF Inv, StatesSound, PlacesSound, OfSavedJob, Sound
    <3>. QED BY <1>0, <2>1, <2>2, <3>1, <3>2, <3>3, GoesOn DEF Pc
  <2>. QED BY <1>10, <2>3, <2>4 DEF Verify
<1>11. CASE RollBack \/ CancelApplied
  <2>1. job # None /\ job.st \in State /\ job.stop \in Stops \cup {"verified"}
        /\ job.st.status = "applied" /\ job.st.original \in Patchable
    BY <1>11, JobTyped DEF RollBack, CancelApplied, Inv, StatesSound, Sound
  <2>2. PICK status \in {"rolled_back", "cancelled"} : Restore(status)
    BY <1>11 DEF RollBack, CancelApplied
  <2>3. /\ UNCHANGED <<saved, patches, edits, request>> /\ file' \in Text
        /\ faults' \in 0..MaxFaults /\ edits' \in 0..MaxEdits /\ base' \in Text \cup {None}
    BY <1>0, <2>1, <2>2, RequestTyped, Bounds DEF Restore, Inv, TypeOK
  <2>4. CASE file' = job.st.original /\ Close(status)
    BY <1>0, <2>1, <2>3, <2>4, Closed DEF Status
  <2>5. CASE Close("failed")
    BY <1>0, <2>1, <2>3, <2>5, Closed DEF Status
  <2>. QED BY <2>2, <2>4, <2>5 DEF Restore
<1>12. CASE Finish
  <2>1. job' = None /\ saved' \in {job.st, saved}
        /\ UNCHANGED <<file, base, patches, edits, request>> /\ faults' \in 0..MaxFaults
    BY <1>12, Bounds DEF Finish, Inv, TypeOK
  <2>2. job # None /\ edits' \in 0..MaxEdits
    BY <1>12, Bounds DEF Finish, Inv, TypeOK
  <2>. QED BY <1>0, <2>1, <2>2, Gone
<1>13. CASE Crash
  <2>1. /\ job' = None /\ UNCHANGED <<file, saved, base, patches, edits, request>>
        /\ faults' \in 0..MaxFaults /\ edits' \in 0..MaxEdits
    BY <1>13, Bounds DEF Crash, Inv, TypeOK
  <2>2. /\ UNCHANGED request /\ saved' = saved /\ file' \in Text
        /\ base' \in Text \cup {None} /\ patches' \in 0..2
    BY <1>0, <2>1
  <2>. QED BY <2>1, <2>2, Gone
<1>14. ASSUME NEW text \in Text, Edit(text) PROVE Inv'
  <2>1. /\ job' = None /\ file' \in Text /\ base' = None /\ patches' = 0
        /\ UNCHANGED <<saved, request>>
        /\ faults' \in 0..MaxFaults /\ edits' \in 0..MaxEdits
    BY <1>14, Bounds DEF Edit, Inv, TypeOK
  <2>. QED BY <1>0, <2>1, Gone
<1>. QED BY <1>1, <1>2, <1>3, <1>4, <1>5, <1>6, <1>7, <1>8, <1>9, <1>10, <1>11, <1>12,
            <1>13, <1>14 DEF Next, Continue

-----------------------------------------------------------------------------
(* How often the patch is written. *)

LEMMA PatchedTextsAre ==
  ASSUME request \in Requests
  PROVE  /\ Patchable \subseteq 0..1 /\ PatchedTexts \subseteq 1..2
         /\ \A t \in Patchable : Patched(t) \in PatchedTexts /\ Patched(t) = t + 1
  BY RequestTyped DEF PatchedTexts, Patched

(* A step that leaves the file, the base and the count of writes alone.    *)
LEMMA WritesKept ==
  ASSUME Inv, Writes, UNCHANGED <<file, base, patches, request>>, AppliedSaved',
         saved' = saved \/ (job # None /\ saved' = job.st),
         Stops = {"proposed"} /\ saved' = None /\ job' # None =>
             job'.pc = "close" \/ (job # None /\ job.pc # "close")
  PROVE  Writes'
<1>1. PatchedTexts' = PatchedTexts /\ Stops' = Stops /\ Patchable' = Patchable
  BY RequestKept DEF PatchedTexts
<1>2. Unapplied' => Unapplied
  BY JobTyped DEF Inv, Writes, AppliedSaved, Unapplied
<1>3. WritesClimb'
  BY <1>1, <1>2 DEF Writes, WritesClimb
<1>4. ProposedFirst'
  <2>. SUFFICES ASSUME Stops = {"proposed"} PROVE ProposedFirst'
    BY <1>1 DEF ProposedFirst
  <2>1. saved' = None => saved = None
    BY JobTyped DEF Inv
  <2>2. base # None => saved' # None /\ saved'.original = base
    BY <2>1, JobTyped DEF Inv, OfSavedJob, Writes, ProposedFirst
  <2>3. saved' # None /\ saved'.status = "proposed" /\ patches # 0 =>
           file = Patched(saved'.original)
    BY JobTyped DEF Inv, OfSavedJob, Writes, ProposedFirst, AppliedSaved, Unapplied
  <2>4. saved' = None => base = None /\ patches = 0 /\ (job' # None => job'.pc = "close")
    BY <2>1 DEF Writes, ProposedFirst
  <2>. QED BY <1>1, <2>2, <2>3, <2>4 DEF ProposedFirst
<1>. QED BY <1>3, <1>4 DEF Writes

(* A step under a saved state that is applied, or of a job that is closed. *)
LEMMA WritesOver ==
  ASSUME Inv, Writes, UNCHANGED <<saved, patches, request>>, AppliedSaved',
         saved # None /\ saved.status = "applied",
         base' = base \/ base' = None
  PROVE  Writes'
<1>1. WritesClimb'
  BY DEF WritesClimb, Unapplied
<1>2. ProposedFirst'
  BY RequestKept DEF Writes, ProposedFirst
<1>. QED BY <1>1, <1>2 DEF Writes

(* A place that is not the end, of a state that is applied; the end of a   *)
(* job.                                                                    *)
LEMMA AppliedSavedAt ==
  ASSUME NEW st, job'.st = st,
         \/ job'.pc = "save" /\ st.status = "applied"
         \/ job'.pc \in Pc /\ st.status = "applied" /\ saved' # None
            /\ saved'.status = "applied"
         \/ job'.pc = "close" /\ st.status \notin {"proposed", "applied"}
  PROVE  AppliedSaved'
  BY DEF AppliedSaved, Pc

LEMMA ClosedAt ==
  ASSUME TypeOK, job # None, NEW status \in Status \ {"proposed", "applied"}, Close(status)
  PROVE  AppliedSaved'
<1>1. job'.pc = "close" /\ job'.st = [job.st EXCEPT !.status = status]
  BY DEF Close, Goto, At
<1>2. job'.st.status = status
  BY <1>1, JobTyped, StatusChanged
<1>. QED BY <1>1, <1>2, AppliedSavedAt

LEMMA AppliedSavedStep == Inv /\ Writes /\ [Next]_vars => AppliedSaved'
<1>. SUFFICES ASSUME Inv, Writes, [Next]_vars, job' # None PROVE AppliedSaved'
  BY DEF AppliedSaved
<1>1. CASE UNCHANGED vars
  BY <1>1 DEF vars, Writes, AppliedSaved, Unapplied
<1>2. ASSUME NEW stop \in Stops, NEW authorized,
             RunUnread(stop) \/ Run(stop, authorized)
      PROVE  AppliedSaved'
  BY <1>2 DEF RunUnread, Run, At, NewState, FirstStep, AppliedSaved, Unapplied
<1>3. CASE Resume \/ Cancel
  BY <1>3 DEF Resume, Cancel, Open, At, AppliedSaved, Unapplied, Terminal, Status
<1>4. CASE AlreadyPatched
  <2>1. job # None /\ job.st \in State /\ "applied" \in Status
    BY <1>4, JobTyped DEF AlreadyPatched, Proposed, Inv, Status
  <2>2. job'.pc = "save" /\ job'.st = [job.st EXCEPT !.status = "applied"]
    BY <1>4 DEF AlreadyPatched, Goto, At
  <2>. QED BY <2>1, <2>2, StatusChanged, AppliedSavedAt
<1>5. CASE WritePatch
  <2>1. job # None /\ job.st \in State
    BY <1>5, JobTyped DEF WritePatch, Proposed, Inv
  <2>2. CASE Close("failed")
    BY <2>1, <2>2, ClosedAt DEF Inv, Status
  <2>3. CASE Goto("save", [job.st EXCEPT !.status = "applied", !.writes = @ + 1])
    <3>1. job'.pc = "save" /\ job'.st.status = "applied"
      BY <2>1, <2>3 DEF Goto, At, State
    <3>. QED BY <3>1, AppliedSavedAt
  <2>. QED BY <1>5, <2>2, <2>3 DEF WritePatch
<1>6. CASE ContinueFails \/ EditedMeanwhile \/ CancelUnapplied
  BY <1>6, ClosedAt DEF Inv, ContinueFails, EditedMeanwhile, Proposed, CancelUnapplied, Status
<1>7. CASE SaveApplied
  <2>1. job # None /\ job.st \in State /\ job.st.status = "applied" /\ job.st # None
    BY <1>7, JobTyped DEF SaveApplied, Inv, PlacesSound
  <2>2. CASE Close("failed")
    BY <2>1, <2>2, ClosedAt DEF Inv, Status
  <2>3. CASE saved' = job.st /\ Goto("continue", job.st)
    BY <2>1, <2>3, AppliedSavedAt DEF Goto, At, Pc
  <2>. QED BY <1>7, <2>2, <2>3 DEF SaveApplied
<1>8. CASE TakeUpApplied
  <2>1. job # None /\ saved' = saved /\ saved # None /\ saved.status = "applied"
        /\ job.st.status = "applied"
    BY <1>8 DEF TakeUpApplied, Writes, AppliedSaved
  <2>2. CASE Close("failed")
    BY <2>1, <2>2, ClosedAt DEF Inv, Status
  <2>3. CASE Goto("verify", job.st)
    BY <2>1, <2>3, AppliedSavedAt DEF Goto, At, Pc
  <2>. QED BY <1>8, <2>2, <2>3 DEF TakeUpApplied
<1>9. ASSUME NEW exit \in 0..1, NEW text \in Text, Verify(exit, text) PROVE AppliedSaved'
  <2>1. job # None /\ saved' = saved /\ saved # None /\ saved.status = "applied"
        /\ job.st.status = "applied" /\ job.st \in State
    BY <1>9, JobTyped DEF Verify, Inv, Writes, AppliedSaved
  <2>. DEFINE verified == [job.st EXCEPT !.status = "verified", !.passed = TRUE]
              refused == [job.st EXCEPT !.passed = (exit = 0)]
  <2>2. CASE Goto("close", verified)
    <3>. DEFINE st == verified
    <3>1. job'.pc = "close" /\ job'.st = st /\ job'.stop = job.stop
      BY <2>2 DEF Goto, At
    <3>2. st.status = "verified"
      BY <2>1 DEF State
    <3>. QED BY <3>1, <3>2, AppliedSavedAt
  <2>3. CASE Goto("restore", refused)
    <3>. DEFINE st == refused
    <3>1. job'.pc = "restore" /\ job'.st = st /\ job'.stop = job.stop
      BY <2>3 DEF Goto, At
    <3>2. st.status = "applied"
      BY <2>1 DEF State
    <3>. QED BY <2>1, <3>1, <3>2, AppliedSavedAt DEF Pc
  <2>. QED BY <1>9, <2>2, <2>3 DEF Verify
<1>10. CASE RollBack \/ CancelApplied
  BY <1>10, ClosedAt DEF Inv, RollBack, CancelApplied, Restore, Status
<1>11. ASSUME NEW text \in Text, Edit(text) PROVE AppliedSaved'
  BY <1>11 DEF Edit, Writes, AppliedSaved, Unapplied
<1>. QED BY <1>1, <1>2, <1>3, <1>4, <1>5, <1>6, <1>7, <1>8, <1>9, <1>10, <1>11
         DEF Next, Continue, Finish, Crash

LEMMA WritesStep == Inv /\ Writes /\ [Next]_vars => Writes'
<1>. SUFFICES ASSUME Inv, Writes, [Next]_vars PROVE Writes'
  OBVIOUS
<1>0. AppliedSaved' /\ request \in Requests
  BY AppliedSavedStep DEF Inv, TypeOK
<1>1. CASE UNCHANGED vars
  BY <1>0, <1>1, WritesKept DEF vars, Writes, ProposedFirst
<1>2. ASSUME NEW stop \in Stops, NEW authorized,
             RunUnread(stop) \/ Run(stop, authorized)
      PROVE  Writes'
  BY <1>0, <1>2, WritesKept DEF RunUnread, Run, At, FirstStep
<1>3. CASE Resume \/ Cancel
  BY <1>0, <1>3, WritesKept DEF Resume, Cancel, Open
<1>4. CASE AlreadyPatched \/ TakeUpApplied
  BY <1>0, <1>4, WritesKept DEF AlreadyPatched, Proposed, TakeUpApplied
<1>5. CASE WritePatch
  <2>1. /\ file = job.st.original /\ file' = Patched(file) /\ base' = file
        /\ patches' = patches + 1 /\ UNCHANGED <<saved, request>>
        /\ job # None /\ job.st.status = "proposed" /\ job.pc = "continue"
    BY <1>5 DEF WritePatch, Unpatched, Proposed
  <2>2. Unapplied /\ file \in Patchable
    BY <2>1 DEF Inv, StatesSound, Sound, Writes, AppliedSaved
  <2>3. PatchedTexts' = PatchedTexts /\ Stops' = Stops
    BY <2>1, RequestKept DEF PatchedTexts
  <2>4. WritesClimb'
    <3>1. patches' <= file' /\ file' \in PatchedTexts
      <4>1. patches \in 0..2 /\ file \in 0..1 /\ file' = file + 1 /\ file' \in PatchedTexts
        BY <1>0, <2>1, <2>2, PatchedTextsAre DEF Inv, TypeOK
      <4>2. patches = 0 \/ patches <= file
        BY <2>2 DEF Writes, WritesClimb
      <4>. QED BY <2>1, <4>1, <4>2
    <3>. QED BY <2>3, <3>1 DEF WritesClimb
  <2>5. ProposedFirst'
    BY <2>1, <2>3 DEF Inv, OfSavedJob, Writes, ProposedFirst
  <2>. QED BY <1>0, <2>4, <2>5 DEF Writes
<1>6. CASE ContinueFails \/ EditedMeanwhile \/ CancelUnapplied
  BY <1>0, <1>6, WritesKept DEF ContinueFails, EditedMeanwhile, Proposed, CancelUnapplied
<1>7. CASE SaveApplied
  BY <1>0, <1>7, WritesKept DEF SaveApplied
<1>8. ASSUME NEW exit \in 0..1, NEW text \in Text, Verify(exit, text) PROVE Writes'
  BY <1>0, <1>8, WritesOver DEF Verify, Writes, AppliedSaved
<1>9. CASE RollBack \/ CancelApplied
  BY <1>0, <1>9, WritesOver DEF RollBack, CancelApplied, Restore, Writes, AppliedSaved
<1>10. CASE Finish \/ Crash
  BY <1>0, <1>10, WritesKept DEF Finish, Crash
<1>11. ASSUME NEW text \in Text, Edit(text) PROVE Writes'
  BY <1>0, <1>11, RequestKept DEF Edit, Writes, WritesClimb, ProposedFirst, Unapplied
<1>. QED BY <1>1, <1>2, <1>3, <1>4, <1>5, <1>6, <1>7, <1>8, <1>9, <1>10, <1>11
         DEF Next, Continue

-----------------------------------------------------------------------------
(* The theorems. *)

LEMMA InvInit == Init => Inv /\ Writes
<1>. SUFFICES ASSUME Init PROVE Inv /\ Writes
  OBVIOUS
<1>1. TypeOK
  BY RequestTyped, Bounds DEF Init, TypeOK
<1>. QED BY <1>1 DEF Init, Inv, StatesSound, PlacesSound, OfSavedJob, Writes, AppliedSaved,
                     WritesClimb, ProposedFirst, Unapplied

LEMMA Invariant == Spec => [](Inv /\ Writes)
<1>1. Inv /\ Writes /\ [Next]_vars => (Inv /\ Writes)'
  BY InvStep, WritesStep
<1>. QED BY <1>1, InvInit, PTL DEF Spec

(* The states of continue_job keep their types; the patch is written twice *)
(* at most, whatever the request.                                          *)
THEOREM TypeCorrect == Spec => []TypeOK
<1>1. Inv => TypeOK
  BY DEF Inv
<1>. QED BY <1>1, Invariant, PTL

(* A job that is saved as closed stays so, and no call touches its file.   *)
THEOREM ClosedForGood == Spec => ClosedIsFinal
<1>1. Inv /\ [Next]_vars =>
        (saved # None /\ saved.status \in Terminal =>
           saved' = saved /\ (file' # file => edits' # edits))
  <2>. SUFFICES ASSUME Inv, [Next]_vars, saved # None, saved.status \in Terminal
                PROVE  saved' = saved /\ (file' # file => edits' # edits)
    OBVIOUS
  <2>1. job = None
    BY DEF Inv, OfSavedJob, Terminal, Status
  <2>2. CASE UNCHANGED vars
    BY <2>2 DEF vars
  <2>3. ASSUME NEW text \in Text, Edit(text) PROVE saved' = saved /\ edits' # edits
    BY <2>3 DEF Edit, Inv, TypeOK
  <2>. QED BY <2>1, <2>2, <2>3
           DEF Next, RunUnread, Run, Resume, Cancel, Open, Continue, AlreadyPatched, WritePatch,
               ContinueFails, EditedMeanwhile, Proposed, SaveApplied, TakeUpApplied, Verify,
               RollBack, CancelUnapplied, CancelApplied, Finish, Crash
<1>. QED BY <1>1, Invariant, PTL DEF Spec, ClosedIsFinal

(* finish_saved says "verified" over the patched text, and "rolled_back"   *)
(* over the original.                                                      *)
THEOREM TrueReceipts == Spec => ReceiptsAreTrue
<1>1. Inv /\ [Next]_vars =>
        (saved' # saved =>
           /\ saved'.status = "verified" => file = Patched(saved'.original) /\ saved'.passed
           /\ saved'.status = "rolled_back" => file = saved'.original)
  <2>. SUFFICES ASSUME Inv, [Next]_vars, saved' # saved
                PROVE  /\ saved'.status = "verified" =>
                              file = Patched(saved'.original) /\ saved'.passed
                       /\ saved'.status = "rolled_back" => file = saved'.original
    OBVIOUS
  <2>1. job # None /\ saved' = job.st /\ job.pc \in {"save", "close"}
    BY DEF Next, vars, RunUnread, Run, Resume, Cancel, Continue, AlreadyPatched, WritePatch,
           ContinueFails, EditedMeanwhile, SaveApplied, TakeUpApplied, Verify, RollBack,
           CancelUnapplied, CancelApplied, Restore, Finish, Crash, Edit
  <2>. QED BY <2>1 DEF Inv, PlacesSound
<1>. QED BY <1>1, Invariant, PTL DEF Spec, ReceiptsAreTrue

(* A job that was proposed first can be undone wherever it was interrupted: *)
(* jarvis-job.json holds the text that the patch in place was made from.    *)
THEOREM Recoverable == Spec => []PatchRecoverable
<1>1. Writes => PatchRecoverable
  BY DEF Writes, ProposedFirst, PatchRecoverable
<1>. QED BY <1>1, Invariant, PTL

(* Between two edits of the owner the patch is written once: if each       *)
(* request takes out the text it patches, or is proposed first.            *)
THEOREM WrittenOnce ==
  ASSUME \A r \in Requests : \/ r.stops = {"proposed"}
                             \/ \A t \in r.patchable : Patched(t) \notin r.patchable
  PROVE  Spec => []PatchedOnce
<1>. DEFINE Once == PatchedOnce
<1>1. Init => Once
  BY DEF Init, PatchedOnce
<1>2. Inv /\ Writes /\ Once /\ [Next]_vars => Once'
  <2>. SUFFICES ASSUME Inv, Writes, PatchedOnce, [Next]_vars PROVE patches' <= 1
    BY DEF PatchedOnce
  <2>1. CASE WritePatch
    <3>1. /\ file = job.st.original /\ patches' = patches + 1
          /\ job # None /\ job.st.status = "proposed" /\ job.pc = "continue"
      BY <2>1 DEF WritePatch, Unpatched, Proposed
    <3>2. Unapplied /\ file \in Patchable /\ request \in Requests
      BY <3>1 DEF Inv, TypeOK, StatesSound, Sound, Writes, AppliedSaved
    <3>3. patches = 0
      <4>1. CASE Stops = {"proposed"}
        <5>1. saved # None /\ saved.status = "proposed" /\ saved.original = file
          BY <3>1, <3>2, <4>1 DEF Inv, OfSavedJob, Writes, ProposedFirst, Unapplied
        <5>2. file # Patched(file)
          BY <3>2, RequestTyped
        <5>. QED BY <4>1, <5>1, <5>2 DEF Writes, ProposedFirst
      <4>2. CASE \A t \in Patchable : Patched(t) \notin Patchable
        <5>1. file \notin PatchedTexts
          BY <3>2, <4>2 DEF PatchedTexts
        <5>. QED BY <3>2, <5>1 DEF Writes, WritesClimb
      <4>. QED BY <3>2, <4>1, <4>2 DEF Stops, Patchable
    <3>. QED BY <3>1, <3>3
  <2>2. CASE ~WritePatch
    BY <2>2 DEF Next, vars, RunUnread, Run, Resume, Cancel, Continue, AlreadyPatched,
           ContinueFails, EditedMeanwhile, SaveApplied, TakeUpApplied, Verify, RollBack,
           CancelUnapplied, CancelApplied, Restore, Finish, Crash, Edit, PatchedOnce
  <2>. QED BY <2>1, <2>2
<1>. QED BY <1>1, <1>2, Invariant, PTL DEF Spec
=============================================================================
