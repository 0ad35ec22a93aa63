-------------------------- MODULE ClaimRunsProofs --------------------------
(***************************************************************************)
(* For any number of runs, claims, digits and seconds: a run reads no      *)
(* result of another that drew other digits, and its file is not lost to   *)
(* another of a different second.                                          *)
(***************************************************************************)
EXTENDS ClaimRuns, TLAPS

Seconds == 1..MAX_CLOCK

Writers == {"writing", "written", "done"}

\* A run has a thread once it started, and a draft is in it from the gate on.
ThreadIsThere(r) ==
    at[r] # "new" =>
        /\ thread_id(r) \in DOMAIN threads
        /\ at[r] \notin {"coverage", "draft"} => threads[thread_id(r)].notification \in Namesakes(r)

\* The runs that were given this thread.
RunsOf(thread) == {q \in Runs : at[q] # "new" /\ thread_id(q) = thread}

\* What is in a thread is of a run that was given it.
ThreadIsOfItsRuns(thread) ==
    {threads[thread].judgment, threads[thread].notification} \subseteq RunsOf(thread) \cup {None}

Shared(r, second) ==
    \E q \in Runs : q # r /\ Claim[q] = Claim[r] /\ <<q, second>> \in openings

\* The file of a run holds what the run put there, unless it is shared.
FileOf(r, second) ==
    /\ opened[r] = <<Claim[r], second>>
    /\ <<r, second>> \in openings
    /\ <<Claim[r], second>> \in DOMAIN files
    /\ \/ IF at[r] = "writing" THEN files[<<Claim[r], second>>] = Empty
          ELSE files[<<Claim[r], second>>] \in Namesakes(r)
       \/ Shared(r, second)

WriterHasItsFile(r) == at[r] \in Writers => \E second \in Seconds : FileOf(r, second)

\* Only approved runs open files, and a run whose process never died opens one.
OpeningsAreApproved ==
    /\ \A r \in approved : at[r] # "new"
    /\ \A r \in Runs : at[r] \in Writers \cup {"approved"} => r \in approved
    /\ \A r \in Runs, second \in Seconds : <<r, second>> \in openings =>
          /\ r \in approved
          /\ r \notin died => at[r] \in Writers /\ opened[r] = <<Claim[r], second>>

PathsAreNames == DOMAIN files \subseteq ClaimIds \X Seconds

RunsInv ==
    /\ RunsTypeOK /\ DOMAIN opened = Runs /\ PathsAreNames
    /\ \A thread \in DOMAIN threads : ThreadIsOfItsRuns(thread)
    /\ \A r \in Runs : ThreadIsThere(r) /\ WriterHasItsFile(r)
    /\ OpeningsAreApproved
    /\ FilesAreApproved

LEMMA RunsInvInit == Init => RunsInv
<1> SUFFICES ASSUME Init PROVE RunsInv
  OBVIOUS
<1>1. DOMAIN threads = {} /\ DOMAIN files = {}
  BY DEF Init
<1>2. RunsTypeOK /\ DOMAIN opened = Runs
  BY <1>1, RunsAssumption DEF Init, RunsTypeOK
<1> QED
  BY <1>1, <1>2 DEF Init, RunsInv, PathsAreNames, ThreadIsThere,
     WriterHasItsFile, Writers,
     OpeningsAreApproved, FilesAreApproved

-----------------------------------------------------------------------------
\* A run that started never starts again, so it keeps its digits.
DigitsStay ==
    \A q \in Runs : at[q] # "new" => at'[q] # "new" /\ suffix'[q] = suffix[q]

\* A run stays a namesake, and stays one that was given its thread.
LEMMA NamesakesStay ==
    ASSUME DigitsStay
    PROVE  /\ \A r \in Runs : at[r] # "new" => Namesakes(r) \subseteq Namesakes(r)'
           /\ \A thread : RunsOf(thread) \subseteq RunsOf(thread)'
BY DEF DigitsStay, Namesakes, RunsOf, thread_id

AThread == [judgment : Runs \cup {None}, notification : Runs \cup {None}]

\* A step that gives the thread of one run a new content, or makes it.
LEMMA OneThreadChanges ==
    ASSUME RunsInv, DigitsStay, NEW r \in Runs, at'[r] # "new",
           \A q \in Runs \ {r} : at'[q] = at[q],
           NEW thread, thread = thread_id(r)',
           NEW record \in AThread, threads'[thread] = record,
           DOMAIN threads' = DOMAIN threads \cup {thread},
           \A t \in DOMAIN threads : t # thread => threads'[t] = threads[t],
           {record.judgment, record.notification} \subseteq RunsOf(thread)' \cup {None},
           thread \in DOMAIN threads =>
              record.notification \in {threads[thread].notification, r},
           at'[r] \in {"coverage", "draft"} \/ record.notification = r
    PROVE  /\ \A t \in DOMAIN threads' : threads'[t] \in AThread
           /\ \A t \in DOMAIN threads' : ThreadIsOfItsRuns(t)'
           /\ \A q \in Runs : ThreadIsThere(q)'
<1>1. \A t \in DOMAIN threads' : threads'[t] \in AThread
  BY DEF RunsInv, RunsTypeOK, AThread
<1>2. ASSUME NEW t \in DOMAIN threads' PROVE ThreadIsOfItsRuns(t)'
  <2>1. CASE t = thread
    BY <2>1 DEF ThreadIsOfItsRuns
  <2>2. CASE t # thread
    <3>1. t \in DOMAIN threads /\ threads'[t] = threads[t] /\ ThreadIsOfItsRuns(t)
      BY <2>2 DEF RunsInv
    <3> QED BY <3>1, NamesakesStay DEF ThreadIsOfItsRuns
  <2> QED BY <2>1, <2>2
<1>3. r \in Namesakes(r)'
  BY DEF Namesakes
<1>4. ThreadIsThere(r)'
  BY <1>3 DEF ThreadIsThere
<1>5. ASSUME NEW q \in Runs \ {r}, at[q] # "new" PROVE ThreadIsThere(q)'
  <2>1. /\ thread_id(q)' = thread_id(q) /\ thread_id(q) \in DOMAIN threads
        /\ at'[q] = at[q] /\ Namesakes(q) \subseteq Namesakes(q)'
    BY <1>5, NamesakesStay DEF DigitsStay, thread_id, RunsInv, ThreadIsThere
  <2>2. thread_id(q) = thread => r \in Namesakes(q)'
    BY <2>1 DEF Namesakes, thread_id
  <2>3. at[q] \notin {"coverage", "draft"} =>
           threads'[thread_id(q)].notification \in Namesakes(q)'
    <3>1. at[q] \notin {"coverage", "draft"} =>
             threads[thread_id(q)].notification \in Namesakes(q)'
      BY <1>5, <2>1 DEF RunsInv, ThreadIsThere
    <3>2. thread_id(q) # thread => threads'[thread_id(q)] = threads[thread_id(q)]
      BY <2>1
    <3> QED BY <2>1, <2>2, <3>1, <3>2
  <2> QED BY <2>1, <2>3 DEF ThreadIsThere
<1>6. ASSUME NEW q \in Runs \ {r}, at[q] = "new" PROVE ThreadIsThere(q)'
  BY <1>6 DEF ThreadIsThere
<1> QED BY <1>1, <1>2, <1>4, <1>5, <1>6

\* A step that leaves the threads alone.
LEMMA NoThreadChanges ==
    ASSUME RunsInv, DigitsStay, threads' = threads,
           \A q \in Runs : at'[q] \notin {"new", "coverage", "draft"} =>
              at[q] \notin {"new", "coverage", "draft"},
           \A q \in Runs : at[q] = "new" => at'[q] = "new"
    PROVE  /\ \A t \in DOMAIN threads' : threads'[t] \in AThread
           /\ \A t \in DOMAIN threads' : ThreadIsOfItsRuns(t)'
           /\ \A q \in Runs : ThreadIsThere(q)'
<1>1. \A t \in DOMAIN threads' : threads'[t] \in AThread
  BY DEF RunsInv, RunsTypeOK, AThread
<1>2. \A t \in DOMAIN threads' : ThreadIsOfItsRuns(t)'
  BY NamesakesStay DEF RunsInv, ThreadIsOfItsRuns
<1>3. ASSUME NEW q \in Runs, at[q] # "new" PROVE ThreadIsThere(q)'
  <2>1. /\ thread_id(q)' = thread_id(q) /\ Namesakes(q) \subseteq Namesakes(q)'
        /\ ThreadIsThere(q)
    BY <1>3, NamesakesStay DEF DigitsStay, thread_id, RunsInv
  <2> QED BY <1>3, <2>1 DEF ThreadIsThere
<1>4. ASSUME NEW q \in Runs, at[q] = "new" PROVE ThreadIsThere(q)'
  BY <1>4 DEF ThreadIsThere
<1> QED BY <1>1, <1>2, <1>3, <1>4

\* A step that writes no file and opens none.
NoFileTouched == UNCHANGED <<files, opened, openings>>

LEMMA UntouchedFilesStay ==
    ASSUME NEW r \in Runs, WriterHasItsFile(r), NoFileTouched, DigitsStay,
           at'[r] \in Writers =>
              at[r] \in Writers /\ (at[r] = "writing" <=> at'[r] = "writing")
    PROVE  WriterHasItsFile(r)'
<1>1. at[r] \in Writers => Namesakes(r) \subseteq Namesakes(r)'
  BY NamesakesStay DEF Writers
<1> QED BY <1>1 DEF WriterHasItsFile, FileOf, Shared, NoFileTouched

\* FilesAreApproved, of one file.
FileIsApproved(p) ==
    \/ \E r \in approved : Claim[r] = p[1] /\ files[p] \in Namesakes(r)
    \/ files[p] = Empty /\ \E r \in approved :
          /\ Claim[r] = p[1] /\ <<r, p[2]>> \in openings
          /\ r \in died \/ at[r] = "writing"
    \/ files[p] = Mixed /\ \E r, q \in approved :
          r # q /\ {Claim[r], Claim[q]} = {p[1]} /\ {<<r, p[2]>>, <<q, p[2]>>} \subseteq openings

LEMMA FilesOneByOne == FilesAreApproved <=> \A p \in DOMAIN files : FileIsApproved(p)
BY DEF FilesAreApproved, FileIsApproved

\* A file stays accounted for while it is not written, unless the run that
\* had emptied it leaves off.
LEMMA FileStaysApproved ==
    ASSUME RunsInv, DigitsStay, NEW p \in DOMAIN files, files'[p] = files[p],
           approved \subseteq approved', openings \subseteq openings', died \subseteq died',
           \A r \in Runs \ died' :
              at[r] = "writing" /\ <<Claim[r], p[2]>> = <<p[1], p[2]>> /\ <<r, p[2]>> \in openings
                 => at'[r] = "writing"
    PROVE  FileIsApproved(p)'
<1>1. FileIsApproved(p) /\ approved \subseteq Runs
  BY FilesOneByOne DEF RunsInv, RunsTypeOK
<1>2. ASSUME NEW r \in approved, Claim[r] = p[1], files[p] \in Namesakes(r)
      PROVE  FileIsApproved(p)'
  <2>1. Namesakes(r) \subseteq Namesakes(r)'
    BY <1>1, NamesakesStay DEF RunsInv, OpeningsAreApproved
  <2> QED BY <1>2, <2>1 DEF FileIsApproved
<1>3. ASSUME files[p] = Empty,
             NEW r \in approved, Claim[r] = p[1], <<r, p[2]>> \in openings,
             r \in died \/ at[r] = "writing"
      PROVE  FileIsApproved(p)'
  BY <1>1, <1>3 DEF FileIsApproved, Empty
<1>4. CASE files[p] = Mixed /\ \E r, q \in approved :
             /\ r # q /\ {Claim[r], Claim[q]} = {p[1]}
             /\ {<<r, p[2]>>, <<q, p[2]>>} \subseteq openings
  <2>1. PICK r \in approved', q \in approved' :
            /\ r # q /\ {Claim[r], Claim[q]} = {p[1]}
            /\ {<<r, p[2]>>, <<q, p[2]>>} \subseteq openings'
    BY <1>4
  <2>2. files'[p] = Mixed
    BY <1>4
  <2> QED BY <2>1, <2>2, Zenon DEF FileIsApproved
<1> QED BY <1>1, <1>2, <1>3, <1>4 DEF FileIsApproved

\* The steps before the gate work on the thread.
LEMMA ThreadStepKeeps ==
    ASSUME RunsInv, NEW r \in Runs, Start(r) \/ Judge(r) \/ SkipJudgment(r) \/ Draft(r)
    PROVE  RunsInv'
<1>1. /\ UNCHANGED <<clock, files, opened, approved, openings, died>>
      /\ at[r] \in {"new", "coverage", "draft"}
      /\ \E to \in {"coverage", "draft", "gate"} : at' = [at EXCEPT ![r] = to]
  BY DEF Start, Judge, SkipJudgment, Draft, Goto
<1>2. RunsTypeOK
  BY DEF RunsInv
<1>3. /\ at'[r] \in {"coverage", "draft", "gate"}
      /\ \A q \in Runs \ {r} : at'[q] = at[q]
      /\ at' \in [Runs -> {"new", "coverage", "draft", "gate", "approved", "writing",
                           "written", "done", "rejected"}]
  BY <1>1, <1>2 DEF RunsTypeOK
<1>4. DigitsStay /\ suffix' \in [Runs -> Suffixes \cup {None}]
  BY <1>2, <1>3 DEF DigitsStay, RunsTypeOK, Start, Judge, SkipJudgment, Draft, Goto
<1>11. /\ \A t \in DOMAIN threads' : threads'[t] \in AThread
       /\ \A t \in DOMAIN threads' : ThreadIsOfItsRuns(t)'
       /\ \A q \in Runs : ThreadIsThere(q)'
  <2>0. PICK thread : thread = thread_id(r)'
    OBVIOUS
  <2>1. /\ \A t \in DOMAIN threads : threads[t] \in AThread
        /\ \A t \in DOMAIN threads : ThreadIsOfItsRuns(t)
        /\ r \in RunsOf(thread)'
    BY <1>2, <1>3, <2>0 DEF RunsInv, RunsTypeOK, AThread, RunsOf
  <2>2. CASE Start(r)
    <3> DEFINE record == IF thread \in DOMAIN threads THEN threads[thread]
                         ELSE [judgment |-> None, notification |-> None]
    <3>1. at'[r] = "coverage"
      BY <1>2, <2>2 DEF Start, Goto, RunsTypeOK
    <3>2. /\ DOMAIN threads' = DOMAIN threads \cup {thread}
          /\ threads'[thread] = record
          /\ \A t \in DOMAIN threads : t # thread => threads'[t] = threads[t]
      BY <2>0, <2>2 DEF Start, With
    <3>3. record \in AThread
      BY <2>1 DEF AThread
    <3>4. {record.judgment, record.notification} \subseteq RunsOf(thread)' \cup {None}
      <4>1. CASE thread \in DOMAIN threads
        BY <1>4, <2>1, <4>1, NamesakesStay DEF ThreadIsOfItsRuns
      <4>2. CASE thread \notin DOMAIN threads
        BY <4>2
      <4> QED BY <4>1, <4>2
    <3>5. thread \in DOMAIN threads =>
             record.notification \in {threads[thread].notification, r}
      OBVIOUS
    <3> HIDE DEF record
    <3> QED BY <1>3, <1>4, <2>0, <3>1, <3>2, <3>3, <3>4, <3>5, OneThreadChanges
  <2>3. CASE Judge(r) \/ Draft(r)
    <3>1. /\ at[r] # "new" /\ thread = thread_id(r) /\ thread \in DOMAIN threads
      BY <1>4, <2>0, <2>3 DEF Judge, Draft, Goto, RunsInv, ThreadIsThere, DigitsStay, thread_id
    <3>2. PICK record :
            /\ threads' = [threads EXCEPT ![thread] = record]
            /\ \/ record = [threads[thread] EXCEPT !.judgment = r] /\ at'[r] = "draft"
               \/ record = [threads[thread] EXCEPT !.notification = r]
      BY <1>2, <2>3, <3>1 DEF Judge, Draft, Goto, RunsTypeOK
    <3>3. /\ record \in AThread
          /\ record.judgment \in {threads[thread].judgment, r}
          /\ record.notification \in {threads[thread].notification, r}
          /\ at'[r] = "draft" \/ record.notification = r
      BY <2>1, <3>1, <3>2 DEF AThread
    <3>4. /\ DOMAIN threads' = DOMAIN threads \cup {thread}
          /\ threads'[thread] = record
          /\ \A t \in DOMAIN threads : t # thread => threads'[t] = threads[t]
      BY <3>1, <3>2
    <3>5. {record.judgment, record.notification} \subseteq RunsOf(thread)' \cup {None}
      <4>1. {threads[thread].judgment, threads[thread].notification}
               \subseteq RunsOf(thread)' \cup {None}
        BY <1>4, <2>1, <3>1, NamesakesStay DEF ThreadIsOfItsRuns
      <4> QED BY <2>1, <3>3, <4>1
    <3> QED BY <1>3, <1>4, <2>0, <3>3, <3>4, <3>5, OneThreadChanges
  <2>4. CASE SkipJudgment(r)
    <3>1. threads' = threads /\ at[r] = "coverage" /\ at'[r] = "draft"
      BY <1>2, <2>4 DEF SkipJudgment, Goto, RunsTypeOK
    <3> QED BY <1>3, <1>4, <3>1, NoThreadChanges
  <2> QED BY <2>2, <2>3, <2>4
<1>5. RunsTypeOK' /\ (DOMAIN opened = Runs)' /\ PathsAreNames'
  BY <1>1, <1>2, <1>3, <1>4, <1>11 DEF RunsInv, RunsTypeOK, PathsAreNames, AThread
<1>6. ASSUME NEW q \in Runs PROVE WriterHasItsFile(q)'
  <2>1. at'[q] \in Writers => at[q] = at'[q]
    BY <1>3 DEF Writers
  <2> QED BY <1>1, <1>4, <2>1, UntouchedFilesStay DEF RunsInv, NoFileTouched
<1>7. OpeningsAreApproved'
  BY <1>1, <1>3 DEF RunsInv, OpeningsAreApproved, Writers
<1>8. FilesAreApproved'
  <2>1. at[r] # "writing"
    BY <1>1
  <2>2. \A p \in DOMAIN files : FileIsApproved(p)'
    BY <1>1, <1>3, <1>4, <2>1, FileStaysApproved
  <2> QED BY <1>1, <2>2 DEF FilesAreApproved, FileIsApproved
<1> QED BY <1>5, <1>6, <1>7, <1>8, <1>11 DEF RunsInv

-----------------------------------------------------------------------------
PastTheDraft == {"gate", "approved", "writing", "written", "done", "rejected"}

\* From the gate on a run leaves its thread alone.
LEMMA ThreadsStay ==
    ASSUME RunsInv, NEW r \in Runs, NEW to \in PastTheDraft,
           at[r] \in PastTheDraft, at' = [at EXCEPT ![r] = to],
           UNCHANGED <<suffix, threads>>
    PROVE  /\ at'[r] = to /\ \A q \in Runs \ {r} : at'[q] = at[q]
           /\ at' \in [Runs -> {"new", "coverage", "draft", "gate", "approved", "writing",
                                "written", "done", "rejected"}]
           /\ threads[thread_id(r)].notification \in Namesakes(r)
           /\ DigitsStay
           /\ \A t \in DOMAIN threads' : ThreadIsOfItsRuns(t)'
           /\ \A q \in Runs : ThreadIsThere(q)'
<1>1. /\ at'[r] = to /\ \A q \in Runs \ {r} : at'[q] = at[q]
      /\ at' \in [Runs -> {"new", "coverage", "draft", "gate", "approved", "writing",
                           "written", "done", "rejected"}]
  BY DEF RunsInv, RunsTypeOK, PastTheDraft
<1>2. threads[thread_id(r)].notification \in Namesakes(r)
  BY DEF RunsInv, ThreadIsThere, PastTheDraft
<1>3. DigitsStay
  BY <1>1 DEF DigitsStay, PastTheDraft
<1>4. /\ \A q \in Runs : at'[q] \notin {"new", "coverage", "draft"} =>
             at[q] \notin {"new", "coverage", "draft"}
      /\ \A q \in Runs : at[q] = "new" => at'[q] = "new"
  BY <1>1 DEF PastTheDraft
<1> QED BY <1>1, <1>2, <1>3, <1>4, NoThreadChanges

\* The answers, the return of the gate, and the death of a process: no file is
\* touched, and what was opened and approved stays so.
LEMMA GateStepKeeps ==
    ASSUME RunsInv, NEW r \in Runs,
           approve(r) \/ reject(r) \/ return_decision(r) \/ CrashAndResume(r)
    PROVE  RunsInv'
<1>1. /\ UNCHANGED <<clock, suffix, threads, files, opened, openings>>
      /\ approved \subseteq approved' /\ approved' \subseteq approved \cup {r}
      /\ died \subseteq died' /\ died' \subseteq died \cup {r}
  BY DEF approve, reject, return_decision, CrashAndResume
<1>2. PICK to \in PastTheDraft : at' = [at EXCEPT ![r] = to] /\ at[r] \in PastTheDraft
  BY DEF approve, reject, return_decision, CrashAndResume, Goto, PastTheDraft
<1>3. /\ at'[r] = to /\ \A q \in Runs \ {r} : at'[q] = at[q]
      /\ at' \in [Runs -> {"new", "coverage", "draft", "gate", "approved", "writing",
                           "written", "done", "rejected"}]
      /\ DigitsStay /\ \A t \in DOMAIN threads' : ThreadIsOfItsRuns(t)'
      /\ \A q \in Runs : ThreadIsThere(q)'
  BY <1>1, <1>2, ThreadsStay
<1>4. /\ at'[r] \in Writers => at[r] = "written" /\ at'[r] = "done"
      /\ at'[r] \in Writers \cup {"approved"} => r \in approved'
      /\ at[r] \in Writers => at'[r] \in Writers \/ r \in died'
  BY <1>3 DEF RunsInv, OpeningsAreApproved, Writers, approve, reject, return_decision,
     CrashAndResume, Goto, RunsTypeOK
<1>5. RunsTypeOK' /\ (DOMAIN opened = Runs)' /\ PathsAreNames'
  BY <1>1, <1>3 DEF RunsInv, RunsTypeOK, PathsAreNames
<1>6. ASSUME NEW q \in Runs PROVE WriterHasItsFile(q)'
  <2>1. at'[q] \in Writers =>
           at[q] \in Writers /\ (at[q] = "writing" <=> at'[q] = "writing")
    BY <1>3, <1>4 DEF Writers
  <2> QED BY <1>1, <1>3, <2>1, UntouchedFilesStay DEF RunsInv, NoFileTouched
<1>7. OpeningsAreApproved'
  BY <1>1, <1>2, <1>3, <1>4 DEF RunsInv, OpeningsAreApproved, PastTheDraft, DigitsStay
<1>8. FilesAreApproved'
  <2>1. at[r] = "writing" => r \in died'
    BY <1>3, <1>4 DEF Writers
  <2>2. \A p \in DOMAIN files : FileIsApproved(p)'
    BY <1>1, <1>3, <2>1, FileStaysApproved
  <2> QED BY <1>1, <2>2 DEF FilesAreApproved, FileIsApproved
<1> QED BY <1>3, <1>5, <1>6, <1>7, <1>8 DEF RunsInv

\* A write of one run to the file of another leaves that one with a shared file.
LEMMA OtherFilesStay ==
    ASSUME NEW r \in Runs, NEW q \in Runs \ {r}, NEW second \in Seconds,
           WriterHasItsFile(q), at'[q] = at[q], opened'[q] = opened[q],
           openings \subseteq openings', <<r, second>> \in openings', DigitsStay,
           DOMAIN files \subseteq DOMAIN files',
           \A p \in DOMAIN files : p # <<Claim[r], second>> => files'[p] = files[p]
    PROVE  WriterHasItsFile(q)'
<1> SUFFICES ASSUME at[q] \in Writers, NEW s \in Seconds, FileOf(q, s)
             PROVE  FileOf(q, s)'
  BY DEF WriterHasItsFile
<1>1. Shared(q, s) => Shared(q, s)'
  BY DEF Shared
<1>2. <<Claim[q], s>> = <<Claim[r], second>> => Shared(q, s)'
  BY DEF Shared
<1>3. Namesakes(q) \subseteq Namesakes(q)'
  BY NamesakesStay DEF Writers
<1> QED BY <1>1, <1>2, <1>3 DEF FileOf

LEMMA OpenFileKeeps == ASSUME RunsInv, NEW r \in Runs, open_file(r) PROVE RunsInv'
<1>0. PICK second : second = clock
  OBVIOUS
<1> DEFINE name == <<Claim[r], second>>
<1>1. /\ UNCHANGED <<clock, suffix, threads, approved, died>>
      /\ at[r] = "approved" /\ at' = [at EXCEPT ![r] = "writing"]
      /\ opened' = [opened EXCEPT ![r] = name]
      /\ openings' = openings \cup {<<r, second>>}
      /\ DOMAIN files' = DOMAIN files \cup {name} /\ files'[name] = Empty
      /\ \A p \in DOMAIN files : p # name => files'[p] = files[p]
  BY <1>0 DEF open_file, Goto, path, With
<1>2. RunsTypeOK /\ DOMAIN opened = Runs /\ clock \in Seconds /\ second \in Seconds /\ Claim[r] \in ClaimIds
  BY <1>0, RunsAssumption DEF RunsInv, RunsTypeOK, Seconds
<1>3. /\ at'[r] = "writing" /\ \A q \in Runs \ {r} : at'[q] = at[q]
      /\ at' \in [Runs -> {"new", "coverage", "draft", "gate", "approved", "writing",
                           "written", "done", "rejected"}]
      /\ DigitsStay /\ \A t \in DOMAIN threads' : ThreadIsOfItsRuns(t)'
      /\ \A q \in Runs : ThreadIsThere(q)'
  BY <1>1, ThreadsStay DEF PastTheDraft
<1>4. /\ opened'[r] = name /\ DOMAIN opened' = Runs
      /\ \A q \in Runs \ {r} : opened'[q] = opened[q]
  BY <1>1, <1>2
<1>5. PathsAreNames'
  BY <1>1, <1>2 DEF RunsInv, PathsAreNames
<1>6. RunsTypeOK'
  <2>1. \A p \in DOMAIN files' : files'[p] \in Runs \cup {Empty, Mixed}
    BY <1>1, <1>2 DEF RunsTypeOK
  <2>2. \A q \in Runs : opened'[q] = None \/ opened'[q] \in DOMAIN files'
    BY <1>1, <1>2, <1>4 DEF RunsTypeOK
  <2> QED BY <1>1, <1>2, <1>3, <2>1, <2>2 DEF RunsTypeOK, Seconds
<1>7. ASSUME NEW q \in Runs PROVE WriterHasItsFile(q)'
  <2>1. CASE q = r
    BY <1>1, <1>2, <1>3, <1>4, <2>1 DEF WriterHasItsFile, FileOf
  <2>2. CASE q # r
    BY <1>1, <1>2, <1>3, <1>4, <2>2, OtherFilesStay DEF RunsInv
  <2> QED BY <2>1, <2>2
<1>8. OpeningsAreApproved'
  BY <1>1, <1>2, <1>3, <1>4 DEF RunsInv, OpeningsAreApproved, Writers
<1>9. FilesAreApproved'
  <2>1. FileIsApproved(name)'
    BY <1>1, <1>3 DEF FileIsApproved, RunsInv, OpeningsAreApproved
  <2>2. ASSUME NEW p \in DOMAIN files, p # name PROVE FileIsApproved(p)'
    <3>1. /\ files'[p] = files[p] /\ openings \subseteq openings'
          /\ approved \subseteq approved' /\ died \subseteq died'
      BY <1>1, <2>2
    <3>2. \A q \in Runs : at[q] = "writing" => at'[q] = "writing"
      BY <1>1, <1>3
    <3>3. \A q \in Runs \ died' :
            at[q] = "writing" /\ <<Claim[q], p[2]>> = <<p[1], p[2]>> /\ <<q, p[2]>> \in openings
               => at'[q] = "writing"
      BY <3>2
    <3> QED BY <1>3, <3>1, <3>3, FileStaysApproved
  <2>3. ASSUME NEW p \in DOMAIN files' PROVE FileIsApproved(p)'
    BY <1>1, <2>1, <2>2
  <2> QED BY <2>3 DEF FilesAreApproved, FileIsApproved
<1> QED BY <1>3, <1>4, <1>5, <1>6, <1>7, <1>8, <1>9 DEF RunsInv

LEMMA WriteTextKeeps == ASSUME RunsInv, NEW r \in Runs, write_text(r) PROVE RunsInv'
<1>1. /\ UNCHANGED <<clock, suffix, threads, opened, approved, openings, died>>
      /\ at[r] = "writing" /\ at' = [at EXCEPT ![r] = "written"]
  BY DEF write_text, Goto
<1>2. RunsTypeOK /\ DOMAIN opened = Runs /\ PathsAreNames
  BY DEF RunsInv
<1>3. /\ at'[r] = "written" /\ \A q \in Runs \ {r} : at'[q] = at[q]
      /\ at' \in [Runs -> {"new", "coverage", "draft", "gate", "approved", "writing",
                           "written", "done", "rejected"}]
      /\ DigitsStay /\ \A t \in DOMAIN threads' : ThreadIsOfItsRuns(t)'
      /\ \A q \in Runs : ThreadIsThere(q)'
      /\ threads[thread_id(r)].notification \in Namesakes(r)
  BY <1>1, ThreadsStay DEF PastTheDraft
<1>4. PICK second \in Seconds : FileOf(r, second)
  BY <1>1 DEF RunsInv, WriterHasItsFile, Writers
<1> DEFINE name == <<Claim[r], second>>
<1>5. opened[r] = name /\ name \in DOMAIN files /\ <<r, second>> \in openings
  BY <1>4 DEF FileOf
<1>6. PICK content : /\ files' = [files EXCEPT ![name] = content]
                     /\ content \in Namesakes(r) \/ (content = Mixed /\ Shared(r, second))
  BY <1>1, <1>3, <1>4, <1>5 DEF write_text, FileOf
<1>7. /\ DOMAIN files' = DOMAIN files /\ files'[name] = content
      /\ \A p \in DOMAIN files : p # name => files'[p] = files[p]
  BY <1>5, <1>6
<1>8. RunsTypeOK' /\ PathsAreNames' /\ (DOMAIN opened = Runs)'
  BY <1>1, <1>2, <1>3, <1>6, <1>7 DEF RunsTypeOK, Namesakes, PathsAreNames
<1>12. Namesakes(r) \subseteq Namesakes(r)'
  BY <1>1, <1>3, NamesakesStay
<1>9. ASSUME NEW q \in Runs PROVE WriterHasItsFile(q)'
  <2>1. CASE q = r
    <3>1. Shared(r, second) => Shared(r, second)'
      BY <1>1 DEF Shared
    <3> QED BY <1>1, <1>3, <1>5, <1>6, <1>7, <2>1, <1>12, <3>1 DEF WriterHasItsFile, FileOf
  <2>2. CASE q # r
    BY <1>1, <1>3, <1>5, <1>7, <2>2, OtherFilesStay DEF RunsInv
  <2> QED BY <2>1, <2>2
<1>10. OpeningsAreApproved'
  BY <1>1, <1>3 DEF RunsInv, OpeningsAreApproved, Writers
<1>11. FilesAreApproved'
  <2>1. r \in approved /\ \A q \in Runs : <<q, second>> \in openings => q \in approved
    BY <1>1 DEF RunsInv, OpeningsAreApproved, Writers
  <2>2. FileIsApproved(name)'
    <3>1. CASE content \in Namesakes(r)
      BY <1>1, <1>7, <1>12, <2>1, <3>1 DEF FileIsApproved
    <3>2. CASE content = Mixed /\ Shared(r, second)
      <4>1. PICK q \in Runs : q # r /\ Claim[q] = Claim[r] /\ <<q, second>> \in openings
        BY <3>2 DEF Shared
      <4>2. {Claim[r], Claim[q]} = {name[1]} /\ {<<r, name[2]>>, <<q, name[2]>>} \subseteq openings
        BY <1>5, <4>1
      <4>3. files'[name] = Mixed /\ {r, q} \subseteq approved /\ r # q
        BY <1>7, <2>1, <3>2, <4>1
      <4> QED BY <1>1, <4>2, <4>3 DEF FileIsApproved
    <3> QED BY <1>6, <3>1, <3>2
  <2>3. ASSUME NEW p \in DOMAIN files, p # name PROVE FileIsApproved(p)'
    <3>1. p = <<p[1], p[2]>> /\ p[2] \in Seconds
      BY <1>2 DEF PathsAreNames
    <3>2. r \notin died /\ <<r, p[2]>> \in openings => opened[r] = <<Claim[r], p[2]>>
      BY <3>1 DEF RunsInv, OpeningsAreApproved
    <3>3. ~(r \notin died /\ <<r, p[2]>> \in openings /\ <<Claim[r], p[2]>> = <<p[1], p[2]>>)
      BY <1>5, <2>3, <3>1, <3>2
    <3>4. \A q \in Runs \ died' :
            at[q] = "writing" /\ <<Claim[q], p[2]>> = <<p[1], p[2]>> /\ <<q, p[2]>> \in openings
               => at'[q] = "writing"
      BY <1>1, <1>3, <3>3
    <3>5. /\ files'[p] = files[p] /\ openings \subseteq openings'
          /\ approved \subseteq approved' /\ died \subseteq died'
      BY <1>1, <1>7, <2>3
    <3> QED BY <1>3, <3>4, <3>5, FileStaysApproved
  <2>4. ASSUME NEW p \in DOMAIN files' PROVE FileIsApproved(p)'
    BY <1>7, <2>2, <2>3
  <2> QED BY <2>4 DEF FilesAreApproved, FileIsApproved
<1> QED BY <1>3, <1>8, <1>9, <1>10, <1>11 DEF RunsInv

LEMMA RunsInvNext == RunsInv /\ [Next]_vars => RunsInv'
<1> SUFFICES ASSUME RunsInv, [Next]_vars PROVE RunsInv'
  OBVIOUS
<1>1. CASE Tick \/ UNCHANGED vars
  <2>1. UNCHANGED <<suffix, threads, at, files, opened, approved, openings, died>>
        /\ clock' \in Seconds
    BY <1>1, RunsAssumption DEF Tick, vars, RunsInv, RunsTypeOK, Seconds
  <2>7. DigitsStay /\ \A r \in Runs : at'[r] = at[r]
    BY <2>1 DEF DigitsStay
  <2>2. RunsTypeOK' /\ PathsAreNames' /\ (DOMAIN opened = Runs)'
    BY <2>1 DEF RunsInv, RunsTypeOK, PathsAreNames, Seconds
  <2>3. /\ \A thread \in DOMAIN threads' : ThreadIsOfItsRuns(thread)'
        /\ \A r \in Runs : ThreadIsThere(r)'
    BY <2>1, <2>7, NoThreadChanges
  <2>8. \A r \in Runs : WriterHasItsFile(r)'
    BY <2>1, <2>7, UntouchedFilesStay DEF RunsInv, NoFileTouched
  <2>4. OpeningsAreApproved'
    BY <2>1 DEF RunsInv, OpeningsAreApproved
  <2>5. \A p \in DOMAIN files : FileIsApproved(p)'
    BY <2>1, <2>7, FileStaysApproved
  <2>6. FilesAreApproved'
    BY <2>1, <2>5 DEF FilesAreApproved, FileIsApproved
  <2> QED BY <2>2, <2>3, <2>4, <2>6, <2>8 DEF RunsInv
<1> QED
  BY <1>1, ThreadStepKeeps, GateStepKeeps, OpenFileKeeps, WriteTextKeeps DEF Next

LEMMA RunsInvariant == Spec => []RunsInv
BY RunsInvInit, RunsInvNext, PTL DEF Spec

-----------------------------------------------------------------------------
\* Threads, files and the places of the runs are well typed.
THEOREM RunsTyping == Spec => []RunsTypeOK
<1>1. RunsInv => RunsTypeOK
  BY DEF RunsInv
<1> QED BY <1>1, RunsInvariant, PTL

\* Also where a route skips the node that would have replaced it, a run finds
\* no result of a run in its thread that drew other digits.
THEOREM ResultsAreOwn == Spec => []ResultsAreItsOwn
<1>1. RunsInv => ResultsAreItsOwn
  <2> SUFFICES ASSUME RunsInv, NEW r \in Runs, at[r] # "new"
               PROVE  {threads[thread_id(r)].judgment, threads[thread_id(r)].notification}
                         \subseteq Namesakes(r) \cup {None}
    BY DEF ResultsAreItsOwn
  <2>1. ThreadIsOfItsRuns(thread_id(r))
    BY DEF RunsInv, ThreadIsThere
  <2>2. RunsOf(thread_id(r)) \subseteq Namesakes(r)
    BY DEF RunsOf, Namesakes, thread_id
  <2> QED BY <2>1, <2>2 DEF ThreadIsOfItsRuns
<1> QED BY <1>1, RunsInvariant, PTL

\* Only a run of the same claim and second costs an approved run its file.
THEOREM DraftsStay == Spec => []ApprovedDraftsStay
<1>1. RunsInv => ApprovedDraftsStay
  <2> SUFFICES ASSUME RunsInv, NEW r \in Runs, at[r] = "done",
                      \A q \in Runs : ~Collide(r, q)
               PROVE  \E p \in DOMAIN files : files[p] \in Namesakes(r)
    BY DEF ApprovedDraftsStay
  <2>1. PICK second \in Seconds : FileOf(r, second)
    BY DEF RunsInv, WriterHasItsFile, Writers
  <2>2. ~Shared(r, second)
    <3>1. second \in 0..MAX_CLOCK /\ <<r, second>> \in openings
      BY <2>1, RunsAssumption DEF FileOf, Seconds
    <3> QED BY <3>1 DEF Shared, Collide
  <2> QED BY <2>1, <2>2 DEF FileOf
<1> QED BY <1>1, RunsInvariant, PTL

\* What is in data/output under the name of a claim was approved for it.
THEOREM FilesHoldApprovedDrafts == Spec => []FilesAreApproved
<1>1. RunsInv => FilesAreApproved
  BY DEF RunsInv
<1> QED BY <1>1, RunsInvariant, PTL
=============================================================================
