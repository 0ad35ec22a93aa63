-------------------------- MODULE FontCacheProofs --------------------------
(***************************************************************************)
(* What the font cache holds and a picture is rendered with, for every     *)
(* number of processes, weights and runs.                                  *)
(***************************************************************************)
EXTENDS FontCache, TLAPS

\* The steps of a conversion, those at which its process has a .woff2 file
\* that nobody else need remove, and those at which the .ttf file is there.
Loop     == {"download", "write_woff2", "read", "open_ttf", "save", "unlink"}
Handling == Loop \ {"download"}
Named    == {"save", "unlink"}

Handles(p, u) == at[p] \in Handling /\ url[p] = u

\* What a conversion has behind it is there, whoever else is at work.
Progress(p) ==
    /\ runs[p] > 0 => at[p] # "ready"
    /\ at[p] = "raised" => failed
    /\ at[p] \in Loop =>
          \A u \in Urls : (u < url[p] \/ (u = url[p] /\ at[p] \in Named)) => u \in cached
    /\ at[p] \in {"render", "done"} => cached # {}

\* As long as no run was cut short, somebody will finish what is unfinished.
WorkIsInHand ==
    ~failed =>
        /\ \A u \in Urls : ttf[u] = "empty" => \E p \in Processes : at[p] = "save" /\ url[p] = u
        /\ \A u \in Urls : woff2[u] # "absent" => \E p \in Processes : Handles(p, u)
        /\ cached \in {{}, Urls} \/ \E p \in Processes : at[p] \in Loop

\* A run that meets no other.
Lone(p) == ~overlapped[p] /\ (found[p] => ~failed)

\* What it converted is whole, and what it found is everything.
LoneProgress(p) ==
    /\ at[p] \in {"glob", "stylesheet"} => url[p] = 1 /\ ttf_paths[p] = {}
    /\ at[p] \in Loop \cup {"stylesheet"} => ~found[p]
    /\ Running(p) /\ ~overlapped[p] => \A q \in Processes \ {p} : ~Running(q)
    /\ at[p] \in Loop /\ ~overlapped[p] =>
          /\ ttf_paths[p] = 1..(url[p] - 1)
          /\ \A u \in Urls : (u < url[p] \/ (u = url[p] /\ at[p] = "unlink")) => ttf[u] = "whole"
    /\ at[p] = "render" /\ Lone(p) => ttf_paths[p] = Urls /\ \A u \in Urls : ttf[u] = "whole"
    /\ at[p] = "done" /\ Lone(p) => png[p] = Urls

FontsInv ==
    /\ FontsTypeOK /\ WorkIsInHand
    /\ \A p \in Processes : Progress(p) /\ LoneProgress(p)

LEMMA FontsInvInit == Init => FontsInv
<1> SUFFICES ASSUME Init PROVE FontsInv
  OBVIOUS
<1>1. 1 \in Urls /\ 0 \in 0..MAX_RUNS
  BY FontsAssumption DEF Urls
<1>2. FontsTypeOK
  BY <1>1 DEF Init, FontsTypeOK, File
<1>3. cached = {}
  BY DEF Init, cached
<1>4. WorkIsInHand
  BY <1>3 DEF Init, WorkIsInHand
<1>5. ASSUME NEW p \in Processes PROVE Progress(p) /\ LoneProgress(p)
  BY DEF Init, Progress, LoneProgress, Loop, Running, Step
<1> QED
  BY <1>2, <1>4, <1>5 DEF FontsInv

-----------------------------------------------------------------------------
\* One step of one process.
Act(p) ==
    \/ Run(p) \/ Glob(p) \/ DownloadStylesheet(p) \/ DownloadFont(p) \/ WriteWoff2(p)
    \/ ReadFont(p) \/ OpenTtf(p) \/ Save(p) \/ Unlink(p) \/ Render(p) \/ Fail(p)

LEMMA FontsTyping == FontsTypeOK /\ [Next]_vars => FontsTypeOK'
<1> SUFFICES ASSUME FontsTypeOK, [Next]_vars PROVE FontsTypeOK'
  OBVIOUS
<1> USE DEF FontsTypeOK, Goto, Step
<1>1. ASSUME NEW p \in Processes, Run(p) PROVE FontsTypeOK'
  <2>1. runs' \in [Processes -> 0..MAX_RUNS]
    <3>1. /\ runs \in [Processes -> 0..MAX_RUNS] /\ runs[p] < MAX_RUNS
          /\ runs' = [runs EXCEPT ![p] = runs[p] + 1]
      BY <1>1 DEF Run
    <3> QED
      BY <3>1, FontsAssumption
  <2>2. 1 \in Urls
    BY FontsAssumption DEF Urls
  <2>3. overlapped' \in [Processes -> BOOLEAN]
    BY <1>1 DEF Run, Running
  <2> QED
    BY <1>1, <2>1, <2>2, <2>3 DEF Run, files
<1>2. ASSUME NEW p \in Processes, Glob(p) PROVE FontsTypeOK'
  BY <1>2 DEF Glob, cached, files
<1>3. ASSUME NEW p \in Processes, DownloadStylesheet(p) PROVE FontsTypeOK'
  BY <1>3 DEF DownloadStylesheet, files
<1>4. ASSUME NEW p \in Processes, DownloadFont(p) PROVE FontsTypeOK'
  BY <1>4 DEF DownloadFont, File
<1>5. ASSUME NEW p \in Processes, WriteWoff2(p) PROVE FontsTypeOK'
  BY <1>5 DEF WriteWoff2, File
<1>6. ASSUME NEW p \in Processes, ReadFont(p) PROVE FontsTypeOK'
  BY <1>6 DEF ReadFont, files
<1>7. ASSUME NEW p \in Processes, OpenTtf(p) PROVE FontsTypeOK'
  BY <1>7 DEF OpenTtf, File
<1>8. ASSUME NEW p \in Processes, Save(p) PROVE FontsTypeOK'
  BY <1>8 DEF Save, File
<1>9. ASSUME NEW p \in Processes, Unlink(p) PROVE FontsTypeOK'
  <2>1. url' \in [Processes -> Urls]
    <3>1. CASE last_url(url[p])
      BY <1>9, <3>1 DEF Unlink
    <3>2. CASE ~last_url(url[p])
      <4>1. url[p] + 1 \in Urls
        BY <3>2, FontsAssumption DEF last_url, Urls
      <4> QED
        BY <1>9, <3>2, <4>1 DEF Unlink
    <3> QED
      BY <3>1, <3>2
  <2>2. at' \in [Processes -> Step \cup {"ready", "done", "raised"}]
    BY <1>9 DEF Unlink
  <2>3. woff2' \in [Urls -> File] /\ ttf_paths' \in [Processes -> SUBSET Urls]
    BY <1>9 DEF Unlink, File
  <2> QED
    BY <1>9, <2>1, <2>2, <2>3 DEF Unlink
<1>10. ASSUME NEW p \in Processes, Render(p) PROVE FontsTypeOK'
  BY <1>10 DEF Render, files
<1>11. ASSUME NEW p \in Processes, Fail(p) PROVE FontsTypeOK'
  BY <1>11 DEF Fail, files
<1>12. CASE UNCHANGED vars
  BY <1>12 DEF vars, files
<1> QED
  BY <1>1, <1>2, <1>3, <1>4, <1>5, <1>6, <1>7, <1>8, <1>9, <1>10, <1>11, <1>12 DEF Next

\* Every state of the directory and its processes is well typed (FontsTypeOK).
THEOREM FontCacheTyping == Spec => []FontsTypeOK
<1>1. Init => FontsTypeOK
  BY FontsInvInit DEF FontsInv
<1> QED
  BY <1>1, FontsTyping, PTL DEF Spec

-----------------------------------------------------------------------------
\* A .ttf file is never removed.
LEMMA CachedGrows ==
    ASSUME FontsTypeOK, NEW e \in Processes, Act(e)
    PROVE  cached \subseteq cached'
<1>1. CASE UNCHANGED ttf
  BY <1>1 DEF cached
<1>2. CASE OpenTtf(e) \/ Save(e)
  BY <1>2 DEF OpenTtf, Save, cached, FontsTypeOK
<1> QED
  BY <1>1, <1>2 DEF Act, Run, Glob, DownloadStylesheet, DownloadFont, WriteWoff2, ReadFont,
     Unlink, Render, Fail, files

\* What a step of e leaves of another process, and of the files it relies on.
LEMMA OthersStand ==
    ASSUME FontsTypeOK, NEW e \in Processes, Act(e), NEW p \in Processes \ {e}
    PROVE  /\ at'[p] = at[p] /\ url'[p] = url[p] /\ ttf_paths'[p] = ttf_paths[p]
           /\ png'[p] = png[p] /\ found'[p] = found[p] /\ runs'[p] = runs[p]
           /\ overlapped[p] => overlapped'[p]
           /\ Running(p) /\ ~overlapped'[p] => Running(e) \/ ~Running(e)'
           /\ ~Running(e) => UNCHANGED ttf
           /\ failed => failed'
<1> USE DEF FontsTypeOK, Goto, Running
<1>1. CASE Run(e)
  BY <1>1 DEF Run, files
<1>2. CASE Glob(e) \/ DownloadStylesheet(e) \/ DownloadFont(e) \/ WriteWoff2(e) \/ ReadFont(e)
  BY <1>2 DEF Glob, DownloadStylesheet, DownloadFont, WriteWoff2, ReadFont, files, Step
<1>3. CASE OpenTtf(e) \/ Save(e)
  BY <1>3 DEF OpenTtf, Save, Step
<1>4. CASE Unlink(e)
  BY <1>4 DEF Unlink, Step
<1>5. CASE Render(e) \/ Fail(e)
  BY <1>5 DEF Render, Fail, files, Step
<1> QED
  BY <1>1, <1>2, <1>3, <1>4, <1>5 DEF Act

LEMMA OthersProgress ==
    ASSUME FontsInv, NEW e \in Processes, Act(e), NEW p \in Processes \ {e}
    PROVE  Progress(p)' /\ LoneProgress(p)'
<1>1. FontsTypeOK /\ Progress(p) /\ LoneProgress(p)
  BY DEF FontsInv
<1>2. /\ at'[p] = at[p] /\ url'[p] = url[p] /\ ttf_paths'[p] = ttf_paths[p]
      /\ png'[p] = png[p] /\ found'[p] = found[p] /\ runs'[p] = runs[p]
      /\ overlapped[p] => overlapped'[p]
      /\ Running(p) /\ ~overlapped'[p] => Running(e) \/ ~Running(e)'
      /\ ~Running(e) => UNCHANGED ttf
      /\ failed => failed'
  BY <1>1, OthersStand
<1>3. \A q \in Processes \ {e, p} : Running(q)' = Running(q)
  BY <1>1, OthersStand DEF Running
<1>4. Progress(p)'
  BY <1>1, <1>2, CachedGrows DEF Progress
<1>5. Running(p)' = Running(p)
  BY <1>2 DEF Running
<1>6. Running(p) /\ ~overlapped'[p] => ~Running(e) /\ ~Running(e)'
  BY <1>1, <1>2 DEF LoneProgress
<1>7. Running(p) /\ ~overlapped'[p] => UNCHANGED ttf
  BY <1>2, <1>6
<1>8. at[p] \in Loop \cup {"render"} => Running(p)
  BY DEF Running, Loop, Step
<1>9. LoneProgress(p)'
  BY <1>1, <1>2, <1>3, <1>5, <1>6, <1>7, <1>8 DEF LoneProgress, Lone
<1> QED
  BY <1>4, <1>9

-----------------------------------------------------------------------------
\* A process that is converting nothing leaves the work in the hands it is in.
LEMMA BystanderLeavesWork ==
    ASSUME FontsTypeOK, WorkIsInHand, NEW e \in Processes, at[e] \notin Loop,
           UNCHANGED <<files, failed>>,
           \A p \in Processes \ {e} : at'[p] = at[p] /\ url'[p] = url[p]
    PROVE  WorkIsInHand'
<1>1. cached' = cached /\ ttf' = ttf /\ woff2' = woff2 /\ failed' = failed
  BY DEF cached, files
<1>2. \A p \in Processes, u \in Urls : Handles(p, u) => Handles(p, u)'
  BY DEF Handles, Handling
<1>3. \A p \in Processes, u \in Urls : at[p] = "save" /\ url[p] = u => at'[p] = "save" /\ url'[p] = u
  BY DEF Loop
<1>4. (\E p \in Processes : at[p] \in Loop) => \E p \in Processes : at'[p] \in Loop
  BY DEF Loop
<1> QED
  BY <1>1, <1>2, <1>3, <1>4 DEF WorkIsInHand

LEMMA RunKeeps ==
    ASSUME FontsInv, NEW e \in Processes, Run(e)
    PROVE  WorkIsInHand' /\ Progress(e)' /\ LoneProgress(e)'
<1>1. /\ at[e] \in {"ready", "done", "raised"} /\ UNCHANGED <<files, png, found, failed>>
      /\ at'[e] = "glob" /\ url'[e] = 1 /\ ttf_paths'[e] = {}
      /\ overlapped'[e] <=> \E r \in Processes : Running(r)
      /\ \A p \in Processes \ {e} : at'[p] = at[p] /\ url'[p] = url[p]
  BY DEF FontsInv, FontsTypeOK, Run, Goto
<1>2. WorkIsInHand'
  BY <1>1, BystanderLeavesWork DEF FontsInv, Loop
<1>3. Progress(e)'
  BY <1>1 DEF Progress, Loop
<1>4. ~overlapped'[e] => \A q \in Processes \ {e} : ~Running(q)'
  BY <1>1 DEF Running
<1>5. LoneProgress(e)'
  BY <1>1, <1>4 DEF LoneProgress, Loop
<1> QED
  BY <1>2, <1>3, <1>5

\* A lone run that finds fonts, after none was cut short, finds all of them.
LEMMA GlobKeeps ==
    ASSUME FontsInv, NEW e \in Processes, Glob(e)
    PROVE  WorkIsInHand' /\ Progress(e)' /\ LoneProgress(e)'
<1>1. /\ at[e] = "glob" /\ UNCHANGED <<files, url, png, runs, overlapped, failed>>
      /\ ttf_paths'[e] = cached /\ found'[e] = (cached # {})
      /\ at'[e] = IF cached # {} THEN "render" ELSE "stylesheet"
      /\ \A p \in Processes \ {e} : at'[p] = at[p]
  BY DEF FontsInv, FontsTypeOK, Glob, Goto
<1>2. WorkIsInHand'
  BY <1>1, BystanderLeavesWork DEF FontsInv, Loop
<1>3. cached' = cached /\ ttf' = ttf
  BY <1>1 DEF cached, files
<1>4. Progress(e)'
  BY <1>1, <1>3 DEF FontsInv, Progress, Loop
<1>5. ~overlapped[e] => \A q \in Processes \ {e} : ~Running(q) /\ ~Running(q)'
  BY <1>1 DEF FontsInv, LoneProgress, Running, Step
<1>6. ASSUME ~overlapped[e], ~failed, cached # {}
      PROVE  cached = Urls /\ \A u \in Urls : ttf[u] = "whole"
  <2>1. \A p \in Processes : at[p] \notin Loop
    BY <1>1, <1>5, <1>6 DEF Loop, Running, Step
  <2>2. cached = Urls
    BY <1>6, <2>1 DEF FontsInv, WorkIsInHand
  <2>3. \A u \in Urls : ttf[u] # "empty"
    BY <1>6, <2>1 DEF FontsInv, WorkIsInHand, Loop
  <2>4. \A u \in Urls : ttf[u] \in {"empty", "whole"}
    BY <2>2 DEF cached, FontsInv, FontsTypeOK, File
  <2> QED
    BY <2>2, <2>3, <2>4
<1>7. at'[e] \in {"glob", "stylesheet"} => url'[e] = 1 /\ ttf_paths'[e] = {}
  BY <1>1 DEF FontsInv, LoneProgress
<1>8. LoneProgress(e)'
  BY <1>1, <1>3, <1>5, <1>6, <1>7 DEF LoneProgress, Lone, Loop
<1> QED
  BY <1>2, <1>4, <1>8

LEMMA StylesheetKeeps ==
    ASSUME FontsInv, NEW e \in Processes, DownloadStylesheet(e)
    PROVE  WorkIsInHand' /\ Progress(e)' /\ LoneProgress(e)'
<1>1. /\ at[e] = "stylesheet" /\ at'[e] = "download"
      /\ UNCHANGED <<files, url, ttf_paths, png, found, runs, overlapped, failed>>
      /\ \A p \in Processes \ {e} : at'[p] = at[p]
  BY DEF FontsInv, FontsTypeOK, DownloadStylesheet, Goto
<1>2. WorkIsInHand'
  BY <1>1, BystanderLeavesWork DEF FontsInv, Loop
<1>3. url[e] = 1 /\ ttf_paths[e] = {} /\ ~found[e] /\ \A u \in Urls : ~(u < 1)
  BY <1>1, FontsAssumption DEF FontsInv, LoneProgress, Urls
<1>4. Progress(e)'
  BY <1>1, <1>3 DEF FontsInv, Progress, Named
<1>5. ~overlapped[e] => \A q \in Processes \ {e} : ~Running(q)'
  BY <1>1 DEF FontsInv, LoneProgress, Running, Step
<1>6. ttf_paths'[e] = 1..(url'[e] - 1)
  BY <1>1, <1>3
<1>7. LoneProgress(e)'
  BY <1>1, <1>3, <1>5, <1>6 DEF LoneProgress, Loop
<1> QED
  BY <1>2, <1>4, <1>7

\* Inside the loop a step that moves on within a URL, and may fill a file, is
\* all the same to the others.
LEMMA ConvertKeeps ==
    ASSUME FontsInv, NEW e \in Processes,
           DownloadFont(e) \/ WriteWoff2(e) \/ ReadFont(e) \/ OpenTtf(e) \/ Save(e)
    PROVE  WorkIsInHand' /\ Progress(e)' /\ LoneProgress(e)'
<1> DEFINE u == url[e]
<1>1. /\ UNCHANGED <<url, ttf_paths, png, found, runs, overlapped, failed>>
      /\ \A p \in Processes \ {e} : at'[p] = at[p]
      /\ at[e] \in Loop /\ u \in Urls
      /\ at'[e] \in Handling
  BY DEF FontsInv, FontsTypeOK, DownloadFont, WriteWoff2, ReadFont, OpenTtf, Save, Goto, Loop,
     Handling
<1>2. /\ \A v \in Urls : v # u => ttf'[v] = ttf[v] /\ woff2'[v] = woff2[v]
      /\ \/ at'[e] \in {"write_woff2", "read", "open_ttf"} /\ ttf'[u] = ttf[u]
         \/ at'[e] = "save" /\ ttf'[u] = "empty"
         \/ at'[e] = "unlink" /\ ttf'[u] = "whole"
  BY DEF FontsInv, FontsTypeOK, DownloadFont, WriteWoff2, ReadFont, OpenTtf, Save, Goto, files
<1>3. at[e] = "save" => at'[e] = "unlink"
  BY DEF FontsInv, FontsTypeOK, DownloadFont, WriteWoff2, ReadFont, OpenTtf, Save, Goto
<1>4. cached \subseteq cached' /\ (at'[e] \in Named => u \in cached')
  <2>1. cached \subseteq cached'
    BY CachedGrows DEF FontsInv, Act
  <2> QED
    BY <1>1, <1>2, <2>1 DEF cached, Named
<1>5. WorkIsInHand'
  <2> SUFFICES ASSUME ~failed PROVE WorkIsInHand'
    BY <1>1 DEF WorkIsInHand
  <2>1. ASSUME NEW v \in Urls, ttf'[v] = "empty"
        PROVE  \E p \in Processes : at'[p] = "save" /\ url'[p] = v
    <3>1. CASE v = u /\ at'[e] = "save"
      BY <1>1, <3>1
    <3>2. CASE v # u \/ ttf'[v] = ttf[v]
      <4>1. PICK p \in Processes : at[p] = "save" /\ url[p] = v
        BY <1>2, <2>1, <3>2 DEF FontsInv, WorkIsInHand
      <4>2. p # e
        BY <1>2, <1>3, <2>1, <3>2, <4>1
      <4> QED
        BY <1>1, <4>1, <4>2
    <3> QED
      BY <1>2, <2>1, <3>1, <3>2
  <2>2. ASSUME NEW v \in Urls, woff2'[v] # "absent"
        PROVE  \E p \in Processes : Handles(p, v)'
    <3>1. CASE v = u
      BY <1>1, <3>1 DEF Handles
    <3>2. CASE v # u
      <4>1. PICK p \in Processes : Handles(p, v)
        BY <1>2, <2>2, <3>2 DEF FontsInv, WorkIsInHand
      <4> QED
        BY <1>1, <3>2, <4>1 DEF Handles
    <3> QED
      BY <3>1, <3>2
  <2>3. \E p \in Processes : at'[p] \in Loop
    BY <1>1 DEF Handling
  <2> QED
    BY <2>1, <2>2, <2>3 DEF WorkIsInHand
<1>6. Progress(e)'
  BY <1>1, <1>2, <1>4 DEF FontsInv, Progress, Loop, Handling, Named
<1>7. Running(e) /\ Running(e)' /\ at'[e] \in Loop /\ at'[e] # "download"
  BY <1>1 DEF Running, Loop, Handling, Step
<1>8. ~overlapped[e] => \A q \in Processes \ {e} : ~Running(q)'
  BY <1>1, <1>7 DEF FontsInv, LoneProgress, Running
<1>9. ASSUME ~overlapped[e], NEW v \in Urls, v < u \/ (v = u /\ at'[e] = "unlink")
      PROVE  ttf'[v] = "whole"
  <2>1. CASE v < u
    <3>1. v # u
      BY <1>1, <2>1 DEF Urls
    <3> QED
      BY <1>1, <1>2, <1>9, <2>1, <3>1 DEF FontsInv, LoneProgress
  <2>2. CASE v = u /\ at'[e] = "unlink"
    BY <1>2, <2>2
  <2> QED
    BY <1>9, <2>1, <2>2
<1>10. LoneProgress(e)'
  BY <1>1, <1>7, <1>8, <1>9 DEF FontsInv, LoneProgress, Loop, Handling
<1> QED
  BY <1>5, <1>6, <1>10

\* unlink() ends the work on a URL, and after the last one all are there.
LEMMA UnlinkKeeps ==
    ASSUME FontsInv, NEW e \in Processes, Unlink(e)
    PROVE  WorkIsInHand' /\ Progress(e)' /\ LoneProgress(e)'
<1> DEFINE u == url[e]
<1>1. /\ at[e] = "unlink" /\ u \in Urls
      /\ UNCHANGED <<ttf, png, found, runs, overlapped, failed>>
      /\ \A p \in Processes \ {e} : at'[p] = at[p] /\ url'[p] = url[p]
      /\ woff2' = [woff2 EXCEPT ![u] = "absent"]
      /\ ttf_paths'[e] = ttf_paths[e] \cup {u}
  BY DEF FontsInv, FontsTypeOK, Unlink, Goto
<1>2. \/ u = WEIGHTS /\ at'[e] = "render" /\ url'[e] = u
      \/ u # WEIGHTS /\ at'[e] = "download" /\ url'[e] = u + 1
  BY DEF FontsInv, FontsTypeOK, Unlink, Goto, last_url
<1>3. cached' = cached
  BY <1>1 DEF cached
<1>4. \A v \in Urls : v < u \/ v = u => v \in cached
  BY <1>1 DEF FontsInv, Progress, Loop, Named
<1>5. u = WEIGHTS => cached = Urls
  <2>1. u = WEIGHTS => \A v \in Urls : v < u \/ v = u
    BY FontsAssumption DEF Urls
  <2> QED
    BY <1>4, <2>1 DEF cached
<1>6. WorkIsInHand'
  <2> SUFFICES ASSUME ~failed PROVE WorkIsInHand'
    BY <1>1 DEF WorkIsInHand
  <2>1. ASSUME NEW v \in Urls, ttf'[v] = "empty"
        PROVE  \E p \in Processes : at'[p] = "save" /\ url'[p] = v
    BY <1>1, <2>1 DEF FontsInv, WorkIsInHand
  <2>2. ASSUME NEW v \in Urls, woff2'[v] # "absent"
        PROVE  \E p \in Processes : Handles(p, v)'
    <3>1. v # u /\ woff2[v] # "absent"
      BY <1>1, <2>2 DEF FontsInv, FontsTypeOK
    <3>2. PICK p \in Processes : Handles(p, v)
      BY <3>1 DEF FontsInv, WorkIsInHand
    <3> QED
      BY <1>1, <3>1, <3>2 DEF Handles
  <2>3. cached' = Urls \/ \E p \in Processes : at'[p] \in Loop
    BY <1>2, <1>3, <1>5 DEF Loop
  <2> QED
    BY <2>1, <2>2, <2>3 DEF WorkIsInHand
<1>7. Progress(e)'
  <2>1. ASSUME NEW v \in Urls, v < u + 1 PROVE v \in cached
    BY <1>1, <1>4, <2>1 DEF Urls
  <2>2. cached # {}
    BY <1>1, <1>4
  <2> QED
    BY <1>1, <1>2, <1>3, <2>1, <2>2 DEF FontsInv, Progress, Loop, Named
<1>8. Running(e) /\ (at'[e] \in Loop \cup {"render"})
  BY <1>1, <1>2 DEF Running, Loop, Step
<1>9. ~overlapped[e] => \A q \in Processes \ {e} : ~Running(q)'
  BY <1>1, <1>8 DEF FontsInv, LoneProgress, Running
<1>10. ASSUME ~overlapped[e]
       PROVE  /\ ttf_paths'[e] = 1..u
              /\ \A v \in Urls : v < u + 1 => ttf[v] = "whole"
  <2>1. /\ ttf_paths[e] = 1..(u - 1)
        /\ \A v \in Urls : v < u \/ v = u => ttf[v] = "whole"
    BY <1>1, <1>10 DEF FontsInv, LoneProgress, Loop
  <2>2. (1..(u - 1)) \cup {u} = 1..u
    BY <1>1 DEF Urls
  <2>3. \A v \in Urls : v < u + 1 => v < u \/ v = u
    BY <1>1 DEF Urls
  <2> QED
    BY <1>1, <2>1, <2>2, <2>3
<1>11. ~found[e]
  BY <1>1 DEF FontsInv, LoneProgress, Loop
<1>12. LoneProgress(e)'
  <2>1. CASE u = WEIGHTS
    <3>1. \A v \in Urls : v < u + 1
      BY <2>1, FontsAssumption DEF Urls
    <3> QED
      BY <1>1, <1>2, <1>9, <1>10, <2>1, <3>1 DEF LoneProgress, Lone, Loop, Urls
  <2>2. CASE u # WEIGHTS
    <3>1. (u + 1) - 1 = u /\ \A v \in Urls : ~(v = u + 1 /\ at'[e] = "unlink")
      BY <1>1, <1>2, <2>2 DEF Urls
    <3> QED
      BY <1>1, <1>2, <1>9, <1>10, <1>11, <2>2, <3>1 DEF LoneProgress, Loop
  <2> QED
    BY <2>1, <2>2
<1> QED
  BY <1>6, <1>7, <1>12

LEMMA RenderKeeps ==
    ASSUME FontsInv, NEW e \in Processes, Render(e)
    PROVE  WorkIsInHand' /\ Progress(e)' /\ LoneProgress(e)'
<1>1. /\ at[e] = "render" /\ at'[e] = "done"
      /\ png'[e] = {u \in ttf_paths[e] : ttf[u] = "whole"}
      /\ UNCHANGED <<files, url, ttf_paths, found, runs, overlapped, failed>>
      /\ \A p \in Processes \ {e} : at'[p] = at[p]
  BY DEF FontsInv, FontsTypeOK, Render, Goto
<1>2. WorkIsInHand'
  BY <1>1, BystanderLeavesWork DEF FontsInv, Loop
<1>3. cached' = cached
  BY <1>1 DEF cached, files
<1>4. Progress(e)'
  BY <1>1, <1>3 DEF FontsInv, Progress, Loop
<1>5. Lone(e) => png'[e] = Urls
  BY <1>1 DEF FontsInv, LoneProgress
<1>6. LoneProgress(e)'
  BY <1>1, <1>5 DEF LoneProgress, Lone, Loop, Running, Step
<1> QED
  BY <1>2, <1>4, <1>6

LEMMA FailKeeps ==
    ASSUME FontsInv, NEW e \in Processes, Fail(e)
    PROVE  WorkIsInHand' /\ Progress(e)' /\ LoneProgress(e)'
<1>1. at'[e] = "raised" /\ failed' = TRUE /\ runs' = runs
  BY DEF FontsInv, FontsTypeOK, Fail, Goto
<1> QED
  BY <1>1 DEF WorkIsInHand, Progress, LoneProgress, Loop, Running, Step

LEMMA FontsInvNext == FontsInv /\ [Next]_vars => FontsInv'
<1> SUFFICES ASSUME FontsInv, [Next]_vars PROVE FontsInv'
  OBVIOUS
<1>t. FontsTypeOK'
  BY FontsTyping DEF FontsInv
<1>1. ASSUME NEW e \in Processes, Act(e) PROVE FontsInv'
  <2>1. WorkIsInHand' /\ Progress(e)' /\ LoneProgress(e)'
    BY <1>1, RunKeeps, GlobKeeps, StylesheetKeeps, ConvertKeeps, UnlinkKeeps, RenderKeeps,
       FailKeeps DEF Act
  <2>2. \A p \in Processes \ {e} : Progress(p)' /\ LoneProgress(p)'
    BY <1>1, OthersProgress
  <2> QED
    BY <1>t, <2>1, <2>2 DEF FontsInv
<1>2. CASE UNCHANGED vars
  BY <1>t, <1>2 DEF FontsInv, vars, files, WorkIsInHand, Progress, LoneProgress, Handles,
     Lone, Running, cached
<1> QED
  BY <1>1, <1>2 DEF Next, Act

LEMMA FontsInvHolds == Spec => []FontsInv
BY FontsInvInit, FontsInvNext, PTL DEF Spec

-----------------------------------------------------------------------------
\* However runs overlap, if none was cut short then what they leave, once all
\* have ended, is every weight, whole, and no download beside it
\* (QuietCacheIsWhole).
THEOREM QuietMeansWhole == Spec => []QuietCacheIsWhole
<1>1. ASSUME FontsInv, ~failed, \A p \in Processes : ~Running(p),
             \E p \in Processes : runs[p] > 0, NEW u \in Urls
      PROVE  ttf[u] = "whole" /\ woff2[u] = "absent"
  <2>1. \A p \in Processes : at[p] \notin Loop
    BY <1>1 DEF Running, Loop, Step
  <2>2. PICK p \in Processes : runs[p] > 0
    BY <1>1
  <2>3. at[p] = "done"
    BY <1>1, <2>2 DEF FontsInv, FontsTypeOK, Progress, Running
  <2>4. cached = Urls
    BY <1>1, <2>1, <2>3 DEF FontsInv, Progress, WorkIsInHand
  <2>5. ttf[u] # "absent" /\ ttf[u] # "empty"
    BY <1>1, <2>1, <2>4 DEF FontsInv, WorkIsInHand, Loop, cached
  <2>6. woff2[u] = "absent"
    BY <1>1, <2>1 DEF FontsInv, WorkIsInHand, Handles, Handling
  <2> QED
    BY <1>1, <2>5, <2>6 DEF FontsInv, FontsTypeOK, File
<1>2. FontsInv => QuietCacheIsWhole
  BY <1>1 DEF QuietCacheIsWhole
<1> QED
  BY <1>2, FontsInvHolds, PTL

\* A run that meets no other renders with every font, unless it found what a
\* run that died had left incomplete (LoneRunsHaveEveryFont).
THEOREM LoneRunsRenderWhole == Spec => []LoneRunsHaveEveryFont
<1>1. FontsInv => LoneRunsHaveEveryFont
  BY DEF FontsInv, LoneProgress, Lone, LoneRunsHaveEveryFont
<1> QED
  BY <1>1, FontsInvHolds, PTL
=============================================================================
