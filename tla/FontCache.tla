----------------------------- MODULE FontCache -----------------------------
(***************************************************************************)
(* The fonts of helpers/convert.py: ensure_fonts() returns what .ttf files *)
(* its directory holds or, if there are none, downloads and converts them  *)
(* one by one.  Processes that render diagrams share the directory, may    *)
(* run at once, and may end at any point: a download that fails, an error  *)
(* of the converter, a Ctrl-C.  Nothing marks a directory as complete.     *)
(*                                                                         *)
(* A file is written by opening it, which empties it, and then filling it. *)
(***************************************************************************)
EXTENDS Naturals

CONSTANTS
    Processes,
    WEIGHTS,     \* the number of .woff2 URLs in the stylesheet
    MAX_RUNS     \* bound on the runs of a process

ASSUME FontsAssumption == WEIGHTS \in Nat \ {0} /\ MAX_RUNS \in Nat

\* The URLs, in their sorted order; each names one .woff2 and one .ttf file.
Urls == 1..WEIGHTS

File == {"absent", "empty", "whole"}

VARIABLES
    woff2, ttf,    \* the files of FONTS_DIR, by URL
    at,            \* what each process does next; "ready" before and between runs
    url,           \* the URL it is converting
    ttf_paths,     \* the paths it has collected or found
    png,           \* the fonts its picture was rendered with
    found,         \* it found them in the cache
    runs,          \* runs begun by each process
    overlapped,    \* whether its run has met another one
    failed         \* some run ended early

files == <<woff2, ttf>>
vars == <<woff2, ttf, at, url, ttf_paths, png, found, runs, overlapped, failed>>

Step == {"glob", "stylesheet", "download", "write_woff2", "read", "open_ttf", "save", "unlink", "render"}

Running(p) == at[p] \in Step

Goto(p, step) == at' = [at EXCEPT ![p] = step]

Run(p) ==
    /\ at[p] \in {"ready", "done", "raised"} /\ runs[p] < MAX_RUNS
    /\ runs' = [runs EXCEPT ![p] = @ + 1]
    /\ ttf_paths' = [ttf_paths EXCEPT ![p] = {}]
    /\ url' = [url EXCEPT ![p] = 1]
    /\ overlapped' = [q \in Processes |->
          IF q = p THEN \E r \in Processes : Running(r) ELSE overlapped[q] \/ Running(q)]
    /\ Goto(p, "glob")
    /\ UNCHANGED <<files, png, found, failed>>

-----------------------------------------------------------------------------
\* FONTS_DIR.glob("*.ttf"): files are told by their names alone.
cached == {u \in Urls : ttf[u] # "absent"}

Glob(p) ==
    /\ at[p] = "glob"
    /\ ttf_paths' = [ttf_paths EXCEPT ![p] = cached]
    /\ found' = [found EXCEPT ![p] = cached # {}]
    /\ Goto(p, IF cached # {} THEN "render" ELSE "stylesheet")
    /\ UNCHANGED <<files, url, png, runs, overlapped, failed>>

DownloadStylesheet(p) ==
    /\ at[p] = "stylesheet"
    /\ Goto(p, "download")
    /\ UNCHANGED <<files, url, ttf_paths, png, found, runs, overlapped, failed>>

\* The download, and write_bytes opening the file.
DownloadFont(p) ==
    /\ at[p] = "download"
    /\ woff2' = [woff2 EXCEPT ![url[p]] = "empty"]
    /\ Goto(p, "write_woff2")
    /\ UNCHANGED <<ttf, url, ttf_paths, png, found, runs, overlapped, failed>>

\* The file may have been removed in between: what is filled then has no name.
WriteWoff2(p) ==
    /\ at[p] = "write_woff2"
    /\ woff2' = [woff2 EXCEPT ![url[p]] = IF @ = "absent" THEN "absent" ELSE "whole"]
    /\ Goto(p, "read")
    /\ UNCHANGED <<ttf, url, ttf_paths, png, found, runs, overlapped, failed>>

\* TTFont() reads the font into memory, and raises on a file that is none.
ReadFont(p) ==
    /\ at[p] = "read" /\ woff2[url[p]] = "whole"
    /\ Goto(p, "open_ttf")
    /\ UNCHANGED <<files, url, ttf_paths, png, found, runs, overlapped, failed>>

OpenTtf(p) ==
    /\ at[p] = "open_ttf"
    /\ ttf' = [ttf EXCEPT ![url[p]] = "empty"]
    /\ Goto(p, "save")
    /\ UNCHANGED <<woff2, url, ttf_paths, png, found, runs, overlapped, failed>>

Save(p) ==
    /\ at[p] = "save"
    /\ ttf' = [ttf EXCEPT ![url[p]] = "whole"]
    /\ Goto(p, "unlink")
    /\ UNCHANGED <<woff2, url, ttf_paths, png, found, runs, overlapped, failed>>

\* Fault: one URL too few is converted.
last_url_off_by_one(u) == u + 1 >= WEIGHTS

\* Fault: one URL too many is.
last_url_one_more(u) == u = WEIGHTS + 1

last_url(u) == u = WEIGHTS

\* Fault: unlink() has slipped out of the loop.
Unlink_after_the_loop(p) ==
    /\ at[p] = "unlink" /\ woff2[url[p]] # "absent"
    /\ woff2' = IF last_url(url[p]) THEN [woff2 EXCEPT ![url[p]] = "absent"] ELSE woff2
    /\ ttf_paths' = [ttf_paths EXCEPT ![p] = @ \cup {url[p]}]
    /\ IF last_url(url[p])
       THEN Goto(p, "render") /\ UNCHANGED url
       ELSE Goto(p, "download") /\ url' = [url EXCEPT ![p] = @ + 1]
    /\ UNCHANGED <<ttf, png, found, runs, overlapped, failed>>

\* unlink() raises if another process was faster.
Unlink(p) ==
    /\ at[p] = "unlink" /\ woff2[url[p]] # "absent"
    /\ woff2' = [woff2 EXCEPT ![url[p]] = "absent"]
    /\ ttf_paths' = [ttf_paths EXCEPT ![p] = @ \cup {url[p]}]
    /\ IF last_url(url[p])
       THEN Goto(p, "render") /\ UNCHANGED url
       ELSE Goto(p, "download") /\ url' = [url EXCEPT ![p] = @ + 1]
    /\ UNCHANGED <<ttf, png, found, runs, overlapped, failed>>

\* resvg reads the files as they are now; a font it cannot read it leaves out.
Render(p) ==
    /\ at[p] = "render"
    /\ png' = [png EXCEPT ![p] = {u \in ttf_paths[p] : ttf[u] = "whole"}]
    /\ Goto(p, "done")
    /\ UNCHANGED <<files, url, ttf_paths, found, runs, overlapped, failed>>

\* An exception or an interrupt, at any point; nothing is cleaned up.
Fail(p) ==
    /\ Running(p)
    /\ failed' = TRUE
    /\ Goto(p, "raised")
    /\ UNCHANGED <<files, url, ttf_paths, png, found, runs, overlapped>>

-----------------------------------------------------------------------------
Init ==
    /\ woff2 = [u \in Urls |-> "absent"] /\ ttf = [u \in Urls |-> "absent"]
    /\ at = [p \in Processes |-> "ready"]
    /\ url = [p \in Processes |-> 1]
    /\ ttf_paths = [p \in Processes |-> {}]
    /\ png = [p \in Processes |-> {}]
    /\ found = [p \in Processes |-> FALSE]
    /\ runs = [p \in Processes |-> 0]
    /\ overlapped = [p \in Processes |-> FALSE]
    /\ failed = FALSE

Next ==
    \E p \in Processes :
        \/ Run(p) \/ Glob(p)
        \/ DownloadStylesheet(p) \/ DownloadFont(p) \/ WriteWoff2(p)
        \/ ReadFont(p) \/ OpenTtf(p) \/ Save(p) \/ Unlink(p)
        \/ Render(p)
        \/ Fail(p)

Spec == Init /\ [][Next]_vars

-----------------------------------------------------------------------------
FontsTypeOK ==
    /\ woff2 \in [Urls -> File] /\ ttf \in [Urls -> File]
    /\ at \in [Processes -> Step \cup {"ready", "done", "raised"}]
    /\ url \in [Processes -> Urls]
    /\ ttf_paths \in [Processes -> SUBSET Urls] /\ png \in [Processes -> SUBSET Urls]
    /\ found \in [Processes -> BOOLEAN]
    /\ runs \in [Processes -> 0..MAX_RUNS]
    /\ overlapped \in [Processes -> BOOLEAN]
    /\ failed \in BOOLEAN

\* However runs overlap, if none of them was cut short then what they leave,
\* once all have ended, is every weight, whole, and no download beside it: the
\* later runs that trust the cache render with all the fonts (convert.py:47-71).
QuietCacheIsWhole ==
    ~failed /\ (\A p \in Processes : ~Running(p)) /\ (\E p \in Processes : runs[p] > 0) =>
        \A u \in Urls : ttf[u] = "whole" /\ woff2[u] = "absent"

\* A run that meets no other one renders with every font: if it converts them
\* itself, whatever a run that died before its first .ttf left behind; if it
\* finds them, unless a run that died left them incomplete, which nothing
\* tells (convert.py:47-71, 85-92).
LoneRunsHaveEveryFont ==
    \A p \in Processes :
        at[p] = "done" /\ ~overlapped[p] /\ (found[p] => ~failed) => png[p] = Urls
=============================================================================
