------------------------------ MODULE CollectJob ------------------------------
(***************************************************************************)
(* collect_job.py: parse walks the lines of a fetched log, main writes the *)
(* CSVs and last window.env.  The collector knows nothing of the pod but   *)
(* the lines; the modules meet in BenchJob.                                *)
(***************************************************************************)
EXTENDS InPod, SequencesExt

VARIABLES
    collector,  \* where it is: idle, parsing, writing, failed or done
    lines,      \* job.log
    at,         \* the line it is at
    name,       \* the blob it is inside of, 0 for none
    want,       \* what that blob's BEGIN declares
    body,       \* the lines of that blob so far
    marks,      \* the window markers found
    blobs,      \* the decoded CSVs
    all_done,
    left,       \* the CSVs it has still to write
    files,      \* the CSVs in the results directory
    window      \* window.env there, <<>> if there is none

parseVars == <<name, want, body, marks, blobs, all_done>>
outVars == <<files, window>>
collectVars == <<collector, lines, at, left, parseVars, outVars>>

CollectInit ==
    /\ collector = "idle" /\ lines = <<>> /\ at = 1 /\ left = {}
    /\ name = 0 /\ want = <<>> /\ body = <<>>
    /\ marks = <<>> /\ blobs = <<>> /\ all_done = FALSE
    /\ files = <<>> /\ window = <<>>

\* python3 collect_job.py --log job.log, of these lines.
Collect(log_lines) ==
    /\ collector' = "parsing" /\ lines' = log_lines /\ at' = 1
    /\ name' = 0 /\ want' = <<>> /\ body' = <<>>
    /\ marks' = <<>> /\ blobs' = <<>> /\ all_done' = FALSE
    /\ UNCHANGED <<left, outVars>>

With(f, k, v) == [x \in DOMAIN f \union {k} |-> IF x = k THEN v ELSE f[x]]

\* _decode succeeds: base64, gzip, size and checksum.
Decoded(found, declared) == found = declared

Line == lines[at]
MoreLines == at <= Len(lines)

ReadBegin ==
    /\ name = 0 /\ Line.kind = "BEGIN"
    /\ name' = Line.of /\ want' = Line.value /\ body' = <<>>
    /\ UNCHANGED <<marks, blobs, all_done>>

ReadMark ==
    /\ name = 0 /\ Line.kind \in Marks
    /\ marks' = With(marks, Line.kind, Line.value[1])
    /\ UNCHANGED <<name, want, body, blobs, all_done>>

ReadAllDone ==
    /\ name = 0 /\ Line.kind = "ALL_DONE"
    /\ all_done' = TRUE
    /\ UNCHANGED <<name, want, body, marks, blobs>>

ReadOther ==
    /\ name = 0 /\ Line.kind \notin Marks \union {"BEGIN", "ALL_DONE"}
    /\ UNCHANGED parseVars

\* Inside a blob only END is not part of it.
ReadBody ==
    /\ name # 0 /\ Line.kind # "END"
    /\ body' = Append(body, Line)
    /\ UNCHANGED <<name, want, marks, blobs, all_done>>

ReadEnd ==
    /\ name # 0 /\ Line.kind = "END"
    /\ Line.of = name /\ Decoded(body, want)
    /\ blobs' = With(blobs, name, body)
    /\ name' = 0
    /\ UNCHANGED <<want, body, marks, all_done>>

Read ==
    /\ collector = "parsing" /\ MoreLines
    /\ ReadBegin \/ ReadMark \/ ReadAllDone \/ ReadOther \/ ReadBody \/ ReadEnd
    /\ at' = at + 1
    /\ UNCHANGED <<collector, lines, left, outVars>>

\* CollectError: END of another blob, or one that does not decode.
ReadRaises ==
    /\ collector = "parsing" /\ MoreLines
    /\ name # 0 /\ Line.kind = "END"
    /\ ~(Line.of = name /\ Decoded(body, want))
    /\ collector' = "failed"
    /\ UNCHANGED <<lines, at, left, parseVars, outVars>>

\* Plausible wrong versions of Whole, for the mutation runs: as many seeds as
\* were found; a window of a second is none.
SomeSeeds ==
    /\ name = 0
    /\ Marks = DOMAIN marks
    /\ marks["CELL_END"] > marks["CELL_START"]
    /\ DOMAIN blobs \subseteq Seeds
LongWindow ==
    /\ name = 0
    /\ Marks = DOMAIN marks
    /\ marks["CELL_END"] > marks["CELL_START"] + 1
    /\ DOMAIN blobs = Seeds
    /\ all_done

\* The checks at the end of parse.
Whole ==
    /\ name = 0
    /\ Marks = DOMAIN marks
    /\ marks["CELL_END"] > marks["CELL_START"]
    /\ DOMAIN blobs = Seeds
    /\ all_done

Parsed ==
    /\ collector = "parsing" /\ ~MoreLines
    /\ collector' = IF Whole THEN "writing" ELSE "failed"
    /\ left' = IF Whole THEN DOMAIN blobs ELSE {}
    /\ UNCHANGED <<lines, at, parseVars, outVars>>

\* sorted(blobs.items()): the next one.
NextBlob == CHOOSE s \in left : \A t \in left : s <= t

WriteBlob ==
    /\ left # {}
    /\ files' = With(files, NextBlob, blobs[NextBlob])
    /\ left' = left \ {NextBlob}
    /\ UNCHANGED <<collector, window>>

\* A plausible wrong WriteWindow, for the mutation run: with the first CSV.
WriteWindowFirst ==
    /\ left = DOMAIN blobs /\ window' = marks
    /\ files' = With(files, NextBlob, blobs[NextBlob])
    /\ left' = left \ {NextBlob}
    /\ UNCHANGED collector

\* window.env, after the last CSV.
WriteWindow ==
    /\ left = {}
    /\ window' = marks /\ collector' = "done"
    /\ UNCHANGED <<left, files>>

Write ==
    /\ collector = "writing"
    /\ WriteBlob \/ WriteWindow
    /\ UNCHANGED <<lines, at, parseVars>>

\* The disk is full, or the script is interrupted.  open(.., "wb") has emptied
\* the file that is being written; an empty window.env is no window.
WriteFails ==
    /\ collector = "writing" /\ collector' = "failed"
    /\ files' \in {files} \union {With(files, s, <<>>) : s \in {b \in left : \A c \in left : b <= c}}
    /\ left' = {}
    /\ UNCHANGED <<lines, at, parseVars, window>>

Collector == Read \/ ReadRaises \/ Parsed \/ Write
=============================================================================
