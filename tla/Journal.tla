------------------------------ MODULE Journal ------------------------------
(***************************************************************************)
(* The append-only binary journal (src/journal.cpp): JournalWriter, the    *)
(* file, and what JournalReader::read_all makes of it, across write        *)
(* errors, crashes in the middle of a record and restarts that open the    *)
(* same file again.                                                        *)
(*                                                                         *)
(* A record is its place in the history: the run of the program that       *)
(* appended it and the sequence number the caller passed.  On disk it is   *)
(* whole, or a fragment of its header and payload.  The file is kept by    *)
(* the operating system: what flush() handed over survives the process.    *)
(***************************************************************************)
EXTENDS Integers, Sequences

CONSTANTS
    MaxRuns,    \* bound: how often the program is started
    MaxAppends  \* bound: calls of append per run

ASSUME JournalAssumption == MaxRuns \in Nat /\ MaxAppends \in Nat

VARIABLES
    file,      \* what is on disk, in order: [run, seq, whole]
    stream,    \* JournalWriter: "closed" (opened_ = false), "good", "bad"
    run, seq,  \* run of the program, the caller's ++journal_sequence
    acked,     \* records append() returned true for
    cleanRuns  \* runs whose open() found a file without a fragment

vars == <<file, stream, run, seq, acked, cleanRuns>>

\* Plausible bug: journal_sequence++ where ++journal_sequence is meant.
Rec_PostIncrement(whole) == [run |-> run, seq |-> seq, whole |-> whole]

Rec(whole) == [run |-> run, seq |-> seq + 1, whole |-> whole]

Intact(f) == \A k \in 1 .. Len(f) : f[k].whole

\* read_all's loop: records up to the first that is incomplete or does not
\* match its checksum; what follows is never looked at.
Readable(f) ==
    CHOOSE n \in 0 .. Len(f) :
        /\ \A k \in 1 .. n : f[k].whole
        /\ n < Len(f) => ~ f[n + 1].whole

Init ==
    /\ file = <<>>
    /\ stream = "closed"
    /\ run = 1 /\ seq = 0
    /\ acked = {}
    /\ cleanRuns = {}

\* Plausible bug: the file is opened without std::ios::app.
Open_Truncate ==
    /\ stream = "closed"
    /\ stream' = "good"
    /\ file' = <<>>
    /\ cleanRuns' = cleanRuns \cup {run}
    /\ UNCHANGED <<run, seq, acked>>

\* Opened in append mode; the end of the file is not inspected.
Open ==
    /\ stream = "closed"
    /\ stream' = "good"
    /\ cleanRuns' = IF Intact(file) THEN cleanRuns \cup {run} ELSE cleanRuns
    /\ UNCHANGED <<file, run, seq, acked>>

\* Header, payload and flush succeed: append returns true.
AppendRecord ==
    /\ stream = "good" /\ seq < MaxAppends
    /\ file' = Append(file, Rec(TRUE))
    /\ acked' = acked \cup {Rec(TRUE)}
    /\ seq' = seq + 1
    /\ UNCHANGED <<stream, run, cleanRuns>>

\* A write or the flush fails (disk full): part of the record may have
\* reached the file, the stream stays bad, append returns false.
AppendFails ==
    /\ stream = "good" /\ seq < MaxAppends
    /\ file' \in {file, Append(file, Rec(FALSE))}
    /\ stream' = "bad"
    /\ seq' = seq + 1
    /\ UNCHANGED <<run, acked, cleanRuns>>

\* Plausible bug: good() is not consulted, so append reports success.
AppendOnBadStream_Unchecked ==
    /\ stream = "bad" /\ seq < MaxAppends
    /\ acked' = acked \cup {Rec(TRUE)}
    /\ seq' = seq + 1
    /\ UNCHANGED <<file, stream, run, cleanRuns>>

\* Every later append on a bad stream writes nothing and returns false.
AppendOnBadStream ==
    /\ stream = "bad" /\ seq < MaxAppends
    /\ seq' = seq + 1
    /\ UNCHANGED <<file, stream, run, acked, cleanRuns>>

NextRun ==
    /\ run < MaxRuns
    /\ run' = run + 1
    /\ seq' = 0
    /\ stream' = "closed"
    /\ UNCHANGED <<acked, cleanRuns>>

\* close() and the end of the program; it is started again later.
CloseAndRestart ==
    /\ stream # "closed"
    /\ NextRun
    /\ UNCHANGED file

\* The process dies, perhaps in the middle of append: the record it was
\* writing is absent, a fragment, or whole but not yet reported.
CrashAndRestart ==
    /\ NextRun
    /\ \/ UNCHANGED file
       \/ /\ stream = "good" /\ seq < MaxAppends
          /\ \E whole \in BOOLEAN : file' = Append(file, Rec(whole))

Next ==
    \/ Open
    \/ AppendRecord
    \/ AppendFails
    \/ AppendOnBadStream
    \/ CloseAndRestart
    \/ CrashAndRestart

Spec == Init /\ [][Next]_vars

-----------------------------------------------------------------------------
(* Properties *)

Record == [run : Nat \ {0}, seq : Nat \ {0}, whole : BOOLEAN]

\* The file is a sequence of records and fragments, the rest has its type.
TypeOK ==
    /\ file \in Seq(Record)
    /\ stream \in {"closed", "good", "bad"}
    /\ run \in Nat /\ seq \in Nat
    /\ acked \subseteq Record
    /\ cleanRuns \subseteq Nat

Recovered(r) == \E k \in 1 .. Readable(file) : file[k] = r

\* What append() acknowledged is recovered by read_all for ever after, in
\* every run that started on a file without fragments, whatever error or
\* crash ended that run or a later one; and read_all returns no record twice,
\* those of a run in the order they were appended, older runs first.
AckedByCleanRunRecovered ==
    /\ \A r \in acked : r.run \in cleanRuns => Recovered(r)
    /\ \A j, k \in 1 .. Readable(file) :
          j < k => \/ file[j].run < file[k].run
                   \/ file[j].run = file[k].run /\ file[j].seq < file[k].seq

\* The history read_all returns is immutable: a step may extend it, never
\* change or shorten it.
RecoveryOnlyGrows ==
    [][/\ Readable(file) <= Readable(file')
       /\ \A k \in 1 .. Readable(file) : file'[k] = file[k]]_vars

\* journal_demo.cpp: "If we crash after this point, recovery can see that the
\* OMS intended to send this order."
AckedRecovered == \A r \in acked : Recovered(r)
=============================================================================
