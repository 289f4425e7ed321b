--------------------------- MODULE JournalProofs ---------------------------
(***************************************************************************)
(* Proofs about Journal for any number of runs of the program and any      *)
(* number of appends in each.                                              *)
(*                                                                         *)
(* The argument: what read_all returns is the longest prefix of whole      *)
(* records, and appending to the file can only lengthen that prefix        *)
(* (AppendReadable).  A run that opened a file without a fragment keeps    *)
(* the file intact for as long as its stream is good (CleanWhileGood), so  *)
(* what it acknowledges goes to the end of the readable prefix and stays.  *)
(***************************************************************************)
EXTENDS Journal, SequenceTheorems, TLAPS

\* n is where read_all stops in f.
StopsAt(f, n) ==
    /\ n \in 0 .. Len(f)
    /\ \A k \in 1 .. n : f[k].whole
    /\ n < Len(f) => ~ f[n + 1].whole

Before(r, s) == r.run < s.run \/ (r.run = s.run /\ r.seq < s.seq)

\* read_all stops somewhere.
ReadStops == \E n \in 0 .. Len(file) : StopsAt(file, n)

\* The current run has written records up to the caller's sequence number,
\* and earlier runs are over.
Written(r) == r.run < run \/ (r.run = run /\ r.seq <= seq)

\* Records and fragments are in the file in the order they were written.
FileOrdered ==
    /\ \A k \in 1 .. Len(file) : Written(file[k])
    /\ \A j, k \in 1 .. Len(file) : j < k => Before(file[j], file[k])

\* Before open() the current run has written nothing and is not clean.
ClosedIsFresh ==
    /\ run >= 1
    /\ \A r \in acked : Written(r)
    /\ \A c \in cleanRuns : c <= run
    /\ stream = "closed" => seq = 0 /\ run \notin cleanRuns

CleanWhileGood == stream = "good" /\ run \in cleanRuns => Intact(file)

AckedReadable == \A r \in acked : r.run \in cleanRuns => Recovered(r)

\* The inductive invariant.
IInv ==
    TypeOK /\ ReadStops /\ FileOrdered /\ ClosedIsFresh /\ CleanWhileGood
           /\ AckedReadable

-----------------------------------------------------------------------------
\* read_all stops at one place only.
LEMMA ReadableIs ==
    ASSUME NEW f \in Seq(Record), NEW n, StopsAt(f, n)
    PROVE  Readable(f) = n
<1>1. ASSUME NEW m \in 0 .. Len(f), StopsAt(f, m) PROVE m = n
    <2>1. ~ (m < n)
        BY <1>1 DEF StopsAt, Record
    <2>2. ~ (n < m)
        BY <1>1 DEF StopsAt, Record
    <2> QED
        BY <2>1, <2>2, <1>1 DEF StopsAt
<1>2. n \in 0 .. Len(f) /\ StopsAt(f, n)
    BY DEF StopsAt
<1>3. Readable(f) = CHOOSE m \in 0 .. Len(f) : StopsAt(f, m)
    BY Zenon DEF Readable, StopsAt
<1> QED
    BY <1>1, <1>2, <1>3

\* A file without fragments is readable to its end.
LEMMA IntactReadable ==
    ASSUME NEW f \in Seq(Record), Intact(f)
    PROVE  StopsAt(f, Len(f))
BY DEF StopsAt, Intact

\* A record or a fragment at the end of the file leaves what was readable
\* readable; a whole record behind an intact file becomes readable itself.
LEMMA AppendReadable ==
    ASSUME NEW f \in Seq(Record), NEW r \in Record, NEW n, StopsAt(f, n)
    PROVE  /\ Append(f, r) \in Seq(Record)
           /\ \/ StopsAt(Append(f, r), n)
              \/ StopsAt(Append(f, r), n + 1)
           /\ \A k \in 1 .. n : Append(f, r)[k] = f[k]
           /\ Intact(f) /\ r.whole => Intact(Append(f, r))
<1> DEFINE g == Append(f, r)
<1>1. /\ g \in Seq(Record) /\ Len(g) = Len(f) + 1
      /\ \A k \in 1 .. Len(f) : g[k] = f[k]
      /\ g[Len(f) + 1] = r
    BY AppendProperties
<1> HIDE DEF g
<1>2. n \in Nat /\ n <= Len(f) /\ Len(f) \in Nat
    BY DEF StopsAt
<1>3. \A k \in 1 .. n : g[k] = f[k]
    BY <1>1, <1>2
<1>4. ASSUME n < Len(f) PROVE StopsAt(g, n)
    <2>1. \A k \in 1 .. n : g[k].whole
        BY <1>3 DEF StopsAt
    <2>2. ~ g[n + 1].whole
        <3>1. g[n + 1] = f[n + 1]
            BY <1>1, <1>2, <1>4
        <3> QED
            BY <3>1, <1>4 DEF StopsAt
    <2>3. n \in 0 .. Len(g)
        BY <1>1, <1>2
    <2> QED
        BY <2>1, <2>2, <2>3 DEF StopsAt
<1>5. ASSUME n = Len(f), r.whole PROVE StopsAt(g, n + 1)
    <2>1. ASSUME NEW k \in 1 .. n + 1 PROVE g[k].whole
        <3>1. CASE k = n + 1
            BY <1>1, <1>5, <3>1
        <3>2. CASE k \in 1 .. n
            BY <1>3, <3>2 DEF StopsAt
        <3> QED
            BY <1>2, <3>1, <3>2
    <2>2. n + 1 \in 0 .. Len(g) /\ ~ (n + 1 < Len(g))
        BY <1>1, <1>2, <1>5
    <2> QED
        BY <2>1, <2>2 DEF StopsAt
<1>6. ASSUME n = Len(f), ~ r.whole PROVE StopsAt(g, n)
    <2>1. \A k \in 1 .. n : g[k].whole
        BY <1>3 DEF StopsAt
    <2>2. ~ g[n + 1].whole
        BY <1>1, <1>6
    <2> QED
        BY <1>1, <1>2, <1>6, <2>1, <2>2 DEF StopsAt
<1>7. Intact(f) /\ r.whole => Intact(g)
    BY <1>1 DEF Intact
<1> QED
    BY <1>1, <1>2, <1>3, <1>4, <1>5, <1>6, <1>7 DEF g
\* A step leaves the file alone or appends one record to it.
LEMMA FileStep ==
    ASSUME TypeOK, run >= 1, Next
    PROVE  \/ file' = file
           \/ \E whole \in BOOLEAN :
                 Rec(whole) \in Record /\ file' = Append(file, Rec(whole))
<1>1. \A whole \in BOOLEAN : Rec(whole) \in Record
    BY DEF TypeOK, Rec, Record
<1> QED
    BY <1>1, Zenon DEF Next, Open, AppendRecord, AppendFails, AppendOnBadStream,
              CloseAndRestart, CrashAndRestart, NextRun

\* What read_all returns after a step begins with what it returned before.
LEMMA ReadableGrows ==
    ASSUME TypeOK, run >= 1, ReadStops, Next
    PROVE  /\ file' \in Seq(Record)
           /\ StopsAt(file, Readable(file)) /\ StopsAt(file', Readable(file'))
           /\ Readable(file) \in Nat /\ Readable(file') \in Nat
           /\ Readable(file) <= Readable(file')
           /\ \A k \in 1 .. Readable(file) : file'[k] = file[k]
<1>0. file \in Seq(Record)
    BY DEF TypeOK
<1> DEFINE n == Readable(file)
<1>1. StopsAt(file, n)
    BY <1>0, ReadableIs DEF ReadStops
<1> HIDE DEF n
<1>2. n \in Nat
    BY <1>0, <1>1 DEF StopsAt
<1>3. CASE file' = file
    BY <1>0, <1>1, <1>2, <1>3 DEF n
<1>4. ASSUME NEW whole \in BOOLEAN, Rec(whole) \in Record,
             file' = Append(file, Rec(whole))
      PROVE  /\ file' \in Seq(Record)
             /\ StopsAt(file', n) \/ StopsAt(file', n + 1)
             /\ \A k \in 1 .. n : file'[k] = file[k]
    BY <1>0, <1>1, <1>4, AppendReadable
<1>5. ASSUME NEW m \in Nat, StopsAt(file', m), file' \in Seq(Record)
      PROVE  Readable(file') = m
    BY <1>5, ReadableIs
<1> QED
    BY <1>1, <1>2, <1>3, <1>4, <1>5, FileStep DEF n
-----------------------------------------------------------------------------
\* The empty journal satisfies the invariant.
LEMMA InitIInv == Init => IInv
<1> SUFFICES ASSUME Init PROVE IInv
    OBVIOUS
<1> USE DEF Init
<1>1. TypeOK
    BY DEF TypeOK
<1>2. ReadStops
    <2>1. StopsAt(<<>>, 0)
        BY DEF StopsAt
    <2> QED
        BY <2>1 DEF ReadStops
<1>3. FileOrdered /\ ClosedIsFresh /\ CleanWhileGood /\ AckedReadable
    BY DEF FileOrdered, ClosedIsFresh, CleanWhileGood, AckedReadable
<1> QED
    BY <1>1, <1>2, <1>3 DEF IInv

\* The order of the file survives a record appended by the current run.
LEMMA AppendOrdered ==
    ASSUME TypeOK, FileOrdered, NEW whole \in BOOLEAN, Rec(whole) \in Record,
           file' = Append(file, Rec(whole)),
           \/ run' = run /\ seq' = seq + 1
           \/ run' = run + 1 /\ seq' = 0
    PROVE  FileOrdered'
<1> DEFINE g == Append(file, Rec(whole))
<1>1. /\ file \in Seq(Record) /\ Len(file) \in Nat
      /\ Len(g) = Len(file) + 1
      /\ \A k \in 1 .. Len(file) : g[k] = file[k] /\ file[k] \in Record
      /\ g[Len(file) + 1] = Rec(whole)
    BY AppendProperties DEF TypeOK
<1>2. file' = g
    OBVIOUS
<1> HIDE DEF g
<1>3. Rec(whole).run = run /\ Rec(whole).seq = seq + 1 /\ run \in Nat /\ seq \in Nat
    BY DEF Rec, TypeOK
<1>4. ASSUME NEW k \in 1 .. Len(g)
      PROVE  g[k].run < run' \/ (g[k].run = run' /\ g[k].seq <= seq')
    <2>1. CASE k = Len(file) + 1
        BY <1>1, <1>3, <2>1 DEF Written
    <2>2. CASE k \in 1 .. Len(file)
        <3>1. file[k].run \in Nat /\ file[k].seq \in Nat
            BY <1>1, <2>2 DEF Record
        <3> QED
            BY <1>1, <1>3, <2>2, <3>1 DEF Written, FileOrdered
    <2> QED
        BY <1>1, <2>1, <2>2
<1>5. ASSUME NEW j \in 1 .. Len(g), NEW k \in 1 .. Len(g), j < k
      PROVE  Before(g[j], g[k])
    <2>0. j \in 1 .. Len(file)
        BY <1>1, <1>5
    <2>1. CASE k = Len(file) + 1
        <3>1. file[j].run \in Nat /\ file[j].seq \in Nat
            BY <1>1, <2>0 DEF Record
        <3> QED
            BY <1>1, <1>3, <2>0, <2>1, <3>1 DEF Written, FileOrdered, Before
    <2>2. CASE k \in 1 .. Len(file)
        BY <1>1, <1>5, <2>0, <2>2 DEF FileOrdered
    <2> QED
        BY <1>1, <2>1, <2>2
<1> QED
    BY <1>2, <1>4, <1>5 DEF FileOrdered, Written, Before

\* The order of the file survives a step that leaves the file alone.
LEMMA SameFileOrdered ==
    ASSUME TypeOK, FileOrdered, file' = file,
           \/ run' = run /\ seq' \in {seq, seq + 1}
           \/ run' = run + 1
    PROVE  FileOrdered'
<1>1. ASSUME NEW k \in 1 .. Len(file) PROVE Written(file[k])'
    <2>1. file[k] \in Record /\ run \in Nat /\ seq \in Nat
        BY DEF TypeOK
    <2>2. file[k].run \in Nat /\ file[k].seq \in Nat
        BY <2>1 DEF Record
    <2> QED
        BY <2>1, <2>2 DEF Written, FileOrdered
<1> QED
    BY <1>1 DEF FileOrdered

\* Every step of the writer, of the operating system and of a crash keeps the
\* invariant.
LEMMA NextIInv == IInv /\ [Next]_vars => IInv'
<1> SUFFICES ASSUME IInv, [Next]_vars PROVE IInv'
    OBVIOUS
<1>0. CASE UNCHANGED vars
    BY <1>0 DEF vars, IInv, TypeOK, ReadStops, FileOrdered, ClosedIsFresh,
                CleanWhileGood, AckedReadable, Written, Intact, Recovered,
                StopsAt, Readable
<1> SUFFICES ASSUME Next PROVE IInv'
    BY <1>0
<1>1. run \in Nat /\ run >= 1 /\ seq \in Nat /\ file \in Seq(Record)
    BY DEF IInv, TypeOK, ClosedIsFresh
<1>2. \A whole \in BOOLEAN : /\ Rec(whole) \in Record
                             /\ Rec(whole).run = run /\ Rec(whole).seq = seq + 1
                             /\ Rec(whole).whole = whole
    BY <1>1 DEF Rec, Record
<1>3. /\ file' \in Seq(Record)
      /\ StopsAt(file', Readable(file'))
      /\ Readable(file) \in Nat /\ Readable(file') \in Nat
      /\ Readable(file) <= Readable(file')
      /\ \A k \in 1 .. Readable(file) : file'[k] = file[k]
    BY <1>1, ReadableGrows DEF IInv
<1>4. ReadStops'
    BY <1>3 DEF ReadStops, StopsAt
<1>5. ASSUME NEW r, Recovered(r) PROVE Recovered(r)'
    <2>1. PICK k \in 1 .. Readable(file) : file[k] = r
        BY <1>5 DEF Recovered
    <2>2. k \in 1 .. Readable(file') /\ file'[k] = r
        BY <1>3, <2>1
    <2> QED
        BY <2>2 DEF Recovered
<1>6. \A r \in acked : r.run \in Nat /\ r.seq \in Nat
    BY DEF IInv, TypeOK, Record
<1> USE DEF IInv
<1>7. CASE Open
    <2> USE <1>7 DEF Open
    <2>1. TypeOK'
        BY <1>1, <1>3 DEF TypeOK
    <2>2. FileOrdered'
        BY SameFileOrdered
    <2>3. ClosedIsFresh' /\ CleanWhileGood'
        BY <1>1 DEF ClosedIsFresh, CleanWhileGood, Written, TypeOK, Intact
    <2>4. \A r \in acked : r.run # run
        BY <1>1, <1>6 DEF ClosedIsFresh, Written, TypeOK, Record
    <2>5. AckedReadable'
        BY <1>5, <2>4 DEF AckedReadable
    <2> QED
        BY <1>4, <2>1, <2>2, <2>3, <2>5
<1>8. CASE AppendRecord
    <2> USE <1>8 DEF AppendRecord
    <2> DEFINE r == Rec(TRUE)
    <2>0. /\ r \in Record /\ r.run = run /\ r.seq = seq + 1
          /\ file' = Append(file, r) /\ acked' = acked \cup {r}
          /\ seq' = seq + 1 /\ UNCHANGED <<stream, run, cleanRuns>>
          /\ stream = "good"
        BY <1>2
    <2> HIDE <1>8 DEF r
    <2>1. TypeOK'
        BY <1>1, <2>0, <1>3 DEF TypeOK
    <2>2. FileOrdered'
        BY <1>2, <1>8, AppendOrdered
    <2>3. ClosedIsFresh'
        BY <1>1, <1>6, <2>0 DEF ClosedIsFresh, Written
    <2>4. ASSUME run \in cleanRuns PROVE Intact(file')
        <3>1. Intact(file) /\ r.whole
            BY <1>2, <2>0, <2>4 DEF CleanWhileGood, r
        <3>2. PICK n : StopsAt(file, n)
            BY DEF ReadStops
        <3> QED
            BY <1>1, <2>0, <3>1, <3>2, AppendReadable
    <2>5. CleanWhileGood'
        BY <2>0, <2>4 DEF CleanWhileGood, Intact
    <2>6. ASSUME run \in cleanRuns, NEW s, s = r PROVE Recovered(s)'
        <3>1. Readable(file') = Len(file')
            BY <1>3, <2>4, <2>6, IntactReadable, ReadableIs
        <3>2. Len(file') = Len(file) + 1 /\ file'[Len(file) + 1] = s
            BY <1>1, <2>0, <2>6, AppendProperties
        <3>3. Len(file) + 1 \in 1 .. Readable(file')
            BY <1>1, <3>1, <3>2
        <3> QED
            BY <3>2, <3>3 DEF Recovered
    <2>7. AckedReadable'
        BY <1>5, <2>0, <2>6 DEF AckedReadable
    <2> QED
        BY <1>4, <2>1, <2>2, <2>3, <2>5, <2>7
<1>9. CASE AppendFails
    <2> USE <1>9 DEF AppendFails
    <2>1. TypeOK'
        BY <1>1, <1>3 DEF TypeOK
    <2>2. FileOrdered'
        BY <1>2, AppendOrdered, SameFileOrdered
    <2>3. ClosedIsFresh' /\ CleanWhileGood'
        BY <1>1, <1>6 DEF ClosedIsFresh, CleanWhileGood, Written
    <2>4. AckedReadable'
        BY <1>5 DEF AckedReadable
    <2> QED
        BY <1>4, <2>1, <2>2, <2>3, <2>4
<1>10. CASE AppendOnBadStream
    <2> USE <1>10 DEF AppendOnBadStream
    <2>1. TypeOK'
        BY <1>1, <1>3 DEF TypeOK
    <2>2. FileOrdered'
        BY SameFileOrdered
    <2>3. ClosedIsFresh' /\ CleanWhileGood'
        BY <1>1, <1>6 DEF ClosedIsFresh, CleanWhileGood, Written
    <2>4. AckedReadable'
        BY <1>5 DEF AckedReadable
    <2> QED
        BY <1>4, <2>1, <2>2, <2>3, <2>4
<1>11. ASSUME NextRun PROVE /\ TypeOK' /\ ClosedIsFresh' /\ CleanWhileGood'
                            /\ AckedReadable'
    <2> USE <1>11 DEF NextRun
    <2>1. TypeOK'
        BY <1>1, <1>3 DEF TypeOK
    <2>2. run + 1 \notin cleanRuns
        BY <1>1 DEF ClosedIsFresh, TypeOK
    <2>3. ClosedIsFresh' /\ CleanWhileGood'
        BY <1>1, <1>6, <2>2 DEF ClosedIsFresh, CleanWhileGood, Written, TypeOK
    <2>4. AckedReadable'
        BY <1>5 DEF AckedReadable
    <2> QED
        BY <2>1, <2>3, <2>4
<1>12. CASE CloseAndRestart
    <2>1. FileOrdered'
        BY <1>12, SameFileOrdered DEF CloseAndRestart, NextRun
    <2> QED
        BY <1>4, <1>11, <1>12, <2>1 DEF CloseAndRestart
<1>13. CASE CrashAndRestart
    <2>1. FileOrdered'
        BY <1>2, <1>13, SameFileOrdered, AppendOrdered DEF CrashAndRestart, NextRun
    <2> QED
        BY <1>4, <1>11, <1>13, <2>1 DEF CrashAndRestart
<1> QED
    BY <1>7, <1>8, <1>9, <1>10, <1>12, <1>13 DEF Next

\* The invariant holds throughout.
LEMMA Inductive == Spec => []IInv
BY InitIInv, NextIInv, PTL DEF Spec

-----------------------------------------------------------------------------
\* The journal file is a sequence of records and fragments in every run.
THEOREM TypeCorrect == Spec => []TypeOK
<1>1. IInv => TypeOK
    BY DEF IInv
<1> QED
    BY <1>1, Inductive, PTL

\* Whatever append() acknowledged in a run that opened a file without a
\* fragment is returned by read_all for ever after, through any number of
\* failed writes, crashes and restarts, and read_all returns the history in
\* the order it was written without repeating a record.
THEOREM CleanRunsRecover == Spec => []AckedByCleanRunRecovered
<1>1. IInv => AckedByCleanRunRecovered
    <2> SUFFICES ASSUME IInv PROVE AckedByCleanRunRecovered
        OBVIOUS
    <2>1. PICK n : StopsAt(file, n)
        BY DEF IInv, ReadStops
    <2>2. file \in Seq(Record)
        BY DEF IInv, TypeOK
    <2>3. Readable(file) \in 0 .. Len(file)
        BY <2>1, <2>2, ReadableIs DEF StopsAt
    <2>4. \A j, k \in 1 .. Readable(file) : j < k => Before(file[j], file[k])
        BY <2>2, <2>3 DEF IInv, FileOrdered
    <2> QED
        BY <2>4 DEF AckedByCleanRunRecovered, IInv, AckedReadable, Before
<1> QED
    BY <1>1, Inductive, PTL

\* No step of the writer and no crash changes or shortens the history that
\* read_all returns.
THEOREM HistoryOnlyGrows == Spec => RecoveryOnlyGrows
<1>1. IInv /\ [Next]_vars =>
        [/\ Readable(file) <= Readable(file')
         /\ \A k \in 1 .. Readable(file) : file'[k] = file[k]]_vars
    BY ReadableGrows DEF IInv, ClosedIsFresh
<1> QED
    BY <1>1, Inductive, PTL DEF Spec, RecoveryOnlyGrows
=============================================================================
