-------------------------- MODULE TcpSessionProofs --------------------------
(***************************************************************************)
(* Proofs about TcpSession for every size of the payloads and any number   *)
(* of orders and heartbeats.                                               *)
(*                                                                         *)
(* The argument: `begins' lists the headers of a direction, all of them    *)
(* and in order, and the reader has passed exactly as many of them as it   *)
(* has returned envelopes (Heads).  A frame that passes the tests of       *)
(* recv_envelope starts with the next header and holds no other one, so    *)
(* what is returned is the next frame sent, and the reader stands behind   *)
(* its header and in front of the one after it.  No thread takes part in   *)
(* the argument: frames may be mixed or cut off in any way.                *)
(*                                                                         *)
(* The answers (AInv) need more: as long as no header was written into     *)
(* another frame, every frame is its cells in order (Orderly) and what a   *)
(* thread has left to send completes the latest one, so no receive fails   *)
(* before the OMS is done.  The first header written into another frame    *)
(* breaks a frame in front of the order or the order itself before the     *)
(* gateway has come to it (Blocked), and nothing that follows repairs it.  *)
(***************************************************************************)
EXTENDS TcpSession, SequenceTheorems, FiniteSetTheorems, TLAPS

FrameSet == [type : Types, n : Nat]
CellSet  == [frame : FrameSet, k : Nat]

\* What is left to be sent of a frame is payload.
PayloadOnly(s) == \A i \in 1 .. Len(s) : s[i].k # 0

Control ==
    /\ demo \in BOOLEAN /\ alive \in BOOLEAN /\ crashed \in BOOLEAN
    /\ open \in [Dir -> BOOLEAN]
    /\ pc \in [Thread -> {"send", "sending", "await", "joining", "loop", "recv", "reply",
                          "ended", "terminated"}]

OutTyped ==
    /\ out \in [Thread -> Seq(CellSet)]
    /\ \A t \in Thread : PayloadOnly(out[t]) /\ (out[t] # <<>> <=> pc[t] = "sending")

FlowTyped ==
    /\ wire \in [Dir -> Seq(CellSet)] /\ begins \in [Dir -> Seq(Nat)]
    /\ got \in [Dir -> Seq(FrameSet)]
    /\ pos \in [Dir -> Nat] /\ \A d \in Dir : pos[d] <= Len(wire[d])
    /\ pc["gateway"] = "reply" => got["fwd"] # <<>>

\* begins[d] are the places of the headers, and the ones before pos[d] are
\* those of the envelopes returned.
HeadsOf(w, b, p, n) ==
    /\ \A i \in 1 .. Len(b) : b[i] \in 1 .. Len(w) /\ w[b[i]].k = 0
    /\ \A q \in 1 .. Len(w) : w[q].k = 0 => \E i \in 1 .. Len(b) : b[i] = q
    /\ \A i, j \in 1 .. Len(b) : i < j => b[i] < b[j]
    /\ n <= Len(b)
    /\ \A i \in 1 .. Len(b) : b[i] <= p <=> i <= n

Heads == \A d \in Dir : HeadsOf(wire[d], begins[d], pos[d], Len(got[d]))

\* The inductive invariant.
IInv == Control /\ OutTyped /\ FlowTyped /\ Heads

-----------------------------------------------------------------------------
(* What a step does to one direction *)

Same(d) ==
    wire'[d] = wire[d] /\ begins'[d] = begins[d] /\ pos'[d] = pos[d] /\ got'[d] = got[d]

Extended(d, cells) ==
    /\ wire'[d] = wire[d] \o cells
    /\ begins'[d] = begins[d] /\ pos'[d] = pos[d] /\ got'[d] = got[d]

Begun(d, f) ==
    /\ wire'[d] = Append(wire[d], Cell(f, 0)) /\ begins'[d] = Append(begins[d], Len(wire[d]) + 1)
    /\ pos'[d] = pos[d] /\ got'[d] = got[d]

Taken(d) ==
    /\ Available(d) /\ Intact(d)
    /\ got'[d] = Append(got[d], Decoded(d)) /\ pos'[d] = pos[d] + Expected(d)
    /\ wire'[d] = wire[d] /\ begins'[d] = begins[d]

\* The reader of a direction has stopped.
Failed(d) ==
    IF d = "fwd" THEN pc["gateway"] = "ended" ELSE pc["oms"] \in {"joining", "ended", "terminated"}

\* A step leaves a direction alone, adds payload to it, begins a frame or
\* takes one; a reader that has stopped takes nothing any more.
Moves(d) ==
    \/ Same(d) /\ (Failed(d) => Failed(d)')
    \/ /\ \E cells \in Seq(CellSet) : PayloadOnly(cells) /\ Extended(d, cells)
       /\ Failed(d)' <=> Failed(d)
    \/ /\ \E f \in FrameSet : Begun(d, f)
       /\ Failed(d)' <=> Failed(d)
    \/ Taken(d) /\ ~ Failed(d)

\* What every step of the session amounts to.
Shaped ==
    /\ wire' = [d \in Dir |-> wire'[d]] /\ begins' = [d \in Dir |-> begins'[d]]
    /\ pos' = [d \in Dir |-> pos'[d]] /\ got' = [d \in Dir |-> got'[d]]

Outcome ==
    /\ Control' /\ OutTyped' /\ Shaped
    /\ \A d \in Dir : Moves(d)
    /\ pc'["gateway"] = "reply" => got'["fwd"] # <<>>

-----------------------------------------------------------------------------
(* Each kind of step keeps the account of the headers *)

\* Lists of cells and headers are continued.
Continued(w, b, v, e) == \A i \in 1 .. Len(b) : e[i] = b[i] /\ v[b[i]] = w[b[i]]

\* Payload behind the last cell.
LEMMA ExtendHeads ==
    ASSUME NEW w \in Seq(CellSet), NEW b \in Seq(Nat), NEW p \in Nat, NEW n \in Nat,
           NEW c \in Seq(CellSet), HeadsOf(w, b, p, n), PayloadOnly(c)
    PROVE  HeadsOf(w \o c, b, p, n) /\ Continued(w, b, w \o c, b)
<1> DEFINE v == w \o c
<1>1. /\ Len(w) \in Nat /\ Len(c) \in Nat /\ Len(v) = Len(w) + Len(c)
      /\ \A i \in 1 .. Len(w) : v[i] = w[i]
      /\ \A i \in Len(w) + 1 .. Len(v) : i - Len(w) \in 1 .. Len(c) /\ v[i] = c[i - Len(w)]
    BY ConcatProperties, LenProperties
<1> HIDE DEF v
<1>2. \A i \in 1 .. Len(b) : b[i] \in 1 .. Len(v) /\ v[b[i]] = w[b[i]] /\ v[b[i]].k = 0
    BY <1>1 DEF HeadsOf
<1>3. ASSUME NEW q \in 1 .. Len(v), v[q].k = 0
      PROVE  \E i \in 1 .. Len(b) : b[i] = q
    <2>1. CASE q <= Len(w)
        <3>1. q \in 1 .. Len(w) /\ w[q].k = 0
            BY <1>1, <1>3, <2>1
        <3> QED
            BY <3>1 DEF HeadsOf
    <2>2. CASE q > Len(w)
        <3>1. q - Len(w) \in 1 .. Len(c) /\ v[q] = c[q - Len(w)]
            BY <1>1, <2>2
        <3>2. c[q - Len(w)].k # 0
            BY <3>1 DEF PayloadOnly
        <3> QED
            BY <1>3, <3>1, <3>2
    <2> QED  BY <1>1, <2>1, <2>2
<1> QED
    BY <1>2, <1>3 DEF HeadsOf, Continued, v

\* A header behind the last cell.
LEMMA BeginHeads ==
    ASSUME NEW w \in Seq(CellSet), NEW b \in Seq(Nat), NEW p \in Nat, NEW n \in Nat,
           NEW c \in CellSet, c.k = 0, p <= Len(w), HeadsOf(w, b, p, n)
    PROVE  /\ HeadsOf(Append(w, c), Append(b, Len(w) + 1), p, n)
           /\ Continued(w, b, Append(w, c), Append(b, Len(w) + 1))
<1> DEFINE v == Append(w, c)
           e == Append(b, Len(w) + 1)
<1>1. /\ Len(w) \in Nat /\ Len(v) = Len(w) + 1 /\ v[Len(w) + 1] = c
      /\ \A i \in 1 .. Len(w) : v[i] = w[i]
    BY AppendProperties, LenProperties
<1>2. Len(w) + 1 \in Nat
    BY <1>1
<1>3. /\ Len(b) \in Nat /\ Len(e) = Len(b) + 1 /\ e[Len(b) + 1] = Len(w) + 1
      /\ \A i \in 1 .. Len(b) : e[i] = b[i]
    BY <1>2, AppendProperties, LenProperties
<1> HIDE DEF v, e
<1>4. \A i \in 1 .. Len(b) : b[i] \in 1 .. Len(w) /\ w[b[i]].k = 0
    BY DEF HeadsOf
<1>5. \A i \in 1 .. Len(b) : b[i] \in 1 .. Len(w) /\ e[i] = b[i] /\ v[b[i]] = w[b[i]]
    BY <1>1, <1>3, <1>4
<1>6. \A i \in 1 .. Len(e) : e[i] \in 1 .. Len(v) /\ v[e[i]].k = 0
    <2> TAKE i \in 1 .. Len(e)
    <2>1. CASE i \in 1 .. Len(b)
        BY <1>1, <1>4, <1>5, <2>1
    <2>2. CASE i = Len(b) + 1
        BY <1>1, <1>3, <2>2
    <2> QED  BY <1>3, <2>1, <2>2
<1>7. ASSUME NEW q \in 1 .. Len(v), v[q].k = 0
      PROVE  \E i \in 1 .. Len(e) : e[i] = q
    <2>1. CASE q \in 1 .. Len(w)
        <3>1. PICK i \in 1 .. Len(b) : b[i] = q
            BY <1>1, <1>7, <2>1 DEF HeadsOf
        <3> QED
            BY <1>3, <3>1
    <2>2. CASE q = Len(w) + 1
        BY <1>3, <2>2
    <2> QED  BY <1>1, <2>1, <2>2
<1>8. \A i, j \in 1 .. Len(e) : i < j => e[i] < e[j]
    <2> SUFFICES ASSUME NEW i \in 1 .. Len(e), NEW j \in 1 .. Len(e), i < j
                 PROVE  e[i] < e[j]
        OBVIOUS
    <2>1. i \in 1 .. Len(b)
        BY <1>3
    <2>2. CASE j \in 1 .. Len(b)
        BY <1>5, <2>1, <2>2 DEF HeadsOf
    <2>3. CASE j = Len(b) + 1
        BY <1>1, <1>3, <1>5, <2>1, <2>3
    <2> QED  BY <1>3, <2>2, <2>3
<1>9. n <= Len(e) /\ \A i \in 1 .. Len(e) : e[i] <= p <=> i <= n
    <2>1. n <= Len(b) /\ \A i \in 1 .. Len(b) : e[i] <= p <=> i <= n
        BY <1>5 DEF HeadsOf
    <2>2. ~ (e[Len(b) + 1] <= p) /\ ~ (Len(b) + 1 <= n)
        BY <1>1, <1>3, <2>1
    <2> QED
        BY <1>3, <2>1, <2>2
<1> QED
    BY <1>5, <1>6, <1>7, <1>8, <1>9 DEF HeadsOf, Continued, v, e

\* How far x is behind y.
LEMMA Distance ==
    ASSUME NEW x \in Nat, NEW y \in Nat, NEW size \in Nat, x > y, x <= y + size
    PROVE  x - y \in 1 .. size /\ x = y + (x - y)
OBVIOUS

\* A whole frame is read.
LEMMA TakeHeads ==
    ASSUME NEW w \in Seq(CellSet), NEW b \in Seq(Nat), NEW p \in Nat, NEW n \in Nat,
           NEW size \in Nat, HeadsOf(w, b, p, n),
           p + 1 + size <= Len(w), w[p + 1].k = 0,
           \A k \in 1 .. size : w[p + 1 + k].k # 0
    PROVE  /\ n + 1 <= Len(b) /\ b[n + 1] = p + 1
           /\ HeadsOf(w, b, p + 1 + size, n + 1)
<1>1. Len(w) \in Nat /\ Len(b) \in Nat
    BY LenProperties
<1>2. PICK i \in 1 .. Len(b) : b[i] = p + 1
    <2>1. p + 1 \in 1 .. Len(w)
        BY <1>1
    <2> QED
        BY <2>1 DEF HeadsOf
<1>3. \A j \in 1 .. Len(b) : b[j] \in Nat /\ (b[j] <= p <=> j <= n)
    BY ElementOfSeq DEF HeadsOf
<1>4. i > n
    BY <1>1, <1>2, <1>3
<1>5. i = n + 1
    <2> SUFFICES ASSUME i > n + 1 PROVE FALSE
        BY <1>1, <1>4
    <2>1. n + 1 \in 1 .. Len(b)
        BY <1>1
    <2>2. b[n + 1] < b[i]
        BY <2>1 DEF HeadsOf
    <2>3. ~ (b[n + 1] <= p)
        BY <1>3, <2>1
    <2> QED
        BY <1>2, <1>3, <2>1, <2>2, <2>3
<1>6. ASSUME NEW j \in 1 .. Len(b)
      PROVE  b[j] <= p + 1 + size <=> j <= n + 1
    <2>1. CASE j <= n + 1
        <3>1. b[j] <= p + 1
            <4>1. CASE j <= n
                BY <1>3, <4>1
            <4>2. CASE j = n + 1
                BY <1>2, <1>5, <4>2
            <4> QED  BY <1>1, <2>1, <4>1, <4>2
        <3> QED
            BY <1>3, <2>1, <3>1
    <2>2. CASE j > n + 1
        <3>1. b[j] > p + 1 /\ w[b[j]].k = 0
            BY <1>2, <1>5, <2>2 DEF HeadsOf
        <3> SUFFICES ASSUME b[j] <= p + 1 + size PROVE FALSE
            BY <1>3, <2>2
        <3> DEFINE k == b[j] - (p + 1)
        <3>2. k \in 1 .. size /\ b[j] = p + 1 + k
            <4>1. b[j] \in Nat /\ b[j] > p + 1
                BY <1>3, <3>1
            <4>2. p + 1 \in Nat
                OBVIOUS
            <4> QED
                BY <4>1, <4>2, Distance
        <3> HIDE DEF k
        <3>3. w[p + 1 + k].k # 0
            BY <3>2
        <3> QED
            BY <3>1, <3>2, <3>3
    <2> QED  BY <1>1, <2>1, <2>2
<1> QED
    BY <1>2, <1>5, <1>6 DEF HeadsOf

-----------------------------------------------------------------------------
(* What a move is at the level of messages *)

\* A list of the frames whose headers are at b in w.
FramesAt(w, b) == [i \in 1 .. Len(b) |-> w[b[i]].frame]

\* One more frame behind those sent.
LEMMA OneMore ==
    ASSUME NEW w, NEW v, NEW b \in Seq(Nat), NEW e \in Seq(Nat),
           Len(e) = Len(b) + 1,
           Continued(w, b, v, e)
    PROVE  /\ Len(FramesAt(v, e)) = Len(FramesAt(w, b)) + 1
           /\ SubSeq(FramesAt(v, e), 1, Len(FramesAt(w, b))) = FramesAt(w, b)
<1>1. Len(b) \in Nat /\ Len(e) \in Nat
    BY LenProperties
<1>2. /\ Len(FramesAt(v, e)) = Len(e) /\ Len(FramesAt(w, b)) = Len(b)
      /\ FramesAt(v, e) = [i \in 1 .. Len(b) + 1 |-> v[e[i]].frame]
    BY <1>1 DEF FramesAt
<1> DEFINE prefix == SubSeq(FramesAt(v, e), 1, Len(b))
<1>3. prefix = [i \in 1 .. Len(b) |-> FramesAt(v, e)[i]]
    BY <1>1
<1>4. \A i \in 1 .. Len(b) : FramesAt(v, e)[i] = w[b[i]].frame
    BY <1>1, <1>2 DEF Continued
<1>5. prefix = FramesAt(w, b)
    BY <1>3, <1>4 DEF FramesAt
<1> QED
    BY <1>2, <1>5

\* What the tests of recv_envelope establish: the cells behind the header are
\* its payload, so the envelope decodes to the frame of the header.
LEMMA IntactDecodes ==
    ASSUME FlowTyped, NEW d \in Dir, Available(d), Intact(d)
    PROVE  LET f == wire[d][pos[d] + 1].frame IN
           /\ f \in FrameSet /\ Decoded(d) = f /\ PayloadSize[f.type] \in Nat
           /\ pos[d] + 1 + PayloadSize[f.type] <= Len(wire[d])
           /\ pos[d] + Expected(d) = pos[d] + 1 + PayloadSize[f.type]
           /\ wire[d][pos[d] + 1].k = 0
           /\ \A k \in 1 .. PayloadSize[f.type] : wire[d][pos[d] + 1 + k].k # 0
<1> DEFINE w == wire[d]
           p == pos[d]
           f == w[p + 1].frame
           size == PayloadSize[f.type]
<1>1. w \in Seq(CellSet) /\ p \in Nat /\ Len(w) \in Nat
    BY LenProperties DEF FlowTyped
<1>2. p < Len(w) /\ p + Expected(d) <= Len(w) /\ Expected(d) = 1 + size
    BY DEF Available, Expected
<1> HIDE DEF w, p
<1>3. w[p + 1] \in CellSet
    BY <1>1, <1>2, ElementOfSeq
<1>4. f \in FrameSet
    BY <1>3 DEF CellSet
<1>5. f.type \in Types /\ size \in Nat
    BY <1>4, TcpAssumption DEF FrameSet
<1>6. w[p + 1].k = 0 /\ \A k \in 1 .. size : w[p + 1 + k] = Cell(f, k)
    BY DEF Intact, w, p
<1> HIDE DEF size, f
<1>7. p + 1 + size <= Len(w) /\ p + Expected(d) = p + 1 + size
    BY <1>1, <1>2, <1>5
<1>8. \A k \in 1 .. size : w[p + 1 + k].k = k /\ k # 0
    <2> TAKE k \in 1 .. size
    <2>1. Cell(f, k).k = k
        BY DEF Cell
    <2> QED
        BY <1>5, <1>6, <2>1
<1>9. SubSeq(w, p + 2, p + 1 + size) = [k \in 1 .. size |-> Cell(f, k)]
    <2> DEFINE s == SubSeq(w, p + 2, p + 1 + size)
    <2>1. s = [k \in 1 .. (p + 1 + size) - (p + 2) + 1 |-> w[(p + 2) + k - 1]]
        BY <1>1, <1>5, <1>7
    <2>2. (p + 1 + size) - (p + 2) + 1 = size
        BY <1>1, <1>5
    <2>3. \A k \in 1 .. size : (p + 2) + k - 1 = p + 1 + k
        BY <1>1, <1>5
    <2> QED
        BY <1>6, <2>1, <2>2, <2>3
<1>10. Decoded(d) = f
    <2>1. Decoded(d) = IF SubSeq(w, p + 2, p + Expected(d)) = Payload(f) THEN f ELSE Garbage
        BY DEF Decoded, w, p, f
    <2>2. Payload(f) = [k \in 1 .. size |-> Cell(f, k)]
        BY DEF Payload, size
    <2> QED
        BY <1>7, <1>9, <2>1, <2>2
<1> QED
    BY <1>4, <1>5, <1>6, <1>7, <1>8, <1>10 DEF w, p, f, size

-----------------------------------------------------------------------------
(* One direction *)

\* A direction that is left alone.
LEMMA MoveSame ==
    ASSUME NEW d \in Dir, Same(d)
    PROVE  /\ Sent(d)' = Sent(d)
           /\ HeadsOf(wire[d], begins[d], pos[d], Len(got[d])) =>
                 HeadsOf(wire[d], begins[d], pos[d], Len(got[d]))'
BY DEF Same, Sent, HeadsOf

\* Payload adds no frame to those sent.
LEMMA MoveExtended ==
    ASSUME FlowTyped, Heads, NEW d \in Dir, NEW cells \in Seq(CellSet),
           PayloadOnly(cells), Extended(d, cells)
    PROVE  /\ wire'[d] \in Seq(CellSet) /\ begins'[d] \in Seq(Nat) /\ got'[d] \in Seq(FrameSet)
           /\ pos'[d] \in Nat /\ pos'[d] <= Len(wire'[d])
           /\ Sent(d)' = Sent(d) /\ got'[d] = got[d]
           /\ HeadsOf(wire[d], begins[d], pos[d], Len(got[d]))'
<1> DEFINE w == wire[d]
           b == begins[d]
           v == wire'[d]
<1>1. /\ w \in Seq(CellSet) /\ b \in Seq(Nat) /\ pos[d] \in Nat /\ pos[d] <= Len(w)
      /\ got[d] \in Seq(FrameSet) /\ HeadsOf(w, b, pos[d], Len(got[d]))
    BY DEF FlowTyped, Heads
<1>2. Len(w) \in Nat /\ Len(cells) \in Nat /\ Len(got[d]) \in Nat
    BY <1>1, LenProperties
<1>3. /\ v = w \o cells /\ begins'[d] = b /\ pos'[d] = pos[d] /\ got'[d] = got[d]
    BY DEF Extended
<1>4. v \in Seq(CellSet) /\ Len(v) = Len(w) + Len(cells)
    BY <1>1, <1>3, ConcatProperties
<1>5. HeadsOf(v, b, pos[d], Len(got[d])) /\ Continued(w, b, v, b)
    <2> HIDE DEF w, b, v
    <2>1. HeadsOf(w \o cells, b, pos[d], Len(got[d]))
          /\ Continued(w, b, w \o cells, b)
        BY <1>1, <1>2, ExtendHeads
    <2> QED
        BY <1>3, <2>1
<1>6. pos'[d] <= Len(v)
    <2> HIDE DEF w, v
    <2> QED  BY <1>1, <1>2, <1>3, <1>4
<1>7. Sent(d)' = Sent(d)
    BY <1>3, <1>5 DEF Sent, Continued
<1>8. HeadsOf(wire[d], begins[d], pos[d], Len(got[d]))'
    BY <1>3, <1>5 DEF HeadsOf
<1> QED
    BY <1>1, <1>3, <1>4, <1>6, <1>7, <1>8

\* A header adds one frame to those sent.
LEMMA MoveBegun ==
    ASSUME FlowTyped, Heads, NEW d \in Dir, NEW f \in FrameSet, Begun(d, f)
    PROVE  /\ wire'[d] \in Seq(CellSet) /\ begins'[d] \in Seq(Nat) /\ got'[d] \in Seq(FrameSet)
           /\ pos'[d] \in Nat /\ pos'[d] <= Len(wire'[d])
           /\ Len(Sent(d)') = Len(Sent(d)) + 1
           /\ SubSeq(Sent(d)', 1, Len(Sent(d))) = Sent(d)
           /\ got'[d] = got[d]
           /\ HeadsOf(wire[d], begins[d], pos[d], Len(got[d]))'
<1> DEFINE w == wire[d]
           b == begins[d]
           v == wire'[d]
           e == begins'[d]
           c == Cell(f, 0)
<1>1. /\ w \in Seq(CellSet) /\ b \in Seq(Nat) /\ pos[d] \in Nat /\ pos[d] <= Len(w)
      /\ got[d] \in Seq(FrameSet) /\ HeadsOf(w, b, pos[d], Len(got[d]))
    BY DEF FlowTyped, Heads
<1>2. Len(w) \in Nat /\ Len(b) \in Nat /\ Len(got[d]) \in Nat /\ c \in CellSet /\ c.k = 0
    BY <1>1, LenProperties DEF Cell, CellSet
<1>3. /\ v = Append(w, c) /\ e = Append(b, Len(w) + 1)
      /\ pos'[d] = pos[d] /\ got'[d] = got[d]
    BY DEF Begun
<1> HIDE DEF w, b, v, e, c
<1>4. /\ v \in Seq(CellSet) /\ Len(v) = Len(w) + 1 /\ e \in Seq(Nat) /\ Len(e) = Len(b) + 1
    <2>1. Len(w) + 1 \in Nat
        BY <1>2
    <2> QED
        BY <1>1, <1>2, <1>3, <2>1, AppendProperties
<1>5. /\ HeadsOf(v, e, pos[d], Len(got[d]))
      /\ Continued(w, b, v, e)
    <2>1. /\ HeadsOf(Append(w, c), Append(b, Len(w) + 1), pos[d], Len(got[d]))
          /\ Continued(w, b, Append(w, c), Append(b, Len(w) + 1))
        BY <1>1, <1>2, BeginHeads
    <2> QED
        BY <1>3, <2>1
<1>6. pos'[d] \in Nat /\ pos'[d] <= Len(v)
    BY <1>1, <1>2, <1>3, <1>4
<1>7. /\ Len(FramesAt(v, e)) = Len(FramesAt(w, b)) + 1
      /\ SubSeq(FramesAt(v, e), 1, Len(FramesAt(w, b))) = FramesAt(w, b)
    BY <1>1, <1>4, <1>5, OneMore
<1>8. Sent(d) = FramesAt(w, b) /\ Sent(d)' = FramesAt(v, e)
    BY DEF Sent, FramesAt, w, b, v, e
<1>9. HeadsOf(wire[d], begins[d], pos[d], Len(got[d]))'
    BY <1>3, <1>5 DEF HeadsOf, v, e
<1> QED
    BY <1>1, <1>3, <1>4, <1>6, <1>7, <1>8, <1>9 DEF v, e

\* An envelope that is returned is the next frame sent.
LEMMA MoveTaken ==
    ASSUME FlowTyped, Heads, NEW d \in Dir, Taken(d)
    PROVE  /\ wire'[d] \in Seq(CellSet) /\ begins'[d] \in Seq(Nat) /\ got'[d] \in Seq(FrameSet)
           /\ pos'[d] \in Nat /\ pos'[d] <= Len(wire'[d])
           /\ Len(got[d]) < Len(Sent(d)) /\ Sent(d)' = Sent(d)
           /\ got'[d] = Append(got[d], Sent(d)[Len(got[d]) + 1])
           /\ HeadsOf(wire[d], begins[d], pos[d], Len(got[d]))'
<1> DEFINE w == wire[d]
           b == begins[d]
           p == pos[d]
           n == Len(got[d])
           f == w[p + 1].frame
           size == PayloadSize[f.type]
<1>1. /\ w \in Seq(CellSet) /\ b \in Seq(Nat) /\ p \in Nat /\ p <= Len(w)
      /\ got[d] \in Seq(FrameSet) /\ HeadsOf(w, b, p, n)
    BY DEF FlowTyped, Heads
<1>2. Len(w) \in Nat /\ Len(b) \in Nat /\ n \in Nat
    BY <1>1, LenProperties
<1>3. /\ f \in FrameSet /\ Decoded(d) = f /\ size \in Nat /\ p + 1 + size <= Len(w)
      /\ p + Expected(d) = p + 1 + size /\ w[p + 1].k = 0
      /\ \A k \in 1 .. size : w[p + 1 + k].k # 0
    BY IntactDecodes DEF Taken
<1>4. /\ got'[d] = Append(got[d], f) /\ pos'[d] = p + 1 + size
      /\ wire'[d] = w /\ begins'[d] = b
    BY <1>3 DEF Taken
<1>5. Sent(d) = [i \in 1 .. Len(b) |-> w[b[i]].frame] /\ Sent(d)' = Sent(d)
    BY <1>4 DEF Sent
<1> HIDE DEF w, b, p, size
<1>6. n + 1 <= Len(b) /\ b[n + 1] = p + 1 /\ HeadsOf(w, b, p + 1 + size, n + 1)
    BY <1>1, <1>2, <1>3, TakeHeads
<1>7. got'[d] \in Seq(FrameSet) /\ Len(got'[d]) = n + 1
    BY <1>1, <1>3, <1>4, AppendProperties
<1>8. Len(Sent(d)) = Len(b) /\ Sent(d)[n + 1] = f
    BY <1>2, <1>5, <1>6
<1>9. HeadsOf(wire[d], begins[d], pos[d], Len(got[d]))'
    BY <1>4, <1>6, <1>7 DEF HeadsOf
<1>10. pos'[d] \in Nat /\ pos'[d] <= Len(wire'[d])
    BY <1>1, <1>3, <1>4
<1> QED
    BY <1>1, <1>2, <1>4, <1>5, <1>6, <1>7, <1>8, <1>9, <1>10 DEF n

-----------------------------------------------------------------------------
(* The steps *)

Label == {"send", "sending", "await", "joining", "loop", "recv", "reply", "ended", "terminated"}

\* Only thread t goes elsewhere.
Goes(t) == \A u \in Thread \ {t} : pc'[u] = pc[u]

\* Only direction d is touched.
Elsewhere(d) == \A e \in Dir \ {d} : Same(e)

\* The directions and threads by name.
LEMMA Names ==
    /\ Dir = {"fwd", "back"} /\ Thread = {"oms", "heartbeat", "gateway"}
    /\ \A t \in Thread : Writes(t) \in Dir /\ Reads(t) \in Dir
    /\ Writes("oms") = "fwd" /\ Writes("heartbeat") = "fwd" /\ Writes("gateway") = "back"
    /\ Reads("oms") = "back" /\ Reads("heartbeat") = "back" /\ Reads("gateway") = "fwd"
BY DEF Dir, Thread, Writes, Reads

\* A payload has cells, none of them a header.
LEMMA PayloadCells ==
    ASSUME NEW f \in FrameSet
    PROVE  Payload(f) \in Seq(CellSet) /\ Payload(f) # <<>> /\ PayloadOnly(Payload(f))
<1> DEFINE size == PayloadSize[f.type]
<1>1. size \in Nat \ {0}
    BY TcpAssumption DEF FrameSet
<1>2. Payload(f) = [k \in 1 .. size |-> Cell(f, k)]
    BY DEF Payload
<1> HIDE DEF size
<1>3. \A k \in 1 .. size : Cell(f, k) \in CellSet /\ Cell(f, k).k = k
    BY <1>1 DEF Cell, CellSet
<1>4. Payload(f) \in Seq(CellSet) /\ Len(Payload(f)) = size
    BY <1>1, <1>2, <1>3
<1>5. Payload(f) # <<>>
    BY <1>1, <1>4
<1>6. \A k \in 1 .. size : Payload(f)[k].k # 0
    BY <1>1, <1>2, <1>3
<1> QED
    BY <1>4, <1>5, <1>6 DEF PayloadOnly

\* The header of a frame is written.
LEMMA HeaderStep ==
    ASSUME IInv, NEW t \in Thread, NEW f \in FrameSet, SendHeader(t, f)
    PROVE  /\ Control' /\ OutTyped' /\ Shaped /\ Goes(t) /\ pc'[t] = "sending"
           /\ Begun(Writes(t), f) /\ Elsewhere(Writes(t))
<1> DEFINE d == Writes(t)
<1>1. d \in Dir
    BY Names
<1>2. /\ wire' = [wire EXCEPT ![d] = Append(@, Cell(f, 0))]
      /\ begins' = [begins EXCEPT ![d] = Append(@, Len(wire[d]) + 1)]
      /\ out' = [out EXCEPT ![t] = Payload(f)]
      /\ pc' = [pc EXCEPT ![t] = "sending"]
      /\ UNCHANGED <<demo, pos, got, open, alive, crashed>>
    BY DEF SendHeader, Goto
<1> HIDE DEF d
<1>3. Control' /\ Goes(t) /\ pc'[t] = "sending"
    BY <1>2 DEF IInv, Control, Goes
<1>4. OutTyped'
    <2>1. out' \in [Thread -> Seq(CellSet)]
        BY <1>2, PayloadCells DEF IInv, OutTyped
    <2>2. ASSUME NEW u \in Thread
          PROVE  PayloadOnly(out'[u]) /\ (out'[u] # <<>> <=> pc'[u] = "sending")
        <3>1. CASE u = t
            BY <1>2, <3>1, PayloadCells DEF IInv, Control, OutTyped
        <3>2. CASE u # t
            <4>1. out'[u] = out[u] /\ pc'[u] = pc[u]
                BY <1>2, <3>2 DEF IInv, Control, OutTyped
            <4> QED
                BY <4>1 DEF IInv, OutTyped
        <3> QED  BY <3>1, <3>2
    <2> QED
        BY <2>1, <2>2 DEF OutTyped, PayloadOnly
<1>5. Shaped
    BY <1>2 DEF IInv, FlowTyped, Shaped
<1>6. Begun(d, f) /\ Elsewhere(d)
    BY <1>1, <1>2 DEF IInv, FlowTyped, Begun, Elsewhere, Same
<1> QED
    BY <1>3, <1>4, <1>5, <1>6 DEF d

\* A part of the payload is written.
LEMMA PayloadStep ==
    ASSUME IInv, NEW t \in Thread, SendPayload(t)
    PROVE  /\ Control' /\ OutTyped' /\ Shaped /\ Goes(t)
           /\ pc[t] = "sending" /\ pc'[t] \in {"sending", SentLabel[t]}
           /\ \E cells \in Seq(CellSet) : PayloadOnly(cells) /\ Extended(Writes(t), cells)
           /\ Elsewhere(Writes(t))
<1> DEFINE d == Writes(t)
           o == out[t]
<1>1. d \in Dir /\ o \in Seq(CellSet) /\ Len(o) \in Nat /\ PayloadOnly(o)
    BY Names, LenProperties DEF IInv, OutTyped
<1>2. PICK j \in 1 .. Len(o) :
          /\ wire' = [wire EXCEPT ![d] = @ \o SubSeq(o, 1, j)]
          /\ out' = [out EXCEPT ![t] = SubSeq(@, j + 1, Len(@))]
          /\ pc' = [pc EXCEPT ![t] = IF j = Len(o) THEN SentLabel[t] ELSE "sending"]
    BY DEF SendPayload, Goto
<1>3. pc[t] = "sending" /\ UNCHANGED <<demo, begins, pos, got, open, alive, crashed>>
    BY DEF SendPayload
<1> HIDE DEF d
<1> DEFINE cells == SubSeq(o, 1, j)
           rest == SubSeq(o, j + 1, Len(o))
<1>4. /\ cells \in Seq(CellSet) /\ Len(cells) = j /\ \A i \in 1 .. j : cells[i] = o[i]
    BY <1>1, <1>2, SubSeqProperties
<1>5. /\ rest \in Seq(CellSet) /\ Len(rest) = Len(o) - j
      /\ \A i \in 1 .. Len(o) - j : rest[i] = o[j + i]
    BY <1>1, <1>2, SubSeqProperties
<1>6. out' = [out EXCEPT ![t] = rest]
    BY <1>2
<1> HIDE DEF cells, rest, o
<1>7. PayloadOnly(cells) /\ PayloadOnly(rest) /\ (rest = <<>> <=> j = Len(o))
    <2>1. PayloadOnly(cells)
        BY <1>1, <1>2, <1>4 DEF PayloadOnly
    <2>2. PayloadOnly(rest)
        <3>1. \A i \in 1 .. Len(rest) : j + i \in 1 .. Len(o) /\ rest[i] = o[j + i]
            BY <1>1, <1>2, <1>5
        <3> QED
            BY <1>1, <3>1 DEF PayloadOnly
    <2>3. rest = <<>> <=> Len(rest) = 0
        BY <1>5, EmptySeq
    <2> QED
        BY <1>1, <1>2, <1>5, <2>1, <2>2, <2>3
<1>8. SentLabel[t] \in Label \ {"sending"}
    BY Names DEF SentLabel, Label
<1>9. pc' \in [Thread -> Label] /\ Goes(t) /\ pc'[t] \in {"sending", SentLabel[t]}
      /\ (pc'[t] = "sending" <=> j # Len(o))
    BY <1>2, <1>8 DEF IInv, Control, Goes, Label
<1>10. Control'
    BY <1>3, <1>9 DEF IInv, Control, Label
<1>11. OutTyped'
    <2>1. out' \in [Thread -> Seq(CellSet)]
        BY <1>5, <1>6 DEF IInv, OutTyped
    <2>2. ASSUME NEW u \in Thread
          PROVE  PayloadOnly(out'[u]) /\ (out'[u] # <<>> <=> pc'[u] = "sending")
        <3>1. CASE u = t
            <4>1. out'[u] = rest
                BY <1>6, <3>1 DEF IInv, OutTyped
            <4> QED
                BY <1>7, <1>9, <3>1, <4>1
        <3>2. CASE u # t
            <4>1. out'[u] = out[u] /\ pc'[u] = pc[u]
                BY <1>6, <1>9, <3>2 DEF IInv, OutTyped, Goes
            <4> QED
                BY <4>1 DEF IInv, OutTyped
        <3> QED  BY <3>1, <3>2
    <2> QED
        BY <2>1, <2>2 DEF OutTyped, PayloadOnly
<1>12. Shaped
    BY <1>2, <1>3 DEF IInv, FlowTyped, Shaped
<1>13. Extended(d, cells) /\ Elsewhere(d)
    BY <1>1, <1>2, <1>3 DEF IInv, FlowTyped, Extended, Elsewhere, Same, cells
<1> QED
    BY <1>3, <1>4, <1>7, <1>9, <1>10, <1>11, <1>12, <1>13 DEF d

\* A thread goes on outside send_envelope.
LEMMA GotoStep ==
    ASSUME IInv, NEW t \in Thread, NEW l \in Label \ {"sending"}, pc[t] # "sending",
           Goto(t, l), out' = out, open' = open, demo' = demo,
           alive' \in BOOLEAN, crashed' \in BOOLEAN
    PROVE  Control' /\ OutTyped' /\ Goes(t) /\ pc'[t] = l
<1>1. pc' \in [Thread -> Label] /\ Goes(t) /\ pc'[t] = l
    BY DEF IInv, Control, Goto, Goes, Label
<1>2. Control'
    BY <1>1 DEF IInv, Control, Label
<1>3. ASSUME NEW u \in Thread
      PROVE  PayloadOnly(out'[u]) /\ (out'[u] # <<>> <=> pc'[u] = "sending")
    <2>1. pc'[u] = "sending" <=> pc[u] = "sending"
        BY <1>1 DEF Goes
    <2> QED
        BY <2>1 DEF IInv, OutTyped
<1> QED
    BY <1>1, <1>2, <1>3 DEF IInv, OutTyped, PayloadOnly

\* A thread ends inside or outside send_envelope.
LEMMA EndStep ==
    ASSUME IInv, NEW t \in Thread, End(t), alive' \in BOOLEAN, crashed' \in BOOLEAN
    PROVE  /\ Control' /\ OutTyped' /\ Goes(t) /\ pc'[t] = "ended"
           /\ Shaped /\ \A d \in Dir : Same(d)
<1>1. pc' \in [Thread -> Label] /\ Goes(t) /\ pc'[t] = "ended"
    BY DEF IInv, Control, End, Goto, Goes, Label
<1>2. Control'
    BY <1>1, Names DEF IInv, Control, Label, End
<1>3. out' \in [Thread -> Seq(CellSet)]
    BY EmptySeq DEF IInv, OutTyped, End
<1>4. ASSUME NEW u \in Thread
      PROVE  PayloadOnly(out'[u]) /\ (out'[u] # <<>> <=> pc'[u] = "sending")
    <2>1. CASE u = t
        BY <1>1, <2>1 DEF IInv, OutTyped, End, PayloadOnly
    <2>2. CASE u # t
        <3>1. out'[u] = out[u] /\ pc'[u] = pc[u]
            BY <1>1, <2>2 DEF IInv, OutTyped, End, Goes
        <3> QED
            BY <3>1 DEF IInv, OutTyped
    <2> QED  BY <2>1, <2>2
<1>5. OutTyped'
    BY <1>3, <1>4 DEF OutTyped, PayloadOnly
<1>6. Shaped /\ \A d \in Dir : Same(d)
    BY DEF IInv, FlowTyped, End, flow, Shaped, Same
<1> QED
    BY <1>1, <1>2, <1>5, <1>6

\* An envelope is returned.
LEMMA ReceiveStep ==
    ASSUME IInv, NEW t \in Thread, Receive(t), wire' = wire, begins' = begins
    PROVE  /\ Shaped /\ Taken(Reads(t)) /\ Elsewhere(Reads(t))
           /\ got'[Reads(t)] # <<>>
<1> DEFINE d == Reads(t)
<1>1. d \in Dir
    BY Names
<1>2. /\ Available(d) /\ Intact(d)
      /\ got' = [got EXCEPT ![d] = Append(@, Decoded(d))]
      /\ pos' = [pos EXCEPT ![d] = @ + Expected(d)]
    BY DEF Receive
<1> HIDE DEF d
<1>3. Shaped
    BY <1>2 DEF IInv, FlowTyped, Shaped
<1>4. Taken(d) /\ Elsewhere(d)
    BY <1>1, <1>2 DEF IInv, FlowTyped, Taken, Elsewhere, Same
<1>5. Decoded(d) \in FrameSet /\ got[d] \in Seq(FrameSet)
    BY <1>1, <1>2, IntactDecodes DEF IInv, FlowTyped
<1>6. got'[d] # <<>>
    <2>1. got'[d] = Append(got[d], Decoded(d))
        BY <1>4 DEF Taken
    <2> QED
        BY <1>5, <2>1
<1> QED
    BY <1>3, <1>4, <1>6 DEF d

\* Steps that leave the data alone: what they amount to for each reader.
LEMMA QuietMoves ==
    ASSUME \A d \in Dir : Same(d),
           pc["gateway"] = "ended" => pc'["gateway"] = "ended",
           pc["oms"] \in {"joining", "ended", "terminated"} =>
               pc'["oms"] \in {"joining", "ended", "terminated"}
    PROVE  \A d \in Dir : Moves(d)
BY DEF Moves, Failed

\* How many frames of a type were begun.
LEMMA CountIsNat ==
    ASSUME FlowTyped, NEW d \in Dir, NEW type
    PROVE  Count(d, type) \in Nat
<1>1. Len(begins[d]) \in Nat
    BY LenProperties DEF FlowTyped
<1>2. IsFiniteSet(1 .. Len(begins[d]))
    BY <1>1, FS_Interval
<1>3. IsFiniteSet({i \in 1 .. Len(begins[d]) : Sent(d)[i].type = type})
    BY <1>2, FS_Subset
<1> QED
    BY <1>3, FS_CardinalityType DEF Count

\* The OMS: order, payload, answer, and its ends.
LEMMA OmsOutcome ==
    ASSUME IInv, Oms
    PROVE  Outcome
<1> USE Names
<1>1. CASE OmsSend
    <2> DEFINE f == Frame("Order", Count("fwd", "Order") + 1)
    <2>1. f \in FrameSet
        BY CountIsNat DEF IInv, Frame, FrameSet, Types
    <2>2. SendHeader("oms", f) /\ pc["oms"] = "send"
        BY <1>1 DEF OmsSend
    <2> HIDE DEF f
    <2>3. /\ Control' /\ OutTyped' /\ Shaped /\ Goes("oms") /\ pc'["oms"] = "sending"
          /\ Begun("fwd", f) /\ Elsewhere("fwd")
        BY <2>1, <2>2, HeaderStep
    <2>4. pc'["gateway"] = pc["gateway"] /\ got'["fwd"] = got["fwd"]
        BY <2>3 DEF Goes, Begun
    <2>5. Moves("fwd") /\ Moves("back")
        BY <2>1, <2>2, <2>3, <2>4 DEF Moves, Failed, Elsewhere
    <2> QED
        BY <2>3, <2>4, <2>5 DEF Outcome, IInv, FlowTyped
<1>2. CASE SendPayload("oms")
    <2>1. /\ Control' /\ OutTyped' /\ Shaped /\ Goes("oms")
          /\ pc["oms"] = "sending" /\ pc'["oms"] \in {"sending", "await"}
          /\ \E cells \in Seq(CellSet) : PayloadOnly(cells) /\ Extended("fwd", cells)
          /\ Elsewhere("fwd")
        BY <1>2, PayloadStep DEF SentLabel
    <2>2. pc'["gateway"] = pc["gateway"] /\ got'["fwd"] = got["fwd"]
        BY <2>1 DEF Goes, Extended
    <2>3. Moves("fwd") /\ Moves("back")
        BY <2>1, <2>2 DEF Moves, Failed, Elsewhere
    <2> QED
        BY <2>1, <2>2, <2>3 DEF Outcome, IInv, FlowTyped
<1>3. CASE OmsReceives
    <2>1. /\ pc["oms"] = "await" /\ Receive("oms") /\ alive' \in BOOLEAN
          /\ Goto("oms", IF demo THEN "joining" ELSE "send")
          /\ UNCHANGED <<demo, out, wire, begins, open, crashed>>
        BY <1>3 DEF OmsReceives, IInv, Control
    <2>2. crashed' \in BOOLEAN
        BY <2>1 DEF IInv, Control
    <2>3. Control' /\ OutTyped' /\ Goes("oms")
        <3>1. (IF demo THEN "joining" ELSE "send") \in Label \ {"sending"}
            BY DEF Label
        <3> QED
            BY <2>1, <2>2, <3>1, GotoStep
    <2>4. Shaped /\ Taken("back") /\ Elsewhere("back")
        BY <2>1, ReceiveStep
    <2>5. pc'["gateway"] = pc["gateway"] /\ got'["fwd"] = got["fwd"]
        BY <2>3, <2>4 DEF Goes, Elsewhere, Same
    <2>6. Moves("fwd") /\ Moves("back")
        BY <2>1, <2>4, <2>5 DEF Moves, Failed, Elsewhere
    <2> QED
        BY <2>3, <2>4, <2>5, <2>6 DEF Outcome, IInv, FlowTyped
<1>4. ASSUME End("oms"), alive' = alive, crashed' = crashed PROVE Outcome
    <2>1. /\ Control' /\ OutTyped' /\ Goes("oms") /\ pc'["oms"] = "ended"
          /\ Shaped /\ \A d \in Dir : Same(d)
        BY <1>4, EndStep DEF IInv, Control
    <2>2. pc'["gateway"] = pc["gateway"] /\ got'["fwd"] = got["fwd"]
        BY <2>1 DEF Goes, Same
    <2>3. \A d \in Dir : Moves(d)
        BY <2>1, <2>2, QuietMoves
    <2> QED
        BY <2>1, <2>2, <2>3 DEF Outcome, IInv, FlowTyped
<1>5. ASSUME pc' = [t \in Thread |-> IF t = "oms" THEN "terminated" ELSE "ended"],
             out' = [t \in Thread |-> <<>>], open' = [d \in Dir |-> FALSE],
             UNCHANGED <<demo, flow>>, alive' = alive, crashed' = crashed
      PROVE  Outcome
    <2>1. Control'
        BY <1>5 DEF IInv, Control
    <2>2. OutTyped'
        BY <1>5, EmptySeq DEF OutTyped, PayloadOnly
    <2>3. Shaped /\ \A d \in Dir : Same(d)
        BY <1>5 DEF IInv, FlowTyped, flow, Shaped, Same
    <2>4. pc'["gateway"] = "ended" /\ pc'["oms"] = "terminated"
        BY <1>5
    <2>5. \A d \in Dir : Moves(d)
        BY <2>3, <2>4, QuietMoves
    <2> QED
        BY <2>1, <2>2, <2>3, <2>4, <2>5 DEF Outcome
<1> QED
    BY <1>1, <1>2, <1>3, <1>4, <1>5 DEF Oms, OmsJoins, OmsLost, OmsQuits

\* The heartbeat thread: the second writer of the connection.
LEMMA HeartbeatOutcome ==
    ASSUME IInv, Heartbeat, ~ UNCHANGED vars
    PROVE  Outcome
<1> USE Names
<1>1. CASE Beat
    <2> DEFINE f == Frame("Heartbeat", Count("fwd", "Heartbeat") + 1)
    <2>1. f \in FrameSet
        BY CountIsNat DEF IInv, Frame, FrameSet, Types
    <2>2. SendHeader("heartbeat", f)
        BY <1>1 DEF Beat
    <2> HIDE DEF f
    <2>3. /\ Control' /\ OutTyped' /\ Shaped /\ Goes("heartbeat")
          /\ Begun("fwd", f) /\ Elsewhere("fwd")
        BY <2>1, <2>2, HeaderStep
    <2>4. pc'["gateway"] = pc["gateway"] /\ pc'["oms"] = pc["oms"] /\ got'["fwd"] = got["fwd"]
        BY <2>3 DEF Goes, Begun
    <2>5. Moves("fwd") /\ Moves("back")
        BY <2>1, <2>2, <2>3, <2>4 DEF Moves, Failed, Elsewhere
    <2> QED
        BY <2>3, <2>4, <2>5 DEF Outcome, IInv, FlowTyped
<1>2. CASE SendPayload("heartbeat")
    <2>1. /\ Control' /\ OutTyped' /\ Shaped /\ Goes("heartbeat")
          /\ \E cells \in Seq(CellSet) : PayloadOnly(cells) /\ Extended("fwd", cells)
          /\ Elsewhere("fwd")
        BY <1>2, PayloadStep
    <2>2. pc'["gateway"] = pc["gateway"] /\ pc'["oms"] = pc["oms"] /\ got'["fwd"] = got["fwd"]
        BY <2>1 DEF Goes, Extended
    <2>3. Moves("fwd") /\ Moves("back")
        BY <2>1, <2>2 DEF Moves, Failed, Elsewhere
    <2> QED
        BY <2>1, <2>2, <2>3 DEF Outcome, IInv, FlowTyped
<1>3. ASSUME Control', OutTyped', Goes("heartbeat"), UNCHANGED flow
      PROVE  Outcome
    <2>1. Shaped /\ \A d \in Dir : Same(d)
        BY <1>3 DEF IInv, FlowTyped, flow, Shaped, Same
    <2>2. pc'["gateway"] = pc["gateway"] /\ pc'["oms"] = pc["oms"] /\ got'["fwd"] = got["fwd"]
        BY <1>3, <2>1 DEF Goes, Same
    <2>3. \A d \in Dir : Moves(d)
        BY <2>1, <2>2, QuietMoves
    <2> QED
        BY <1>3, <2>1, <2>2, <2>3 DEF Outcome, IInv, FlowTyped
<1>4. CASE HeartbeatStops
    <2>1. /\ pc["heartbeat"] # "sending" /\ Goto("heartbeat", "ended") /\ UNCHANGED flow
          /\ out' = out /\ open' = open /\ demo' = demo
          /\ alive' \in BOOLEAN /\ crashed' \in BOOLEAN /\ "ended" \in Label \ {"sending"}
        BY <1>4 DEF HeartbeatStops, IInv, Control, Label
    <2> QED
        BY <1>3, <2>1, GotoStep
<1>5. CASE BeatFails
    <2>1. /\ pc' = [pc EXCEPT !["heartbeat"] = "ended"]
          /\ out' = [out EXCEPT !["heartbeat"] = <<>>]
          /\ alive' = FALSE /\ UNCHANGED <<demo, flow, open, crashed>>
        BY <1>5 DEF BeatFails, Goto
    <2>2. Control' /\ Goes("heartbeat") /\ pc'["heartbeat"] = "ended"
        BY <2>1 DEF IInv, Control, Goes
    <2>3. out' \in [Thread -> Seq(CellSet)]
        BY <2>1, EmptySeq DEF IInv, OutTyped
    <2>4. ASSUME NEW u \in Thread
          PROVE  PayloadOnly(out'[u]) /\ (out'[u] # <<>> <=> pc'[u] = "sending")
        <3>1. CASE u = "heartbeat"
            BY <2>1, <2>2, <3>1 DEF IInv, OutTyped, PayloadOnly
        <3>2. CASE u # "heartbeat"
            <4>1. out'[u] = out[u] /\ pc'[u] = pc[u]
                BY <2>1, <2>2, <3>2 DEF IInv, OutTyped, Goes
            <4> QED
                BY <4>1 DEF IInv, OutTyped
        <3> QED  BY <3>1, <3>2
    <2>5. OutTyped'
        BY <2>3, <2>4 DEF OutTyped, PayloadOnly
    <2> QED
        BY <1>3, <2>1, <2>2, <2>5
<1> QED
    BY <1>1, <1>2, <1>4, <1>5 DEF Heartbeat, HeartbeatSleeps

\* The gateway: orders in, replies out, and its ends.
LEMMA GatewayOutcome ==
    ASSUME IInv, Gateway
    PROVE  Outcome
<1> USE Names
<1>1. CASE GatewayReplies
    <2> DEFINE f == Frame("Reply", Last(got["fwd"]).n)
    <2>1. pc["gateway"] = "reply" /\ SendHeader("gateway", f)
        BY <1>1 DEF GatewayReplies
    <2>2. f \in FrameSet
        <3>1. got["fwd"] \in Seq(FrameSet) /\ got["fwd"] # <<>>
            BY <2>1 DEF IInv, FlowTyped
        <3>2. Last(got["fwd"]) \in FrameSet
            BY <3>1 DEF Last
        <3>3. Last(got["fwd"]).n \in Nat
            BY <3>2 DEF FrameSet
        <3> QED
            BY <3>3 DEF Frame, FrameSet, Types
    <2> HIDE DEF f
    <2>3. /\ Control' /\ OutTyped' /\ Shaped /\ Goes("gateway") /\ pc'["gateway"] = "sending"
          /\ Begun("back", f) /\ Elsewhere("back")
        BY <2>1, <2>2, HeaderStep
    <2>4. pc'["oms"] = pc["oms"]
        BY <2>3 DEF Goes
    <2>5. Moves("fwd") /\ Moves("back")
        BY <2>1, <2>2, <2>3, <2>4 DEF Moves, Failed, Elsewhere
    <2> QED
        BY <2>3, <2>5 DEF Outcome
<1>2. CASE SendPayload("gateway")
    <2>1. /\ Control' /\ OutTyped' /\ Shaped /\ Goes("gateway")
          /\ pc["gateway"] = "sending" /\ pc'["gateway"] \in {"sending", "loop"}
          /\ \E cells \in Seq(CellSet) : PayloadOnly(cells) /\ Extended("back", cells)
          /\ Elsewhere("back")
        BY <1>2, PayloadStep DEF SentLabel
    <2>2. pc'["oms"] = pc["oms"]
        BY <2>1 DEF Goes
    <2>3. Moves("fwd") /\ Moves("back")
        BY <2>1, <2>2 DEF Moves, Failed, Elsewhere
    <2> QED
        BY <2>1, <2>3 DEF Outcome
<1>3. CASE GatewayReceives
    <2> DEFINE l == IF Decoded("fwd").type = "Order" THEN "reply" ELSE "loop"
    <2>1. /\ pc["gateway"] = "recv" /\ Receive("gateway") /\ Goto("gateway", l)
          /\ UNCHANGED <<demo, out, wire, begins, open, alive, crashed>>
        BY <1>3 DEF GatewayReceives
    <2>2. l \in Label \ {"sending"} /\ l # "ended"
        BY DEF Label
    <2> HIDE DEF l
    <2>3. Control' /\ OutTyped' /\ Goes("gateway") /\ pc'["gateway"] = l
        BY <2>1, <2>2, GotoStep DEF IInv, Control
    <2>4. Shaped /\ Taken("fwd") /\ Elsewhere("fwd") /\ got'["fwd"] # <<>>
        BY <2>1, ReceiveStep
    <2>5. pc'["oms"] = pc["oms"]
        BY <2>3 DEF Goes
    <2>6. Moves("fwd") /\ Moves("back")
        BY <2>1, <2>4, <2>5 DEF Moves, Failed, Elsewhere
    <2> QED
        BY <2>3, <2>4, <2>6 DEF Outcome
<1>4. ASSUME End("gateway"), alive' \in BOOLEAN, crashed' = crashed PROVE Outcome
    <2>1. /\ Control' /\ OutTyped' /\ Goes("gateway") /\ pc'["gateway"] = "ended"
          /\ Shaped /\ \A d \in Dir : Same(d)
        BY <1>4, EndStep DEF IInv, Control
    <2>2. pc'["oms"] = pc["oms"]
        BY <2>1 DEF Goes
    <2>3. \A d \in Dir : Moves(d)
        BY <2>1, <2>2, QuietMoves
    <2> QED
        BY <2>1, <2>3 DEF Outcome
<1>5. ASSUME Control', OutTyped', Goes("gateway"), UNCHANGED flow,
             pc["gateway"] # "ended", pc'["gateway"] # "reply"
      PROVE  Outcome
    <2>1. Shaped /\ \A d \in Dir : Same(d)
        BY <1>5 DEF IInv, FlowTyped, flow, Shaped, Same
    <2>2. pc'["oms"] = pc["oms"]
        BY <1>5 DEF Goes
    <2>3. \A d \in Dir : Moves(d)
        BY <1>5, <2>1, <2>2, QuietMoves
    <2> QED
        BY <1>5, <2>1, <2>3 DEF Outcome
<1>6. CASE GatewayLoop
    <2>1. /\ pc["gateway"] = "loop" /\ Goto("gateway", "recv") /\ UNCHANGED flow
          /\ out' = out /\ open' = open /\ demo' = demo
          /\ alive' \in BOOLEAN /\ crashed' \in BOOLEAN /\ "recv" \in Label \ {"sending"}
        BY <1>6 DEF GatewayLoop, IInv, Control, Label
    <2>2. Control' /\ OutTyped' /\ Goes("gateway") /\ pc'["gateway"] = "recv"
        BY <2>1, GotoStep
    <2> QED
        BY <1>5, <2>1, <2>2
<1>7. CASE GatewayStops
    BY <1>4, <1>7 DEF GatewayStops, IInv, Control
<1>8. CASE GatewayReplyFails /\ ~ demo
    BY <1>4, <1>8 DEF GatewayReplyFails, IInv, Control
<1>9. CASE GatewayReplyFails /\ demo
    <2>1. /\ pc' = [pc EXCEPT !["gateway"] = "loop"] /\ pc["gateway"] = "sending"
          /\ out' = [out EXCEPT !["gateway"] = <<>>]
          /\ UNCHANGED <<demo, flow, open, alive, crashed>>
        BY <1>9 DEF GatewayReplyFails, Goto
    <2>2. Control' /\ Goes("gateway") /\ pc'["gateway"] = "loop"
        BY <2>1 DEF IInv, Control, Goes
    <2>3. out' \in [Thread -> Seq(CellSet)]
        BY <2>1, EmptySeq DEF IInv, OutTyped
    <2>4. ASSUME NEW u \in Thread
          PROVE  PayloadOnly(out'[u]) /\ (out'[u] # <<>> <=> pc'[u] = "sending")
        <3>1. CASE u = "gateway"
            BY <2>1, <2>2, <3>1 DEF IInv, OutTyped, PayloadOnly
        <3>2. CASE u # "gateway"
            <4>1. out'[u] = out[u] /\ pc'[u] = pc[u]
                BY <2>1, <2>2, <3>2 DEF IInv, OutTyped, Goes
            <4> QED
                BY <4>1 DEF IInv, OutTyped
        <3> QED  BY <3>1, <3>2
    <2>5. OutTyped'
        BY <2>3, <2>4 DEF OutTyped, PayloadOnly
    <2> QED
        BY <1>5, <2>1, <2>2, <2>5
<1>10. CASE GatewayLost
    BY <1>4, <1>10 DEF GatewayLost, IInv, Control
<1> QED
    BY <1>1, <1>2, <1>3, <1>6, <1>7, <1>8, <1>9, <1>10 DEF Gateway

\* A process dies.
LEMMA CrashOutcome ==
    ASSUME IInv, NEW t \in Thread, Crash(t)
    PROVE  Outcome
<1> USE Names
<1>1. /\ Control' /\ OutTyped' /\ Goes(t) /\ pc'[t] = "ended"
      /\ Shaped /\ \A d \in Dir : Same(d)
    BY EndStep DEF Crash, IInv, Control
<1>2. /\ pc'["gateway"] \in {pc["gateway"], "ended"} /\ pc'["oms"] \in {pc["oms"], "ended"}
      /\ got'["fwd"] = got["fwd"]
    BY <1>1 DEF Goes, Same
<1>3. \A d \in Dir : Moves(d)
    BY <1>1, <1>2, QuietMoves
<1> QED
    BY <1>1, <1>2, <1>3 DEF Outcome, IInv, FlowTyped

-----------------------------------------------------------------------------
(* The invariant *)

\* The invariant at the start: nothing is written.
LEMMA InitIInv == Init => IInv
<1> SUFFICES ASSUME Init PROVE IInv
    OBVIOUS
<1>1. Control
    <2>1. /\ pc["oms"] = "send" /\ pc["heartbeat"] \in {"loop", "ended"} /\ pc["gateway"] = "loop"
          /\ pc = [t \in Thread |-> pc[t]]
        BY Names DEF Init
    <2> QED
        BY <2>1, Names DEF Init, Control
<1>2. OutTyped
    BY Names, EmptySeq DEF Init, OutTyped, PayloadOnly
<1>3. \A d \in Dir : wire[d] = <<>> /\ begins[d] = <<>> /\ got[d] = <<>> /\ pos[d] = 0
    BY DEF Init
<1>4. FlowTyped
    BY <1>3, EmptySeq DEF Init, FlowTyped
<1>5. Heads
    BY <1>3 DEF Heads, HeadsOf
<1> QED
    BY <1>1, <1>2, <1>4, <1>5 DEF IInv

\* Every step is a move in both directions.
LEMMA NextOutcome ==
    ASSUME IInv, Next, ~ UNCHANGED vars
    PROVE  Outcome
BY OmsOutcome, HeartbeatOutcome, GatewayOutcome, CrashOutcome DEF Next, Finished

\* A move keeps what the invariant says of its direction.
LEMMA MoveKeeps ==
    ASSUME FlowTyped, Heads, NEW d \in Dir, Moves(d)
    PROVE  /\ wire'[d] \in Seq(CellSet) /\ begins'[d] \in Seq(Nat) /\ got'[d] \in Seq(FrameSet)
           /\ pos'[d] \in Nat /\ pos'[d] <= Len(wire'[d])
           /\ HeadsOf(wire[d], begins[d], pos[d], Len(got[d]))'
<1>1. CASE Same(d)
    <2>1. /\ wire[d] \in Seq(CellSet) /\ begins[d] \in Seq(Nat) /\ got[d] \in Seq(FrameSet)
          /\ pos[d] \in Nat /\ pos[d] <= Len(wire[d])
          /\ HeadsOf(wire[d], begins[d], pos[d], Len(got[d]))
        BY DEF FlowTyped, Heads
    <2>2. HeadsOf(wire[d], begins[d], pos[d], Len(got[d]))'
        BY <1>1, <2>1, MoveSame
    <2> QED
        BY <1>1, <2>1, <2>2 DEF Same
<1> QED
    BY <1>1, MoveExtended, MoveBegun, MoveTaken DEF Moves

\* Every step keeps the invariant.
LEMMA NextIInv == IInv /\ [Next]_vars => IInv'
<1> SUFFICES ASSUME IInv, [Next]_vars PROVE IInv'
    OBVIOUS
<1>1. CASE UNCHANGED vars
    BY <1>1 DEF vars, ends, flow, IInv, Control, OutTyped, FlowTyped, Heads, HeadsOf, PayloadOnly
<1>2. CASE Next /\ ~ UNCHANGED vars
    <2>1. Outcome
        BY <1>2, NextOutcome
    <2>2. \A d \in Dir : Moves(d)
        BY <2>1 DEF Outcome
    <2>3. \A d \in Dir :
              /\ wire'[d] \in Seq(CellSet) /\ begins'[d] \in Seq(Nat) /\ got'[d] \in Seq(FrameSet)
              /\ pos'[d] \in Nat /\ pos'[d] <= Len(wire'[d])
              /\ HeadsOf(wire[d], begins[d], pos[d], Len(got[d]))'
        BY <2>2, MoveKeeps DEF IInv
    <2>4. FlowTyped'
        BY <2>1, <2>3 DEF Outcome, Shaped, FlowTyped
    <2>5. Heads'
        BY <2>3 DEF Heads
    <2> QED
        BY <2>1, <2>4, <2>5 DEF Outcome, IInv
<1> QED  BY <1>1, <1>2

\* The invariant holds in every reachable state.
LEMMA IInvHolds == Spec => []IInv
BY InitIInv, NextIInv, PTL DEF Spec

\* Every variable keeps its type for any sizes of the payloads: a thread has
\* bytes left to send exactly while it is inside send_envelope, and no byte
\* is read that was not written.
THEOREM TypeCorrect == Spec => []TypeOK
<1>1. IInv => TypeOK
    <2> SUFFICES ASSUME IInv PROVE TypeOK
        OBVIOUS
    <2>1. \A d \in Dir : pos[d] \in 0 .. Len(wire[d])
        <3> TAKE d \in Dir
        <3>1. pos[d] \in Nat /\ pos[d] <= Len(wire[d]) /\ Len(wire[d]) \in Nat
            BY LenProperties DEF IInv, FlowTyped
        <3> QED
            BY <3>1
    <2> QED
        BY <2>1 DEF IInv, Control, OutTyped, TypeOK
<1> QED
    BY <1>1, IInvHolds, PTL

-----------------------------------------------------------------------------
(* The message channels *)

\* What a step is for the messages of a direction.
Relayed(d) ==
    \/ Sent(d)' = Sent(d) /\ got'[d] = got[d] /\ (Failed(d) => Failed(d)')
    \/ /\ Len(Sent(d)') = Len(Sent(d)) + 1 /\ SubSeq(Sent(d)', 1, Len(Sent(d))) = Sent(d)
       /\ got'[d] = got[d] /\ (Failed(d)' <=> Failed(d))
    \/ /\ ~ Failed(d) /\ Len(got[d]) < Len(Sent(d))
       /\ got'[d] = Append(got[d], Sent(d)[Len(got[d]) + 1]) /\ Sent(d)' = Sent(d)

\* A move relays messages.
LEMMA MoveRelays ==
    ASSUME FlowTyped, Heads, NEW d \in Dir, Moves(d)
    PROVE  Relayed(d)
<1>1. CASE Same(d) /\ (Failed(d) => Failed(d)')
    BY <1>1, MoveSame DEF Relayed, Same
<1>2. ASSUME NEW cells \in Seq(CellSet), PayloadOnly(cells), Extended(d, cells),
             Failed(d)' <=> Failed(d)
      PROVE  Relayed(d)
    BY <1>2, MoveExtended DEF Relayed
<1>3. ASSUME NEW f \in FrameSet, Begun(d, f), Failed(d)' <=> Failed(d)
      PROVE  Relayed(d)
    BY <1>3, MoveBegun DEF Relayed
<1>4. CASE Taken(d) /\ ~ Failed(d)
    BY <1>4, MoveTaken DEF Relayed
<1> QED
    BY <1>1, <1>2, <1>3, <1>4 DEF Moves

\* Every step relays messages in both directions.
LEMMA NextRelays ==
    ASSUME IInv, [Next]_vars, NEW d \in Dir
    PROVE  Relayed(d)
<1>1. CASE UNCHANGED vars
    BY <1>1 DEF vars, ends, flow, Relayed, Sent, Failed
<1>2. CASE Next /\ ~ UNCHANGED vars
    BY <1>2, NextOutcome, MoveRelays DEF Outcome, IInv
<1> QED  BY <1>1, <1>2

\* To the gateway, every step is one of the channel.
LEMMA ForwardStep ==
    ASSUME IInv, [Next]_vars
    PROVE  [Forward!Next]_(Forward!vars)
<1>1. Relayed("fwd")
    BY NextRelays DEF Dir
<1>2. Failed("fwd") <=> pc["gateway"] = "ended"
    BY DEF Failed
<1>3. Failed("fwd")' <=> pc'["gateway"] = "ended"
    BY DEF Failed
<1>4. CASE /\ Sent("fwd")' = Sent("fwd") /\ got'["fwd"] = got["fwd"]
           /\ Failed("fwd") => Failed("fwd")'
    <2>1. CASE pc'["gateway"] = "ended"
        BY <1>4, <2>1 DEF Forward!Next, Forward!Fail
    <2>2. CASE pc'["gateway"] # "ended"
        BY <1>2, <1>3, <1>4, <2>2 DEF Forward!vars
    <2> QED  BY <2>1, <2>2
<1>5. CASE /\ Len(Sent("fwd")') = Len(Sent("fwd")) + 1
           /\ SubSeq(Sent("fwd")', 1, Len(Sent("fwd"))) = Sent("fwd")
           /\ got'["fwd"] = got["fwd"] /\ (Failed("fwd")' <=> Failed("fwd"))
    BY <1>2, <1>3, <1>5 DEF Forward!Next, Forward!Send
<1>6. CASE /\ ~ Failed("fwd") /\ Len(got["fwd"]) < Len(Sent("fwd"))
           /\ got'["fwd"] = Append(got["fwd"], Sent("fwd")[Len(got["fwd"]) + 1])
           /\ Sent("fwd")' = Sent("fwd")
    BY <1>2, <1>6 DEF Forward!Next, Forward!Deliver
<1> QED
    BY <1>1, <1>4, <1>5, <1>6 DEF Relayed

\* To the OMS, every step is one of the channel.
LEMMA BackStep ==
    ASSUME IInv, [Next]_vars
    PROVE  [Back!Next]_(Back!vars)
<1> DEFINE ended == {"joining", "ended", "terminated"}
<1>1. Relayed("back")
    BY NextRelays DEF Dir
<1>2. Failed("back") <=> pc["oms"] \in ended
    BY DEF Failed
<1>3. Failed("back")' <=> pc'["oms"] \in ended
    BY DEF Failed
<1>4. CASE /\ Sent("back")' = Sent("back") /\ got'["back"] = got["back"]
           /\ Failed("back") => Failed("back")'
    <2>1. CASE pc'["oms"] \in ended
        BY <1>4, <2>1 DEF Back!Next, Back!Fail
    <2>2. CASE pc'["oms"] \notin ended
        BY <1>2, <1>3, <1>4, <2>2 DEF Back!vars
    <2> QED  BY <2>1, <2>2
<1>5. CASE /\ Len(Sent("back")') = Len(Sent("back")) + 1
           /\ SubSeq(Sent("back")', 1, Len(Sent("back"))) = Sent("back")
           /\ got'["back"] = got["back"] /\ (Failed("back")' <=> Failed("back"))
    BY <1>2, <1>3, <1>5 DEF Back!Next, Back!Send
<1>6. CASE /\ ~ Failed("back") /\ Len(got["back"]) < Len(Sent("back"))
           /\ got'["back"] = Append(got["back"], Sent("back")[Len(got["back"]) + 1])
           /\ Sent("back")' = Sent("back")
    BY <1>2, <1>6 DEF Back!Next, Back!Deliver
<1> QED
    BY <1>1, <1>4, <1>5, <1>6 DEF Relayed

\* Nothing is sent or received at the start.
LEMMA InitChannels == Init => Forward!Init /\ Back!Init
<1> SUFFICES ASSUME Init PROVE Forward!Init /\ Back!Init
    OBVIOUS
<1>1. \A d \in Dir : begins[d] = <<>> /\ got[d] = <<>>
    BY DEF Init
<1>2. \A d \in Dir : Sent(d) = <<>>
    BY <1>1 DEF Sent
<1>3. (pc["gateway"] = "ended") = FALSE /\ (pc["oms"] \in {"joining", "ended", "terminated"}) = FALSE
    BY DEF Init
<1> QED
    BY <1>1, <1>2, <1>3, Names DEF Forward!Init, Back!Init

\* send_envelope and recv_envelope implement a message channel in each
\* direction, for payloads of any size, however send() splits them, wherever
\* a process dies and whatever two threads mix on one connection: only whole
\* messages come out, as they were sent, in order, none twice, none left out,
\* and none after a receive that failed.
THEOREM ImplementsChannels == Spec => RefinesChannel
<1>1. Init => Forward!Init /\ Back!Init
    BY InitChannels
<1>2. IInv /\ [Next]_vars => [Forward!Next]_(Forward!vars) /\ [Back!Next]_(Back!vars)
    BY ForwardStep, BackStep
<1> QED
    BY <1>1, <1>2, IInvHolds, PTL DEF Spec, RefinesChannel, Forward!Spec, Back!Spec

-----------------------------------------------------------------------------
(* Frames that are not mixed                                               *)
(*                                                                         *)
(* The frames of a direction are whole and next to each other, the latest  *)
(* one perhaps unfinished, as long as no header is written into another    *)
(* frame.                                                                  *)

Size(f) == PayloadSize[f.type]

\* The latest frame, and how much of its payload is written.
LastBegin(b)  == b[Len(b)]
Current(w, b) == w[LastBegin(b)].frame
Written(w, b) == Len(w) - LastBegin(b)

Whole(w, b) == b # <<>> => Written(w, b) = Size(Current(w, b))

\* o is what is missing of the latest frame.
Missing(w, b, o) ==
    /\ b # <<>> /\ Len(o) = Size(Current(w, b)) - Written(w, b)
    /\ \A j \in 1 .. Len(o) : o[j] = Cell(Current(w, b), Written(w, b) + j)

\* Behind every header is its payload, as far as it is written.
InPlace(w, b) ==
    \A i \in 1 .. Len(b) : \A k \in 1 .. Size(w[b[i]].frame) :
        b[i] + k <= Len(w) => w[b[i] + k] = Cell(w[b[i]].frame, k)

\* The reader stands behind the last cell of a frame.
AtBoundary(w, p) == p > 0 => w[p].k = Size(w[p].frame)

Orderly(w, b, p) ==
    /\ Contiguous(w) /\ InPlace(w, b) /\ AtBoundary(w, p)
    /\ w # <<>> => b # <<>> /\ w[1].k = 0
    /\ b # <<>> => Written(w, b) <= Size(Current(w, b))

\* What the invariant says of a direction.
Lane(w, b, p, n) ==
    /\ w \in Seq(CellSet) /\ b \in Seq(Nat) /\ p \in Nat /\ n \in Nat
    /\ p <= Len(w) /\ HeadsOf(w, b, p, n)

\* Sums and differences of places.
LEMMA Places ==
    ASSUME NEW len \in Nat, NEW l \in Nat, NEW k \in Nat, l + k = len, NEW j \in Nat
    PROVE  /\ (len + j) - l = k + j
           /\ \A x \in Nat : len < l + x /\ l + x <= len + j =>
                 x - k \in 1 .. j /\ l + x = len + (x - k) /\ k + (x - k) = x
OBVIOUS

\* The place k behind l is the last one.
LEMMA LastPlace ==
    ASSUME NEW len \in Nat, NEW l \in 1 .. len, NEW k, k = len - l
    PROVE  l + k = len /\ k \in Nat
OBVIOUS

\* Cells behind cells.
LEMMA ConcatCells ==
    ASSUME NEW w \in Seq(CellSet), NEW c \in Seq(CellSet)
    PROVE  /\ w \o c \in Seq(CellSet) /\ Len(w \o c) = Len(w) + Len(c)
           /\ Len(w) \in Nat /\ Len(c) \in Nat
           /\ \A i \in 1 .. Len(w) : (w \o c)[i] = w[i]
           /\ \A i \in 1 .. Len(c) : (w \o c)[Len(w) + i] = c[i]
<1>1. Len(w) \in Nat /\ Len(c) \in Nat
    BY LenProperties
<1> QED
    BY <1>1, ConcatProperties

\* Cells and their frames.
LEMMA CellTypes ==
    ASSUME NEW w \in Seq(CellSet), NEW i \in 1 .. Len(w)
    PROVE  /\ w[i] \in CellSet /\ w[i].frame \in FrameSet /\ w[i].k \in Nat
           /\ Size(w[i].frame) \in Nat /\ Size(w[i].frame) > 0
<1>1. w[i] \in CellSet
    BY ElementOfSeq
<1>2. w[i].frame \in FrameSet /\ w[i].k \in Nat
    BY <1>1 DEF CellSet
<1>3. w[i].frame.type \in Types
    BY <1>2 DEF FrameSet
<1> QED
    BY <1>1, <1>2, <1>3, TcpAssumption DEF Size

\* What a cell consists of.
LEMMA CellParts ==
    ASSUME NEW f, NEW k
    PROVE  Cell(f, k).frame = f /\ Cell(f, k).k = k
BY DEF Cell

\* The latest header is a header, and no frame before it reaches beyond it.
LEMMA LatestFrame ==
    ASSUME NEW w, NEW b, NEW p, NEW n, Lane(w, b, p, n), InPlace(w, b), b # <<>>
    PROVE  /\ Len(b) \in 1 .. Len(b) /\ LastBegin(b) \in 1 .. Len(w)
           /\ w[LastBegin(b)].k = 0 /\ Written(w, b) \in Nat
           /\ Current(w, b) \in FrameSet /\ Size(Current(w, b)) \in Nat
           /\ \A i \in 1 .. Len(b) - 1 :
                 b[i] + Size(w[b[i]].frame) < LastBegin(b)
<1>L. w \in Seq(CellSet) /\ b \in Seq(Nat) /\ HeadsOf(w, b, p, n)
    BY DEF Lane
<1>1. Len(w) \in Nat /\ Len(b) \in Nat /\ Len(b) # 0
    BY <1>L, LenProperties, EmptySeq
<1>2. Len(b) \in 1 .. Len(b)
    BY <1>1
<1>3. LastBegin(b) \in 1 .. Len(w) /\ w[LastBegin(b)].k = 0
    BY <1>L, <1>2 DEF HeadsOf, LastBegin
<1>4. Written(w, b) \in Nat
    BY <1>1, <1>3 DEF Written
<1>5. Current(w, b) \in FrameSet /\ Size(Current(w, b)) \in Nat
    BY <1>L, <1>3, CellTypes DEF Current
<1>6. ASSUME NEW i \in 1 .. Len(b) - 1
      PROVE  b[i] + Size(w[b[i]].frame) < LastBegin(b)
    <2> DEFINE q == b[i]
               s == Size(w[q].frame)
               l == LastBegin(b)
    <2>1. i \in 1 .. Len(b) /\ i < Len(b)
        BY <1>1
    <2>2. q \in 1 .. Len(w) /\ q < l
        BY <1>L, <1>2, <2>1 DEF HeadsOf, LastBegin
    <2>3. s \in Nat
        BY <1>L, <2>2, CellTypes
    <2> HIDE DEF s, l
    <2> SUFFICES ASSUME q + s >= l PROVE FALSE
        BY <1>1, <1>3, <2>2, <2>3 DEF s, l
    <2>4. l \in 1 .. Len(w)
        BY <1>3 DEF l
    <2>5. l - q \in 1 .. s /\ q + (l - q) = l
        <3> HIDE DEF q
        <3> QED  BY <1>1, <2>2, <2>3, <2>4
    <2>6. q + (l - q) <= Len(w)
        BY <2>4, <2>5, <1>1
    <2>7. w[q + (l - q)] = Cell(w[q].frame, l - q)
        BY <2>1, <2>5, <2>6 DEF InPlace, s
    <2>8. w[l].k = l - q
        BY <2>5, <2>7, CellParts
    <2>9. l - q # 0
        BY <2>3, <2>5
    <2> QED
        BY <1>3, <2>8, <2>9 DEF l
<1> QED
    BY <1>2, <1>3, <1>4, <1>5, <1>6

\* The last cell that is written belongs to the latest frame.
LEMMA LastCell ==
    ASSUME NEW w, NEW b, NEW p, NEW n, Lane(w, b, p, n), Orderly(w, b, p), b # <<>>
    PROVE  w[Len(w)].frame = Current(w, b) /\ w[Len(w)].k = Written(w, b)
<1> DEFINE l == LastBegin(b)
           k == Written(w, b)
<1>1. /\ Len(b) \in 1 .. Len(b) /\ l \in 1 .. Len(w) /\ w[l].k = 0 /\ k \in Nat
      /\ Size(Current(w, b)) \in Nat /\ k <= Size(Current(w, b))
    BY LatestFrame DEF Orderly
<1>2. Len(w) \in Nat
    BY LenProperties DEF Lane
<1>3. l + k = Len(w)
    BY <1>1, <1>2 DEF Written
<1>4. CASE k = 0
    <2>1. l = Len(w)
        <3> HIDE DEF l, k
        <3> QED  BY <1>1, <1>2, <1>3, <1>4
    <2> QED
        BY <1>1, <1>4, <2>1 DEF Current
<1>5. CASE k # 0
    <2>1. k \in 1 .. Size(Current(w, b)) /\ l + k <= Len(w)
        <3> HIDE DEF l, k
        <3> QED  BY <1>1, <1>2, <1>3, <1>5
    <2>2. w[b[Len(b)] + k] = Cell(w[b[Len(b)]].frame, k)
        BY <1>1, <2>1 DEF Orderly, InPlace, Current, LastBegin
    <2> QED
        BY <1>3, <2>2, CellParts DEF Current, LastBegin
<1> QED  BY <1>4, <1>5

\* A header behind a whole frame.
LEMMA OrderlyHeader ==
    ASSUME NEW w, NEW b, NEW p, NEW n, Lane(w, b, p, n), Orderly(w, b, p),
           Whole(w, b), NEW f \in FrameSet
    PROVE  /\ Orderly(Append(w, Cell(f, 0)), Append(b, Len(w) + 1), p)
           /\ Missing(Append(w, Cell(f, 0)), Append(b, Len(w) + 1), Payload(f))
<1> DEFINE c == Cell(f, 0)
           v == Append(w, c)
           e == Append(b, Len(w) + 1)
<1>L. w \in Seq(CellSet) /\ b \in Seq(Nat) /\ p \in Nat /\ p <= Len(w) /\ HeadsOf(w, b, p, n)
    BY DEF Lane
<1>0. Len(w) \in Nat /\ Len(b) \in Nat /\ c \in CellSet /\ c.k = 0 /\ c.frame = f
    BY <1>L, LenProperties DEF Cell, CellSet
<1>1. /\ v \in Seq(CellSet) /\ Len(v) = Len(w) + 1 /\ v[Len(w) + 1] = c
      /\ \A i \in 1 .. Len(w) : v[i] = w[i]
    BY <1>L, <1>0, AppendProperties
<1>2. Len(w) + 1 \in Nat
    BY <1>0
<1>3. /\ e \in Seq(Nat) /\ Len(e) = Len(b) + 1 /\ e[Len(b) + 1] = Len(w) + 1
      /\ \A i \in 1 .. Len(b) : e[i] = b[i]
    BY <1>L, <1>2, AppendProperties
<1>3a. e # <<>>
    BY <1>0, <1>3, EmptySeq
<1> HIDE DEF c, v, e
<1>4. LastBegin(e) = Len(w) + 1 /\ Current(v, e) = f /\ Written(v, e) = 0
    BY <1>0, <1>1, <1>3 DEF LastBegin, Current, Written
<1>5. Size(f) \in Nat /\ Size(f) > 0
    BY TcpAssumption DEF FrameSet, Size
<1>6. Missing(v, e, Payload(f))
    <2>1. Payload(f) = [k \in 1 .. Size(f) |-> Cell(f, k)]
        BY DEF Payload, Size
    <2>2. Len(Payload(f)) = Size(f)
        BY <1>5, <2>1
    <2>3. \A j \in 1 .. Size(f) : Payload(f)[j] = Cell(f, 0 + j)
        BY <1>5, <2>1
    <2> QED
        BY <1>3a, <1>4, <1>5, <2>2, <2>3 DEF Missing
<1>7. \A i \in 1 .. Len(b) : b[i] \in 1 .. Len(w) /\ v[b[i]] = w[b[i]] /\ e[i] = b[i]
    BY <1>L, <1>1, <1>3 DEF HeadsOf
<1>8. \A i \in 1 .. Len(b) : b[i] + Size(w[b[i]].frame) <= Len(w)
    <2> SUFFICES ASSUME NEW i \in 1 .. Len(b) PROVE b[i] + Size(w[b[i]].frame) <= Len(w)
        OBVIOUS
    <2>0. b # <<>>
        BY <1>0
    <2>1. /\ LastBegin(b) \in 1 .. Len(w) /\ Written(w, b) = Size(Current(w, b))
          /\ \A x \in 1 .. Len(b) - 1 : b[x] + Size(w[b[x]].frame) < LastBegin(b)
        BY <2>0, LatestFrame DEF Orderly, Whole
    <2>2. b[i] \in 1 .. Len(w) /\ Size(w[b[i]].frame) \in Nat
        BY <1>7, <1>L, CellTypes
    <2>3. CASE i = Len(b)
        <3>1. LastBegin(b) = b[i] /\ Len(w) - b[i] = Size(w[b[i]].frame)
            BY <2>1, <2>3 DEF LastBegin, Current, Written
        <3> QED
            BY <1>0, <2>2, <3>1
    <2>4. CASE i \in 1 .. Len(b) - 1
        <3>1. b[i] + Size(w[b[i]].frame) < LastBegin(b)
            BY <2>1, <2>4
        <3> QED
            BY <1>0, <2>1, <2>2, <3>1
    <2> QED  BY <1>0, <2>3, <2>4
<1>9. InPlace(v, e)
    <2> SUFFICES ASSUME NEW i \in 1 .. Len(e), NEW k \in 1 .. Size(v[e[i]].frame),
                        e[i] + k <= Len(v)
                 PROVE  v[e[i] + k] = Cell(v[e[i]].frame, k)
        BY DEF InPlace
    <2>1. CASE i = Len(b) + 1
        <3>1. e[i] = Len(w) + 1 /\ v[e[i]].frame = f
            BY <1>0, <1>1, <1>3, <2>1
        <3> QED
            BY <1>0, <1>1, <1>5, <3>1
    <2>2. CASE i \in 1 .. Len(b)
        <3>1. /\ e[i] = b[i] /\ b[i] \in 1 .. Len(w) /\ v[e[i]] = w[b[i]]
              /\ Size(w[b[i]].frame) \in Nat
            BY <1>7, <2>2, <1>L, CellTypes
        <3>2. k \in 1 .. Size(w[b[i]].frame) /\ b[i] + Size(w[b[i]].frame) <= Len(w)
            BY <1>8, <2>2, <3>1
        <3>3. b[i] + k \in 1 .. Len(w) /\ b[i] + k <= Len(w)
            <4> DEFINE q == b[i]
                       s == Size(w[b[i]].frame)
            <4>1. q \in 1 .. Len(w) /\ s \in Nat /\ k \in 1 .. s /\ q + s <= Len(w)
                BY <3>1, <3>2
            <4> HIDE DEF q, s
            <4>2. q + k \in 1 .. Len(w) /\ q + k <= Len(w)
                BY <1>0, <4>1
            <4> QED
                BY <4>2 DEF q
        <3>4. w[b[i] + k] = Cell(w[b[i]].frame, k)
            BY <2>2, <3>2, <3>3 DEF Orderly, InPlace
        <3> QED
            BY <1>1, <3>1, <3>3, <3>4
    <2> QED  BY <1>0, <1>3, <2>1, <2>2
<1>10. Contiguous(v)
    <2> SUFFICES ASSUME NEW i \in 1 .. Len(v) - 1
                 PROVE  IF v[i].k < PayloadSize[v[i].frame.type]
                        THEN v[i + 1] = Cell(v[i].frame, v[i].k + 1) ELSE v[i + 1].k = 0
        BY DEF Contiguous
    <2>1. CASE i = Len(w)
        <3>1. b # <<>> /\ w[Len(w)].frame = Current(w, b) /\ w[Len(w)].k = Written(w, b)
            <4>1. w # <<>>
                BY <2>1, <1>0, EmptySeq
            <4> QED
                BY <4>1, LastCell DEF Orderly
        <3>2. w[i].k = Size(w[i].frame) /\ v[i] = w[i] /\ v[i + 1] = c /\ i \in 1 .. Len(w)
            BY <1>0, <1>1, <2>1, <3>1 DEF Whole
        <3>3. Size(w[i].frame) \in Nat
            BY <3>2, <1>L, CellTypes
        <3> QED
            BY <1>0, <3>2, <3>3 DEF Size
    <2>2. CASE i \in 1 .. Len(w) - 1
        <3>1. v[i] = w[i] /\ v[i + 1] = w[i + 1]
            BY <1>0, <1>1, <2>2
        <3> QED
            BY <2>2, <3>1 DEF Orderly, Contiguous
    <2> QED  BY <1>0, <1>1, <2>1, <2>2
<1>11. AtBoundary(v, p)
    <2>1. p > 0 => p \in 1 .. Len(w)
        BY <1>L, <1>0
    <2> QED
        BY <1>1, <2>1 DEF Orderly, AtBoundary
<1>12. v[1].k = 0
    <2>1. CASE w = <<>>
        BY <1>0, <1>1, <2>1
    <2>2. CASE w # <<>>
        <3>1. 1 \in 1 .. Len(w)
            BY <1>L, <1>0, <2>2, EmptySeq
        <3> QED
            BY <1>1, <2>2, <3>1 DEF Orderly
    <2> QED  BY <2>1, <2>2
<1>13. Written(v, e) <= Size(Current(v, e))
    BY <1>4, <1>5
<1> QED
    BY <1>3a, <1>6, <1>9, <1>10, <1>11, <1>12, <1>13 DEF Orderly, v, e, c

\* c is the first j cells of o, and r the others.
Parts(o, j, c, r) ==
    /\ o \in Seq(CellSet) /\ c \in Seq(CellSet) /\ r \in Seq(CellSet)
    /\ j \in 1 .. Len(o) /\ Len(c) = j /\ Len(r) = Len(o) - j
    /\ \A i \in 1 .. j : c[i] = o[i]
    /\ \A i \in 1 .. Len(o) - j : r[i] = o[j + i]

\* More of the payload of the latest frame.
LEMMA OrderlyPayload ==
    ASSUME NEW w, NEW b, NEW p, NEW n, Lane(w, b, p, n), Orderly(w, b, p),
           NEW o, NEW c, NEW r, NEW j, Missing(w, b, o), Parts(o, j, c, r)
    PROVE  /\ Orderly(w \o c, b, p) /\ Missing(w \o c, b, r)
           /\ j = Len(o) => Whole(w \o c, b)
<1> DEFINE v == w \o c
           l == LastBegin(b)
           k == Written(w, b)
           f == Current(w, b)
           s == Size(f)
<1>L. w \in Seq(CellSet) /\ b \in Seq(Nat) /\ p \in Nat /\ p <= Len(w) /\ HeadsOf(w, b, p, n)
    BY DEF Lane
<1>0. Len(w) \in Nat /\ Len(b) \in Nat /\ Len(o) \in Nat
    BY <1>L, LenProperties DEF Parts
<1>1. /\ v \in Seq(CellSet) /\ Len(v) = Len(w) + j
      /\ \A i \in 1 .. Len(w) : v[i] = w[i]
      /\ \A i \in 1 .. j : v[Len(w) + i] = c[i]
    BY <1>L, ConcatCells DEF Parts
<1>2. /\ Len(b) \in 1 .. Len(b) /\ l \in 1 .. Len(w) /\ w[l].k = 0 /\ k \in Nat
      /\ s \in Nat /\ l = b[Len(b)]
      /\ \A i \in 1 .. Len(b) - 1 : b[i] + Size(w[b[i]].frame) < l
    BY LatestFrame DEF Orderly, Missing, LastBegin
<1>3. b # <<>> /\ Len(o) = s - k /\ \A i \in 1 .. Len(o) : o[i] = Cell(f, k + i)
    BY DEF Missing
<1>4. l + k = Len(w)
    <2>1. k = Len(w) - l
        BY DEF Written
    <2>2. Len(w) \in Nat /\ l \in 1 .. Len(w)
        BY <1>0, <1>2
    <2> HIDE DEF k, l
    <2> QED
        BY <2>1, <2>2, LastPlace
<1>5. w[Len(w)].frame = f /\ w[Len(w)].k = k
    BY <1>3, LastCell
<1>6. f = w[l].frame
    BY DEF Current
<1> HIDE DEF v, l, k, f, s
<1>n. /\ Len(w) \in Nat /\ Len(o) \in Nat /\ l \in 1 .. Len(w) /\ k \in Nat /\ s \in Nat
      /\ Len(v) = Len(w) + j /\ l + k = Len(w) /\ Len(o) = s - k
    BY <1>0, <1>1, <1>2, <1>3, <1>4
<1>p. /\ j \in 1 .. Len(o) /\ Len(r) = Len(o) - j
      /\ \A i \in 1 .. j : c[i] = o[i] /\ \A y \in 1 .. Len(o) - j : r[y] = o[j + y]
    BY DEF Parts
<1>m. Len(w) \in Nat /\ l \in Nat /\ k \in Nat /\ l + k = Len(w) /\ j \in Nat
    BY <1>n, <1>p
<1>q. \A x \in Nat : Len(w) < l + x /\ l + x <= Len(w) + j =>
          x - k \in 1 .. j /\ l + x = Len(w) + (x - k) /\ k + (x - k) = x
    BY <1>m, Places
<1>7. \A i \in 1 .. j : i \in 1 .. Len(o)
    BY <1>n, <1>p
<1>8. \A i \in 1 .. j : v[Len(w) + i] = Cell(f, k + i)
    BY <1>1, <1>3, <1>7, <1>p
<1>9. v[l] = w[l] /\ LastBegin(b) = l /\ Current(v, b) = f /\ Written(v, b) = k + j
    <2>1. v[l] = w[l]
        BY <1>1, <1>2
    <2>2. Current(v, b) = f
        BY <1>6, <2>1 DEF Current, l
    <2>3. Written(v, b) = Len(v) - l
        BY DEF Written, l
    <2>4. Written(v, b) = k + j
        <3>2. (Len(w) + j) - l = k + j
            BY <1>m, Places
        <3> QED
            BY <1>n, <2>3, <3>2
    <2> QED
        BY <2>1, <2>2, <2>4 DEF l
<1>10. Missing(v, b, r)
    <2>1. Len(r) = s - (k + j)
        BY <1>n, <1>m, <1>p
    <2>2. ASSUME NEW i \in 1 .. Len(r) PROVE r[i] = Cell(f, k + j + i)
        <3>1. i \in 1 .. Len(o) - j /\ j + i \in 1 .. Len(o) /\ k + (j + i) = k + j + i
            BY <1>n, <1>m, <1>p
        <3>2. r[i] = o[j + i] /\ o[j + i] = Cell(f, k + (j + i))
            BY <1>3, <1>p, <3>1
        <3> QED
            BY <3>1, <3>2
    <2> QED
        BY <1>3, <1>9, <2>1, <2>2 DEF Missing, s
<1>11. j = Len(o) => Whole(v, b)
    <2> SUFFICES ASSUME j = Len(o) PROVE Written(v, b) = s
        BY <1>9 DEF Whole, s
    <2> QED
        BY <1>n, <1>m, <1>9
<1>12. Written(v, b) <= Size(Current(v, b))
    <2>1. k + j <= s
        BY <1>n, <1>p
    <2> QED
        BY <1>9, <2>1 DEF s
<1>13. InPlace(v, b)
    <2> SUFFICES ASSUME NEW i \in 1 .. Len(b), NEW x \in 1 .. Size(v[b[i]].frame),
                        b[i] + x <= Len(v)
                 PROVE  v[b[i] + x] = Cell(v[b[i]].frame, x)
        BY DEF InPlace
    <2> DEFINE q == b[i]
               z == Size(w[q].frame)
    <2>1. q \in 1 .. Len(w)
        BY <1>L DEF HeadsOf
    <2>2. v[q] = w[q] /\ z \in Nat
        BY <1>1, <2>1, <1>L, CellTypes
    <2>3. x \in 1 .. z /\ q + x <= Len(v)
        BY <2>2
    <2>4. ASSUME q + x <= Len(w) PROVE v[q + x] = Cell(v[q].frame, x)
        <3>1. w[q + x] = Cell(w[q].frame, x)
            BY <2>3, <2>4 DEF Orderly, InPlace
        <3>2. q + x \in 1 .. Len(w)
            <4> HIDE DEF q, z
            <4> QED  BY <1>n, <2>1, <2>2, <2>3, <2>4
        <3> QED
            BY <1>1, <2>2, <3>1, <3>2
    <2>5. CASE q + x > Len(w)
        <3>1. q = l
            <4> SUFFICES ASSUME i # Len(b) PROVE FALSE
                BY <1>2
            <4>1. i \in 1 .. Len(b) - 1
                BY <1>0
            <4>2. q + z < l
                BY <1>2, <4>1
            <4> HIDE DEF q, z
            <4> QED
                BY <1>n, <2>1, <2>2, <2>3, <2>5, <4>2
        <3>2. x - k \in 1 .. j /\ q + x = Len(w) + (x - k) /\ k + (x - k) = x
            <4>1. x \in Nat /\ Len(w) < l + x /\ l + x <= Len(w) + j
                <5> HIDE DEF q, z
                <5> QED  BY <1>n, <2>1, <2>2, <2>3, <2>5, <3>1
            <4>2. x - k \in 1 .. j /\ l + x = Len(w) + (x - k) /\ k + (x - k) = x
                BY <1>q, <4>1
            <4> QED
                BY <3>1, <4>2
        <3>3. v[q + x] = Cell(f, x)
            BY <1>8, <3>2
        <3> QED
            BY <1>6, <2>2, <3>1, <3>3
    <2>6. q + x <= Len(w) \/ q + x > Len(w)
        <3> HIDE DEF q, z
        <3> QED  BY <1>0, <2>1, <2>2, <2>3
    <2> QED
        BY <2>4, <2>5, <2>6
<1>14. Contiguous(v)
    <2> SUFFICES ASSUME NEW i \in 1 .. Len(v) - 1
                 PROVE  IF v[i].k < Size(v[i].frame)
                        THEN v[i + 1] = Cell(v[i].frame, v[i].k + 1) ELSE v[i + 1].k = 0
        BY DEF Contiguous, Size
    <2>1. CASE i \in 1 .. Len(w) - 1
        <3>1. i \in 1 .. Len(w) /\ i + 1 \in 1 .. Len(w)
            BY <1>n, <2>1
        <3>2. v[i] = w[i] /\ v[i + 1] = w[i + 1]
            BY <1>1, <3>1
        <3> QED
            BY <2>1, <3>2 DEF Orderly, Contiguous, Size
    <2>2. CASE i \in Len(w) .. Len(v) - 1
        <3> DEFINE y == i - Len(w)
        <3>1. /\ y \in 0 .. j - 1 /\ y + 1 \in 1 .. j /\ i = Len(w) + y /\ i + 1 = Len(w) + (y + 1)
              /\ k + (y + 1) = (k + y) + 1
            BY <1>n, <1>m, <2>2
        <3> HIDE DEF y
        <3>2. v[i + 1] = Cell(f, (k + y) + 1)
            BY <1>8, <3>1
        <3>3. v[i].frame = f /\ v[i].k = k + y
            <4>1. CASE y = 0
                <5>1. i = Len(w) /\ i \in 1 .. Len(w) /\ k + y = k
                    BY <1>0, <1>2, <3>1, <4>1
                <5> QED
                    BY <1>1, <1>5, <5>1
            <4>2. CASE y # 0
                <5>1. y \in 1 .. j
                    BY <1>m, <3>1, <4>2
                <5> QED
                    BY <1>8, <3>1, <5>1, CellParts
            <4> QED  BY <4>1, <4>2
        <3>4. k + y < s
            BY <1>n, <1>p, <3>1
        <3> QED
            BY <3>2, <3>3, <3>4 DEF s
    <2> QED  BY <1>0, <1>1, <2>1, <2>2
<1>15. AtBoundary(v, p)
    <2>1. p > 0 => p \in 1 .. Len(w)
        BY <1>L, <1>0
    <2> QED
        BY <1>1, <2>1 DEF Orderly, AtBoundary
<1>16. v[1].k = 0
    <2>1. 1 \in 1 .. Len(w) /\ w # <<>>
        BY <1>0, <1>2
    <2> QED
        BY <1>1, <2>1 DEF Orderly
<1> QED
    BY <1>3, <1>10, <1>11, <1>12, <1>13, <1>14, <1>15, <1>16 DEF Orderly, v

\* What is written is followed by more.
Follows(w, v) ==
    /\ Len(w) \in Nat /\ Len(v) \in Nat /\ Len(w) <= Len(v)
    /\ \A i \in 1 .. Len(w) : v[i] = w[i]

\* None of what follows is the header of an order.
NoOrderAdded(w, v) ==
    \A i \in 1 .. Len(v) : v[i].k = 0 /\ v[i].frame.type = "Order" => i <= Len(w)

\* The frame at q is mixed with another one.
Broken(w, q) ==
    /\ w[q].k = 0
    /\ \E k \in 1 .. Size(w[q].frame) : q + k <= Len(w) /\ w[q + k] # Cell(w[q].frame, k)

\* No order begins before q.
OrdersFrom(w, q) == \A i \in 1 .. Len(w) : w[i].k = 0 /\ w[i].frame.type = "Order" => q <= i

\* A frame in front of the orders, or the first of them, is broken, and the
\* reader has not come to it yet.
Blocked(w, p) == \E q \in 1 .. Len(w) : p < q /\ Broken(w, q) /\ OrdersFrom(w, q)

\* The reader at p finds a whole frame, and stands behind it when it has
\* returned it.
WholeAt(w, p) == p < Len(w) /\ p + 1 + Size(w[p + 1].frame) <= Len(w)
IntactAt(w, p) ==
    /\ WholeAt(w, p) /\ w[p + 1].k = 0
    /\ \A k \in 1 .. Size(w[p + 1].frame) : w[p + 1 + k] = Cell(w[p + 1].frame, k)
After(w, p) == p + 1 + Size(w[p + 1].frame)

\* A header follows.
LEMMA HeaderFollows ==
    ASSUME NEW w, NEW b, NEW p, NEW n, Lane(w, b, p, n), NEW f \in FrameSet
    PROVE  /\ Follows(w, Append(w, Cell(f, 0)))
           /\ Len(Append(w, Cell(f, 0))) = Len(w) + 1
           /\ Append(w, Cell(f, 0))[Len(w) + 1] = Cell(f, 0)
           /\ f.type # "Order" => NoOrderAdded(w, Append(w, Cell(f, 0)))
<1> DEFINE c == Cell(f, 0)
           v == Append(w, c)
<1>1. w \in Seq(CellSet) /\ Len(w) \in Nat /\ c \in CellSet /\ c.frame = f
    BY LenProperties DEF Lane, Cell, CellSet
<1>2. /\ Len(v) = Len(w) + 1 /\ v[Len(w) + 1] = c
      /\ \A i \in 1 .. Len(w) : v[i] = w[i]
    BY <1>1, AppendProperties
<1> HIDE DEF c, v
<1>3. Follows(w, v)
    BY <1>1, <1>2 DEF Follows
<1>4. ASSUME f.type # "Order" PROVE NoOrderAdded(w, v)
    <2> SUFFICES ASSUME NEW i \in 1 .. Len(v), v[i].frame.type = "Order" PROVE i <= Len(w)
        BY DEF NoOrderAdded
    <2>1. i # Len(w) + 1
        BY <1>1, <1>2, <1>4
    <2> QED
        BY <1>1, <1>2, <2>1
<1> QED
    BY <1>2, <1>3, <1>4 DEF v, c

\* Payload follows.
LEMMA PayloadFollows ==
    ASSUME NEW w, NEW b, NEW p, NEW n, Lane(w, b, p, n), NEW c \in Seq(CellSet), PayloadOnly(c)
    PROVE  Follows(w, w \o c) /\ NoOrderAdded(w, w \o c)
<1> DEFINE v == w \o c
<1>0. w \in Seq(CellSet)
    BY DEF Lane
<1>1. /\ Len(v) = Len(w) + Len(c) /\ Len(w) \in Nat /\ Len(c) \in Nat
      /\ \A i \in 1 .. Len(w) : v[i] = w[i]
      /\ \A i \in 1 .. Len(c) : v[Len(w) + i] = c[i]
    BY <1>0, ConcatCells
<1> HIDE DEF v
<1>2. Follows(w, v)
    BY <1>1 DEF Follows
<1>3. ASSUME NEW i \in 1 .. Len(v), v[i].k = 0, i > Len(w) PROVE FALSE
    <2>1. i - Len(w) \in 1 .. Len(c) /\ i = Len(w) + (i - Len(w))
        BY <1>1, <1>3
    <2>2. v[i] = c[i - Len(w)]
        BY <1>1, <2>1
    <2> QED
        BY <1>3, <2>1, <2>2 DEF PayloadOnly
<1>4. \A i \in 1 .. Len(v) : i > Len(w) \/ i <= Len(w)
    BY <1>1
<1> QED
    BY <1>2, <1>3, <1>4 DEF NoOrderAdded, v

\* Mixed frames stay mixed.
LEMMA ContiguousBefore ==
    ASSUME NEW w, NEW v, Follows(w, v), Contiguous(v)
    PROVE  Contiguous(w)
<1> SUFFICES ASSUME NEW i \in 1 .. Len(w) - 1
             PROVE  IF w[i].k < PayloadSize[w[i].frame.type]
                    THEN w[i + 1] = Cell(w[i].frame, w[i].k + 1) ELSE w[i + 1].k = 0
    BY DEF Contiguous
<1>1. i \in 1 .. Len(v) - 1 /\ i \in 1 .. Len(w) /\ i + 1 \in 1 .. Len(w)
    BY DEF Follows
<1>2. v[i] = w[i] /\ v[i + 1] = w[i + 1]
    BY <1>1 DEF Follows
<1> QED
    BY <1>1, <1>2 DEF Contiguous

\* What follows does not unblock the reader.
LEMMA BlockedKept ==
    ASSUME NEW w, NEW v, NEW p \in Nat, Follows(w, v), NoOrderAdded(w, v), Blocked(w, p)
    PROVE  Blocked(v, p)
<1>1. PICK q \in 1 .. Len(w) : p < q /\ Broken(w, q) /\ OrdersFrom(w, q)
    BY DEF Blocked
<1>2. q \in 1 .. Len(v) /\ v[q] = w[q] /\ q \in Nat
    BY DEF Follows
<1>3. PICK k \in 1 .. Size(w[q].frame) : q + k <= Len(w) /\ w[q + k] # Cell(w[q].frame, k)
    BY <1>1 DEF Broken
<1>4. q + k <= Len(v) /\ v[q + k] = w[q + k]
    <2>1. k \in Int /\ k >= 1
        OBVIOUS
    <2>2. q + k \in 1 .. Len(w) /\ q + k <= Len(v)
        BY <1>2, <1>3, <2>1 DEF Follows
    <2> QED
        BY <2>2 DEF Follows
<1>5. Broken(v, q)
    BY <1>1, <1>2, <1>3, <1>4 DEF Broken
<1>6. OrdersFrom(v, q)
    <2> SUFFICES ASSUME NEW i \in 1 .. Len(v), v[i].k = 0 /\ v[i].frame.type = "Order"
                 PROVE  q <= i
        BY DEF OrdersFrom
    <2>1. i \in 1 .. Len(w)
        BY DEF NoOrderAdded, Follows
    <2>2. v[i] = w[i]
        BY <2>1 DEF Follows
    <2> QED
        BY <1>1, <2>1, <2>2 DEF OrdersFrom
<1> QED
    BY <1>1, <1>2, <1>5, <1>6 DEF Blocked

\* The reader has not come to an unfinished frame.
LEMMA ReaderBefore ==
    ASSUME NEW w, NEW b, NEW p, NEW n, Lane(w, b, p, n), Orderly(w, b, p), b # <<>>,
           Written(w, b) < Size(Current(w, b))
    PROVE  p < LastBegin(b) /\ n < Len(b)
<1> DEFINE l == LastBegin(b)
           k == Written(w, b)
           s == Size(Current(w, b))
<1>1. /\ Len(b) \in 1 .. Len(b) /\ l \in 1 .. Len(w) /\ w[l].k = 0 /\ k \in Nat /\ s \in Nat
      /\ l = b[Len(b)] /\ k < s /\ Size(w[l].frame) = s /\ Current(w, b) = w[l].frame
    BY LatestFrame DEF Orderly, LastBegin, Current
<1>2. p \in Nat /\ p <= Len(w) /\ Len(w) \in Nat /\ k = Len(w) - l
    BY LenProperties DEF Lane, Written
<1>3. p < l
    <2> SUFFICES ASSUME p >= l PROVE FALSE
        <3> HIDE DEF l
        <3> QED  BY <1>1, <1>2
    <2> DEFINE x == p - l
    <2> HIDE DEF l, k, s
    <2>1. x \in 0 .. k /\ l + x = p /\ p > 0
        BY <1>1, <1>2
    <2> HIDE DEF x
    <2>2. w[p].k = Size(w[p].frame)
        BY <2>1 DEF Orderly, AtBoundary
    <2>3. CASE x = 0
        <3>1. p = l
            BY <1>1, <1>2, <2>1, <2>3
        <3> QED
            BY <1>1, <2>2, <3>1
    <2>4. CASE x # 0
        <3>1. x \in 1 .. s /\ l + x <= Len(w)
            <4>1. k \in Nat /\ s \in Nat /\ k < s /\ p <= Len(w)
                BY <1>1, <1>2
            <4>2. x \in 1 .. s
                BY <4>1, <2>1, <2>4
            <4> QED
                BY <4>1, <4>2, <2>1
        <3>2. w[l + x] = Cell(w[l].frame, x)
            <4>1. Len(b) \in 1 .. Len(b) /\ x \in 1 .. Size(w[b[Len(b)]].frame)
                  /\ b[Len(b)] + x <= Len(w)
                BY <1>1, <3>1
            <4>2. w[b[Len(b)] + x] = Cell(w[b[Len(b)]].frame, x)
                BY <4>1 DEF Orderly, InPlace
            <4> QED
                BY <1>1, <4>2
        <3>3. w[p].k = x /\ w[p].frame = w[l].frame
            BY <2>1, <3>2, CellParts
        <3>4. x = s
            BY <1>1, <2>2, <3>3
        <3> QED
            BY <1>1, <2>1, <3>4
    <2> QED  BY <2>3, <2>4
<1>4. ~ (b[Len(b)] <= p)
    <2> HIDE DEF l
    <2>1. l \in Nat
        BY <1>1, <1>2
    <2> QED
        BY <1>1, <1>2, <1>3, <2>1
<1>5. ~ (Len(b) <= n)
    BY <1>1, <1>4 DEF Lane, HeadsOf
<1>6. Len(b) \in Nat /\ n \in Nat
    BY LenProperties DEF Lane
<1> QED
    BY <1>3, <1>5, <1>6

\* A header written into another frame: the frames are mixed, and no order
\* can be read any more.
LEMMA MixBlocks ==
    ASSUME NEW w, NEW b, NEW p, NEW n, Lane(w, b, p, n), Orderly(w, b, p), b # <<>>,
           Written(w, b) < Size(Current(w, b)), NEW f \in FrameSet,
           OrdersFrom(Append(w, Cell(f, 0)), LastBegin(b))
    PROVE  ~ Contiguous(Append(w, Cell(f, 0))) /\ Blocked(Append(w, Cell(f, 0)), p)
<1> DEFINE v == Append(w, Cell(f, 0))
           l == LastBegin(b)
           k == Written(w, b)
           s == Size(Current(w, b))
<1>1. /\ l \in 1 .. Len(w) /\ w[l].k = 0 /\ k \in Nat /\ s \in Nat /\ k < s
      /\ Current(w, b) = w[l].frame
    BY LatestFrame DEF Orderly, Current
<1>2. p < l
    BY ReaderBefore
<1>3. w[Len(w)].frame = Current(w, b) /\ w[Len(w)].k = k
    BY LastCell
<1>4. Follows(w, v) /\ Len(v) = Len(w) + 1 /\ v[Len(w) + 1] = Cell(f, 0)
    BY HeaderFollows
<1>5. OrdersFrom(v, l) /\ k = Len(w) - l
    BY DEF Written
<1> HIDE DEF v, l, k, s
<1>6. Len(w) \in Nat /\ l \in Nat /\ l + k = Len(w) /\ l + (k + 1) = Len(w) + 1
    BY <1>1, <1>4, <1>5 DEF Follows
<1>7. v[l] = w[l] /\ v[Len(w)] = w[Len(w)] /\ l \in 1 .. Len(v)
    BY <1>1, <1>4, <1>6 DEF Follows
<1>8. k + 1 # 0 /\ Cell(f, 0) # Cell(Current(w, b), k + 1)
    <2>1. k + 1 # 0
        BY <1>1
    <2> QED
        BY <2>1, CellParts
<1>9. Broken(v, l)
    <2>1. k + 1 \in 1 .. s /\ l + (k + 1) <= Len(v)
        BY <1>1, <1>4, <1>6
    <2>2. v[l + (k + 1)] # Cell(v[l].frame, k + 1)
        BY <1>1, <1>4, <1>6, <1>7, <1>8
    <2>3. s = Size(v[l].frame) /\ v[l].k = 0
        BY <1>1, <1>7 DEF s
    <2> QED
        BY <2>1, <2>2, <2>3 DEF Broken
<1>10. ~ Contiguous(v)
    <2>1. Len(w) \in 1 .. Len(v) - 1
        BY <1>1, <1>4, <1>6
    <2>2. v[Len(w)].k < PayloadSize[v[Len(w)].frame.type]
        BY <1>1, <1>3, <1>7 DEF s, Size
    <2>3. v[Len(w) + 1] # Cell(v[Len(w)].frame, v[Len(w)].k + 1)
        BY <1>3, <1>4, <1>7, <1>8
    <2> QED
        BY <2>1, <2>2, <2>3 DEF Contiguous
<1> QED
    BY <1>2, <1>5, <1>7, <1>9, <1>10 DEF Blocked, v

\* Where the frames are not mixed, a frame that is there passes the tests.
LEMMA OrderlyIntact ==
    ASSUME NEW w, NEW b, NEW p, NEW n, Lane(w, b, p, n), Orderly(w, b, p), WholeAt(w, p)
    PROVE  IntactAt(w, p)
<1>1. w \in Seq(CellSet) /\ p \in Nat /\ Len(w) \in Nat /\ p < Len(w)
    BY LenProperties DEF Lane, WholeAt
<1>2. p + 1 \in 1 .. Len(w)
    BY <1>1
<1>3. w[p + 1].k = 0
    <2>1. CASE p = 0
        <3>1. w # <<>> /\ p + 1 = 1
            BY <1>1, <2>1
        <3> QED
            BY <3>1 DEF Orderly
    <2>2. CASE p > 0
        <3>1. p \in 1 .. Len(w) /\ p \in 1 .. Len(w) - 1
            BY <1>1, <2>2
        <3>2. w[p].k = Size(w[p].frame) /\ Size(w[p].frame) \in Nat
            BY <1>1, <2>2, <3>1, CellTypes DEF Orderly, AtBoundary
        <3>3. ~ (w[p].k < PayloadSize[w[p].frame.type])
            BY <3>2 DEF Size
        <3> QED
            BY <3>1, <3>3 DEF Orderly, Contiguous
    <2> QED  BY <1>1, <2>1, <2>2
<1>4. PICK i \in 1 .. Len(b) : b[i] = p + 1
    BY <1>2, <1>3 DEF Lane, HeadsOf
<1>5. Size(w[p + 1].frame) \in Nat
    BY <1>1, <1>2, CellTypes
<1>6. ASSUME NEW k \in 1 .. Size(w[p + 1].frame)
      PROVE  w[p + 1 + k] = Cell(w[p + 1].frame, k)
    <2>1. p + 1 + k <= Len(w)
        BY <1>1, <1>5 DEF WholeAt
    <2> QED
        BY <1>4, <2>1 DEF Orderly, InPlace
<1> QED
    BY <1>3, <1>6 DEF IntactAt

\* The reader goes on to the end of a frame.
LEMMA OrderlyTake ==
    ASSUME NEW w, NEW b, NEW p, NEW n, Lane(w, b, p, n), Orderly(w, b, p), IntactAt(w, p)
    PROVE  Orderly(w, b, After(w, p))
<1> DEFINE s == Size(w[p + 1].frame)
<1>1. w \in Seq(CellSet) /\ p \in Nat /\ Len(w) \in Nat /\ p < Len(w)
    BY LenProperties DEF Lane, IntactAt, WholeAt
<1>2. p + 1 \in 1 .. Len(w)
    BY <1>1
<1>3. s \in Nat /\ s > 0
    BY <1>1, <1>2, CellTypes
<1>4. s \in 1 .. s
    BY <1>3
<1>5. w[p + 1 + s] = Cell(w[p + 1].frame, s)
    BY <1>4 DEF IntactAt
<1>6. AtBoundary(w, After(w, p))
    BY <1>5, CellParts DEF AtBoundary, After
<1> QED
    BY <1>6 DEF Orderly

\* A blocked reader returns no order, and stays blocked.
LEMMA BlockedReader ==
    ASSUME NEW w, NEW b, NEW p, NEW n, Lane(w, b, p, n), Blocked(w, p), IntactAt(w, p)
    PROVE  Blocked(w, After(w, p)) /\ w[p + 1].frame.type # "Order"
<1> DEFINE s == Size(w[p + 1].frame)
<1>1. w \in Seq(CellSet) /\ p \in Nat /\ Len(w) \in Nat /\ p < Len(w)
    BY LenProperties DEF Lane, IntactAt, WholeAt
<1>2. p + 1 \in 1 .. Len(w)
    BY <1>1
<1>3. s \in Nat
    BY <1>1, <1>2, CellTypes
<1>4. PICK q \in 1 .. Len(w) : p < q /\ Broken(w, q) /\ OrdersFrom(w, q)
    BY DEF Blocked
<1>5. q # p + 1
    BY <1>4 DEF Broken, IntactAt
<1>6. q > p + 1
    BY <1>1, <1>4, <1>5
<1>7. w[p + 1].frame.type # "Order"
    <2> SUFFICES ASSUME w[p + 1].frame.type = "Order" PROVE FALSE
        OBVIOUS
    <2>1. q <= p + 1
        BY <1>2, <1>4 DEF OrdersFrom, IntactAt
    <2> QED
        BY <1>1, <1>6, <2>1
<1>8. p + 1 + s < q
    <2> HIDE DEF s
    <2> SUFFICES ASSUME q <= p + 1 + s PROVE FALSE
        BY <1>1, <1>3
    <2>1. q - (p + 1) \in 1 .. s /\ q = p + 1 + (q - (p + 1)) /\ q - (p + 1) # 0
        BY <1>1, <1>3, <1>6
    <2>2. w[p + 1 + (q - (p + 1))] = Cell(w[p + 1].frame, q - (p + 1))
        BY <2>1 DEF IntactAt, s
    <2>3. w[q].k = q - (p + 1)
        BY <2>1, <2>2, CellParts
    <2> QED
        BY <1>4, <2>1, <2>3 DEF Broken
<1> QED
    BY <1>4, <1>7, <1>8 DEF Blocked, After

-----------------------------------------------------------------------------
(* A session without crashes                                               *)

\* The frames of a direction are not mixed.
InOrder(d) == Orderly(wire[d], begins[d], pos[d])

\* The OMS still waits for an answer.
Early == pc["oms"] \in {"send", "sending", "await"}

Orders  == Count("fwd", "Order")
Replies == Len(begins["back"])
Answers == Len(got["back"])

\* The i-th frame is an order that the gateway has not received.
Unread(i) == i \in 1 .. Len(begins["fwd"]) /\ i > Len(got["fwd"]) /\ Sent("fwd")[i].type = "Order"

\* Where the threads of the two programs are, and who closes which socket.
Roles ==
    /\ pc["oms"] \in {"send", "sending", "await", "joining", "ended", "terminated"}
    /\ pc["heartbeat"] \in {"loop", "sending", "ended"}
    /\ pc["gateway"] \in {"loop", "recv", "reply", "sending", "ended"}
    /\ ~ demo => pc["heartbeat"] = "ended" /\ pc["oms"] \notin {"joining", "terminated"}
    /\ demo => ~ crashed
    /\ open["fwd"] <=> pc["oms"] \notin {"ended", "terminated"}
    /\ open["back"] <=> pc["gateway"] # "ended"

\* As long as no frames are mixed, at most one thread is inside a frame, and
\* what it has left to send completes it; the demo's gateway stays.
Unmixed ==
    Contiguous(wire["fwd"]) =>
        /\ InOrder("fwd")
        /\ pc["oms"] = "sending" =>
              /\ Missing(wire["fwd"], begins["fwd"], out["oms"]) /\ pc["heartbeat"] # "sending"
              /\ Current(wire["fwd"], begins["fwd"]).type = "Order"
        /\ pc["heartbeat"] = "sending" => Missing(wire["fwd"], begins["fwd"], out["heartbeat"])
        /\ \/ pc["oms"] = "sending" \/ pc["heartbeat"] = "sending"
           \/ Whole(wire["fwd"], begins["fwd"])
           \/ pc["heartbeat"] = "ended" /\ ~ Early
        /\ demo /\ Early => pc["gateway"] # "ended" /\ alive
        /\ pc["oms"] # "terminated"

\* Once frames are mixed the gateway cannot come to the order of the demo, and
\* its OMS waits in vain.
Mixed ==
    ~ Contiguous(wire["fwd"]) =>
        /\ demo /\ Blocked(wire["fwd"], pos["fwd"])
        /\ wire["back"] = <<>>
        /\ pc["gateway"] \notin {"reply", "sending"}
        /\ pc["oms"] \in {"sending", "await", "terminated"}

\* Only the gateway writes replies, so they are never mixed; one that it gave
\* up is cut off, but then the OMS reads no more.
Replying ==
    open["fwd"] =>
        /\ InOrder("back")
        /\ pc["gateway"] = "sending" => Missing(wire["back"], begins["back"], out["gateway"])
        /\ pc["gateway"] \notin {"sending", "ended"} => Whole(wire["back"], begins["back"])

\* A gateway node ends after its OMS, unless a process has died.
NodeUp == ~ demo /\ ~ crashed /\ pc["oms"] # "ended" => pc["gateway"] # "ended"

\* The replies are numbered as the orders, and an order that is not received
\* or not answered is the latest one.
Numbered ==
    /\ Replies \in {Orders - 1, Orders}
    /\ \A i \in 1 .. Replies : Sent("back")[i] = Frame("Reply", i)
    /\ \A i \in 1 .. Len(begins["fwd"]) : Unread(i) =>
          /\ Sent("fwd")[i].n = Orders /\ Replies = Orders - 1 /\ pc["gateway"] # "reply"
          /\ \A j \in 1 .. Len(begins["fwd"]) : Unread(j) => j = i
    /\ pc["gateway"] = "reply" =>
          Last(got["fwd"]) = Frame("Order", Orders) /\ Replies = Orders - 1
    /\ pc["gateway"] = "sending" => Replies >= 1

\* The OMS has the answers to all of its orders but the one it is at.
Answered ==
    /\ \A i \in 1 .. Answers : got["back"][i] = Sent("back")[i]
    /\ pc["oms"] \in {"send", "joining"} => Answers = Orders
    /\ pc["oms"] \in {"sending", "await", "terminated"} => Answers + 1 = Orders
    /\ pc["oms"] = "ended" /\ ~ crashed => Answers = Orders
    /\ demo => Orders <= 1 /\ (pc["oms"] = "send" => Orders = 0)

\* What IInv needs besides for the answers.
AInv == Roles /\ Unmixed /\ Mixed /\ Replying /\ NodeUp /\ Numbered /\ Answered

\* What the first invariant says of each direction.
LEMMA Lanes ==
    ASSUME IInv, NEW d \in Dir
    PROVE  /\ Lane(wire[d], begins[d], pos[d], Len(got[d]))
           /\ Len(begins[d]) \in Nat /\ Len(got[d]) \in Nat /\ Len(got[d]) <= Len(begins[d])
           /\ \A i \in 1 .. Len(begins[d]) : Sent(d)[i] = wire[d][begins[d][i]].frame
           /\ \A i \in 1 .. Len(begins[d]) : Sent(d)[i] \in FrameSet
<1>1. /\ wire[d] \in Seq(CellSet) /\ begins[d] \in Seq(Nat) /\ pos[d] \in Nat
      /\ pos[d] <= Len(wire[d]) /\ got[d] \in Seq(FrameSet)
      /\ HeadsOf(wire[d], begins[d], pos[d], Len(got[d]))
    BY DEF IInv, FlowTyped, Heads
<1>2. Len(begins[d]) \in Nat /\ Len(got[d]) \in Nat
    BY <1>1, LenProperties
<1>3. \A i \in 1 .. Len(begins[d]) : Sent(d)[i] = wire[d][begins[d][i]].frame
    BY DEF Sent
<1>4. \A i \in 1 .. Len(begins[d]) : begins[d][i] \in 1 .. Len(wire[d])
    BY <1>1 DEF HeadsOf
<1>5. \A i \in 1 .. Len(begins[d]) : wire[d][begins[d][i]].frame \in FrameSet
    BY <1>1, <1>4, CellTypes
<1> QED
    BY <1>1, <1>2, <1>3, <1>5 DEF Lane, HeadsOf

\* A frame that is begun is behind those sent, and counted.
LEMMA SentBegun ==
    ASSUME IInv, NEW d \in Dir, NEW f \in FrameSet, Begun(d, f), NEW type
    PROVE  /\ Len(begins'[d]) = Len(begins[d]) + 1
           /\ \A i \in 1 .. Len(begins[d]) : Sent(d)'[i] = Sent(d)[i]
           /\ Sent(d)'[Len(begins[d]) + 1] = f
           /\ f.type = type => Count(d, type)' = Count(d, type) + 1
           /\ f.type # type => Count(d, type)' = Count(d, type)
<1> DEFINE w == wire[d]
           b == begins[d]
           v == wire'[d]
           e == begins'[d]
           c == Cell(f, 0)
           N == Len(b)
<1>1. w \in Seq(CellSet) /\ b \in Seq(Nat) /\ HeadsOf(w, b, pos[d], Len(got[d]))
    BY DEF IInv, FlowTyped, Heads
<1>2. Len(w) \in Nat /\ N \in Nat /\ c \in CellSet /\ c.frame = f /\ Len(w) + 1 \in Nat
    <2>1. Len(w) \in Nat /\ N \in Nat
        BY <1>1, LenProperties
    <2> QED
        BY <2>1 DEF Cell, CellSet
<1>3. v = Append(w, c) /\ e = Append(b, Len(w) + 1)
    BY DEF Begun
<1> HIDE DEF w, b, v, e, c
<1>4. /\ v[Len(w) + 1] = c /\ \A i \in 1 .. Len(w) : v[i] = w[i]
    BY <1>1, <1>2, <1>3, AppendProperties
<1>5. /\ Len(e) = N + 1 /\ e[N + 1] = Len(w) + 1 /\ \A i \in 1 .. N : e[i] = b[i]
    BY <1>1, <1>2, <1>3, AppendProperties
<1>6. \A i \in 1 .. N : b[i] \in 1 .. Len(w)
    BY <1>1 DEF HeadsOf
<1> DEFINE S == [i \in 1 .. N |-> w[b[i]].frame]
           T == [i \in 1 .. N + 1 |-> v[e[i]].frame]
<1>7. Sent(d) = S /\ Sent(d)' = T
    BY <1>5 DEF Sent, w, b, v, e
<1>8. \A i \in 1 .. N : T[i] = S[i] /\ i \in 1 .. N + 1
    BY <1>2, <1>4, <1>5, <1>6
<1>9. T[N + 1] = f
    BY <1>2, <1>4, <1>5
<1> DEFINE X == {i \in 1 .. N : S[i].type = type}
           Y == {i \in 1 .. N + 1 : T[i].type = type}
<1>10. Count(d, type) = Cardinality(X) /\ Count(d, type)' = Cardinality(Y)
    BY <1>5, <1>7 DEF Count, b, e
<1> HIDE DEF S, T
<1>11. IsFiniteSet(X) /\ N + 1 \notin X
    <2>1. IsFiniteSet(1 .. N)
        BY <1>2, FS_Interval
    <2> QED
        BY <1>2, <2>1, FS_Subset
<1>12. Cardinality(X) \in Nat
    BY <1>11, FS_CardinalityType
<1>13. ASSUME f.type = type PROVE Count(d, type)' = Count(d, type) + 1
    <2>1. Y = X \cup {N + 1}
        <3>1. \A i \in 1 .. N + 1 : i \in 1 .. N \/ i = N + 1
            BY <1>2
        <3>2. N + 1 \in 1 .. N + 1
            BY <1>2
        <3> QED
            BY <1>8, <1>9, <1>13, <3>1, <3>2
    <2> HIDE DEF X, Y
    <2>2. Cardinality(X \cup {N + 1}) = Cardinality(X) + 1
        BY <1>11, FS_AddElement
    <2> QED
        BY <1>10, <2>1, <2>2
<1>14. ASSUME f.type # type PROVE Count(d, type)' = Count(d, type)
    <2>1. Y = X
        <3>1. \A i \in 1 .. N + 1 : i \in 1 .. N \/ i = N + 1
            BY <1>2
        <3> QED
            BY <1>8, <1>9, <1>14, <3>1
    <2> QED
        BY <1>10, <2>1
<1> QED
    BY <1>5, <1>7, <1>8, <1>9, <1>13, <1>14 DEF e, b

\* Where no frame is begun the frames sent are the same.
LEMMA SentKept ==
    ASSUME IInv, NEW d \in Dir, NEW type,
           Same(d) \/ Taken(d) \/ \E c \in Seq(CellSet) : PayloadOnly(c) /\ Extended(d, c)
    PROVE  Sent(d)' = Sent(d) /\ begins'[d] = begins[d] /\ Count(d, type)' = Count(d, type)
<1>1. Sent(d)' = Sent(d) /\ begins'[d] = begins[d]
    BY MoveSame, MoveExtended, MoveTaken DEF IInv, Same, Taken, Extended
<1> QED
    BY <1>1 DEF Count

\* At most one order, or none.
LEMMA FewOrders ==
    ASSUME IInv
    PROVE  /\ Orders \in Nat
           /\ Orders = 0 => \A i \in 1 .. Len(begins["fwd"]) : Sent("fwd")[i].type # "Order"
           /\ Orders <= 1 => \A i, j \in 1 .. Len(begins["fwd"]) :
                 Sent("fwd")[i].type = "Order" /\ Sent("fwd")[j].type = "Order" => i = j
<1> DEFINE N == Len(begins["fwd"])
           X == {i \in 1 .. N : Sent("fwd")[i].type = "Order"}
<1>1. N \in Nat
    BY Lanes, Names
<1>2. IsFiniteSet(X)
    <2>1. IsFiniteSet(1 .. N)
        BY <1>1, FS_Interval
    <2> QED
        BY <2>1, FS_Subset
<1>3. Orders = Cardinality(X) /\ Cardinality(X) \in Nat
    BY <1>2, FS_CardinalityType DEF Orders, Count
<1>4. Cardinality(X) = 0 => X = {}
    BY <1>2, FS_EmptySet
<1>5. ASSUME Cardinality(X) <= 1, NEW i \in X, NEW j \in X, i # j PROVE FALSE
    <2> HIDE DEF X
    <2>1. {i, j} \subseteq X
        BY <1>5
    <2>2. IsFiniteSet({i}) /\ Cardinality({i}) = 1
        BY FS_Singleton
    <2>3. IsFiniteSet({i} \cup {j}) /\ Cardinality({i} \cup {j}) = 2
        BY <1>5, <2>2, FS_AddElement
    <2>4. Cardinality({i} \cup {j}) <= Cardinality(X)
        BY <1>2, <2>1, FS_Subset
    <2> QED
        BY <1>3, <1>5, <2>3, <2>4
<1> QED
    BY <1>3, <1>4, <1>5

\* A header leaves the other threads alone.
LEMMA HeaderEffect ==
    ASSUME IInv, NEW t \in Thread, NEW f \in FrameSet, SendHeader(t, f)
    PROVE  /\ out'[t] = Payload(f) /\ \A u \in Thread \ {t} : out'[u] = out[u]
           /\ demo' = demo /\ open' = open /\ alive' = alive /\ crashed' = crashed
BY DEF SendHeader, IInv, OutTyped

\* A part of the payload, and what is left.
LEMMA PayloadEffect ==
    ASSUME IInv, NEW t \in Thread, SendPayload(t)
    PROVE  /\ demo' = demo /\ open' = open /\ alive' = alive /\ crashed' = crashed
           /\ pc[t] = "sending" /\ Goes(t) /\ Elsewhere(Writes(t))
           /\ \A u \in Thread \ {t} : out'[u] = out[u]
           /\ \E j, c, r :
                 /\ Parts(out[t], j, c, r) /\ c \in Seq(CellSet) /\ PayloadOnly(c)
                 /\ Extended(Writes(t), c) /\ out'[t] = r
                 /\ pc'[t] = IF j = Len(out[t]) THEN SentLabel[t] ELSE "sending"
<1> DEFINE d == Writes(t)
           o == out[t]
<1>1. d \in Dir /\ o \in Seq(CellSet) /\ Len(o) \in Nat /\ PayloadOnly(o)
    BY Names, LenProperties DEF IInv, OutTyped
<1>2. PICK j \in 1 .. Len(o) :
          /\ wire' = [wire EXCEPT ![d] = @ \o SubSeq(o, 1, j)]
          /\ out' = [out EXCEPT ![t] = SubSeq(@, j + 1, Len(@))]
          /\ pc' = [pc EXCEPT ![t] = IF j = Len(o) THEN SentLabel[t] ELSE "sending"]
    BY DEF SendPayload, Goto
<1>3. pc[t] = "sending" /\ UNCHANGED <<demo, begins, pos, got, open, alive, crashed>>
    BY DEF SendPayload
<1> DEFINE c == SubSeq(o, 1, j)
           r == SubSeq(o, j + 1, Len(o))
<1>4. /\ c \in Seq(CellSet) /\ Len(c) = j /\ \A i \in 1 .. j : c[i] = o[i]
    BY <1>1, <1>2, SubSeqProperties
<1>5. /\ r \in Seq(CellSet) /\ Len(r) = Len(o) - j
      /\ \A i \in 1 .. Len(o) - j : r[i] = o[j + i]
    BY <1>1, <1>2, SubSeqProperties
<1>6. out' = [out EXCEPT ![t] = r] /\ wire' = [wire EXCEPT ![d] = @ \o c]
    BY <1>2
<1> HIDE DEF c, r, o, d
<1>7. Parts(o, j, c, r)
    BY <1>1, <1>2, <1>4, <1>5 DEF Parts
<1>8. PayloadOnly(c)
    BY <1>1, <1>2, <1>4 DEF PayloadOnly
<1>9. out'[t] = r /\ \A u \in Thread \ {t} : out'[u] = out[u]
    BY <1>6 DEF IInv, OutTyped
<1>10. Extended(d, c) /\ Elsewhere(d)
    BY <1>1, <1>3, <1>6 DEF IInv, FlowTyped, Extended, Elsewhere, Same
<1>11. pc'[t] = (IF j = Len(o) THEN SentLabel[t] ELSE "sending") /\ Goes(t)
    BY <1>2 DEF IInv, Control, Goes
<1> QED
    BY <1>3, <1>4, <1>7, <1>8, <1>9, <1>10, <1>11 DEF o, d

\* A frame of which something is missing is unfinished.
LEMMA MissingSome ==
    ASSUME NEW w, NEW b, NEW p, NEW n, Lane(w, b, p, n), Orderly(w, b, p), NEW o \in Seq(CellSet),
           o # <<>>, Missing(w, b, o)
    PROVE  b # <<>> /\ Written(w, b) < Size(Current(w, b))
<1>1. b # <<>> /\ Len(o) = Size(Current(w, b)) - Written(w, b)
    BY DEF Missing
<1>2. Size(Current(w, b)) \in Nat /\ Written(w, b) \in Nat
    BY <1>1, LatestFrame DEF Orderly
<1>3. Len(o) \in Nat /\ Len(o) # 0
    BY LenProperties, EmptySeq
<1> QED
    BY <1>1, <1>2, <1>3

\* The latest frame after a header.
LEMMA CurrentHeader ==
    ASSUME NEW w, NEW b, NEW p, NEW n, Lane(w, b, p, n), NEW f \in FrameSet
    PROVE  Current(Append(w, Cell(f, 0)), Append(b, Len(w) + 1)) = f
<1>1. w \in Seq(CellSet) /\ b \in Seq(Nat) /\ Len(w) \in Nat /\ Len(b) \in Nat
    BY LenProperties DEF Lane
<1>2. Len(w) + 1 \in Nat
    BY <1>1
<1>3. /\ Len(Append(b, Len(w) + 1)) = Len(b) + 1
      /\ Append(b, Len(w) + 1)[Len(b) + 1] = Len(w) + 1
    BY <1>1, <1>2, AppendProperties
<1>4. Append(w, Cell(f, 0))[Len(w) + 1] = Cell(f, 0)
    BY HeaderFollows
<1> QED
    BY <1>3, <1>4, CellParts DEF Current, LastBegin

\* The latest frame after payload.
LEMMA CurrentPayload ==
    ASSUME NEW w, NEW b, NEW p, NEW n, Lane(w, b, p, n), Orderly(w, b, p), b # <<>>,
           NEW v, Follows(w, v)
    PROVE  Current(v, b) = Current(w, b)
<1>1. LastBegin(b) \in 1 .. Len(w)
    BY LatestFrame DEF Orderly
<1> QED
    BY <1>1 DEF Follows, Current

\* If only the latest frame may be an order, none begins before it.
LEMMA OnlyLatest ==
    ASSUME IInv, NEW f \in FrameSet, begins["fwd"] # <<>>,
           Orderly(wire["fwd"], begins["fwd"], pos["fwd"]),
           \A i \in 1 .. Len(begins["fwd"]) :
               Sent("fwd")[i].type = "Order" => i = Len(begins["fwd"])
    PROVE  OrdersFrom(Append(wire["fwd"], Cell(f, 0)), LastBegin(begins["fwd"]))
<1> DEFINE w == wire["fwd"]
           b == begins["fwd"]
           v == Append(w, Cell(f, 0))
<1>1. Lane(w, b, pos["fwd"], Len(got["fwd"]))
    BY Lanes, Names
<1>2. /\ \A i \in 1 .. Len(b) : Sent("fwd")[i] = w[b[i]].frame
    BY Lanes, Names
<1>3. Follows(w, v) /\ Len(v) = Len(w) + 1
    BY <1>1, HeaderFollows
<1>4. LastBegin(b) \in 1 .. Len(w)
    BY <1>1, LatestFrame DEF Orderly
<1>5. \A q \in 1 .. Len(w) : w[q].k = 0 => \E i \in 1 .. Len(b) : b[i] = q
    BY <1>1 DEF Lane, HeadsOf
<1>6. \A i \in 1 .. Len(b) : Sent("fwd")[i].type = "Order" => i = Len(b)
    OBVIOUS
<1> HIDE DEF w, b, v
<1>7. LastBegin(b) \in Nat /\ Len(w) \in Nat
    BY <1>3, <1>4 DEF Follows
<1> SUFFICES ASSUME NEW i \in 1 .. Len(v), v[i].k = 0, v[i].frame.type = "Order"
             PROVE  LastBegin(b) <= i
    BY DEF OrdersFrom, v, w, b
<1>8. CASE i \in 1 .. Len(w)
    <2>1. v[i] = w[i]
        BY <1>3, <1>8 DEF Follows
    <2>2. PICK j \in 1 .. Len(b) : b[j] = i
        BY <1>5, <1>8, <2>1
    <2>3. j = Len(b)
        BY <1>2, <1>6, <2>1, <2>2
    <2>4. LastBegin(b) = i
        BY <2>2, <2>3 DEF LastBegin
    <2> QED
        BY <1>7, <2>4
<1>9. CASE i = Len(w) + 1
    BY <1>4, <1>7, <1>9
<1> QED
    BY <1>3, <1>7, <1>8, <1>9

\* Nothing is sent or returned.
Steady == \A d \in Dir : Sent(d)' = Sent(d) /\ begins'[d] = begins[d] /\ got'[d] = got[d]

\* Then the numbers stay.
LEMMA SteadyNumbers ==
    ASSUME Steady, Numbered, Answered,
           pc'["gateway"] = "reply" => pc["gateway"] = "reply",
           pc'["gateway"] = "sending" => pc["gateway"] = "sending"
    PROVE  /\ Numbered' /\ Orders' = Orders /\ Replies' = Replies /\ Answers' = Answers
           /\ \A i \in 1 .. Answers' : got'["back"][i] = Sent("back")'[i]
<1>1. /\ Sent("fwd")' = Sent("fwd") /\ Sent("back")' = Sent("back")
      /\ begins'["fwd"] = begins["fwd"] /\ begins'["back"] = begins["back"]
      /\ got'["fwd"] = got["fwd"] /\ got'["back"] = got["back"]
    BY Names DEF Steady
<1>2. Orders' = Orders /\ Replies' = Replies /\ Answers' = Answers
    BY <1>1 DEF Orders, Replies, Answers, Count
<1>3. ASSUME NEW i PROVE Unread(i)' <=> Unread(i)
    BY <1>1 DEF Unread
<1>4. Numbered'
    BY <1>1, <1>2, <1>3 DEF Numbered
<1> QED
    BY <1>1, <1>2, <1>4 DEF Answered

-----------------------------------------------------------------------------
(* What the moves of a direction do to its order *)

\* A header behind whole frames.
LEMMA HeaderInOrder ==
    ASSUME IInv, NEW d \in Dir, InOrder(d), Whole(wire[d], begins[d]),
           NEW f \in FrameSet, Begun(d, f)
    PROVE  /\ InOrder(d)' /\ Missing(wire'[d], begins'[d], Payload(f))
           /\ Current(wire'[d], begins'[d]) = f
<1>1. Lane(wire[d], begins[d], pos[d], Len(got[d]))
    BY Lanes
<1>2. /\ wire'[d] = Append(wire[d], Cell(f, 0)) /\ begins'[d] = Append(begins[d], Len(wire[d]) + 1)
      /\ pos'[d] = pos[d]
    BY DEF Begun
<1> QED
    BY <1>1, <1>2, OrderlyHeader, CurrentHeader DEF InOrder

\* A header into an unfinished frame.
LEMMA HeaderMixes ==
    ASSUME IInv, InOrder("fwd"), NEW o \in Seq(CellSet), o # <<>>,
           Missing(wire["fwd"], begins["fwd"], o),
           \A i \in 1 .. Len(begins["fwd"]) :
               Sent("fwd")[i].type = "Order" => i = Len(begins["fwd"]),
           NEW f \in FrameSet, Begun("fwd", f)
    PROVE  ~ Contiguous(wire'["fwd"]) /\ Blocked(wire'["fwd"], pos'["fwd"])
<1>1. Lane(wire["fwd"], begins["fwd"], pos["fwd"], Len(got["fwd"]))
    BY Lanes, Names
<1>2. wire'["fwd"] = Append(wire["fwd"], Cell(f, 0)) /\ pos'["fwd"] = pos["fwd"]
    BY DEF Begun
<1>3. /\ begins["fwd"] # <<>>
      /\ Written(wire["fwd"], begins["fwd"]) < Size(Current(wire["fwd"], begins["fwd"]))
    BY <1>1, MissingSome DEF InOrder
<1>4. OrdersFrom(Append(wire["fwd"], Cell(f, 0)), LastBegin(begins["fwd"]))
    BY <1>3, OnlyLatest DEF InOrder
<1> QED
    BY <1>1, <1>2, <1>3, <1>4, MixBlocks DEF InOrder

\* More cells, none of them the header of an order, behind mixed frames.
LEMMA MoreBlocked ==
    ASSUME IInv, ~ Contiguous(wire["fwd"]), Blocked(wire["fwd"], pos["fwd"]),
           \/ \E f \in FrameSet : f.type # "Order" /\ Begun("fwd", f)
           \/ \E c \in Seq(CellSet) : PayloadOnly(c) /\ Extended("fwd", c)
    PROVE  ~ Contiguous(wire'["fwd"]) /\ Blocked(wire'["fwd"], pos'["fwd"])
<1>1. Lane(wire["fwd"], begins["fwd"], pos["fwd"], Len(got["fwd"])) /\ pos["fwd"] \in Nat
    BY Lanes, Names DEF Lane
<1>2. /\ Follows(wire["fwd"], wire'["fwd"]) /\ NoOrderAdded(wire["fwd"], wire'["fwd"])
      /\ pos'["fwd"] = pos["fwd"]
    BY <1>1, HeaderFollows, PayloadFollows DEF Begun, Extended
<1> QED
    BY <1>1, <1>2, ContiguousBefore, BlockedKept

\* More of the latest frame.
LEMMA PayloadInOrder ==
    ASSUME IInv, NEW d \in Dir, InOrder(d), NEW o, NEW j, NEW c, NEW r,
           Missing(wire[d], begins[d], o), Parts(o, j, c, r), PayloadOnly(c), Extended(d, c)
    PROVE  /\ InOrder(d)' /\ Missing(wire'[d], begins'[d], r)
           /\ j = Len(o) => Whole(wire'[d], begins'[d])
           /\ Current(wire'[d], begins'[d]) = Current(wire[d], begins[d])
<1>1. Lane(wire[d], begins[d], pos[d], Len(got[d]))
    BY Lanes
<1>2. wire'[d] = wire[d] \o c /\ begins'[d] = begins[d] /\ pos'[d] = pos[d]
    BY DEF Extended
<1>3. c \in Seq(CellSet) /\ begins[d] # <<>>
    BY DEF Parts, Missing
<1>4. Follows(wire[d], wire[d] \o c)
    BY <1>1, <1>3, PayloadFollows
<1>5. Current(wire[d] \o c, begins[d]) = Current(wire[d], begins[d])
    BY <1>1, <1>3, <1>4, CurrentPayload DEF InOrder
<1> QED
    BY <1>1, <1>2, <1>5, OrderlyPayload DEF InOrder

\* What is available is what recv_envelope reads as a whole.
LEMMA Readable ==
    ASSUME IInv, NEW d \in Dir, Available(d)
    PROVE  /\ WholeAt(wire[d], pos[d])
           /\ Intact(d) <=> IntactAt(wire[d], pos[d])
           /\ pos[d] + Expected(d) = After(wire[d], pos[d])
<1> DEFINE w == wire[d]
           p == pos[d]
           s == Size(w[p + 1].frame)
<1>1. w \in Seq(CellSet) /\ p \in Nat /\ Len(w) \in Nat
    BY LenProperties DEF IInv, FlowTyped
<1>2. p < Len(w) /\ p + (1 + s) <= Len(w) /\ Expected(d) = 1 + s
    BY DEF Available, Expected, Size
<1>3. p + 1 \in 1 .. Len(w)
    <2> HIDE DEF w, p, s
    <2> QED  BY <1>1, <1>2
<1>4. s \in Nat
    BY <1>1, <1>3, CellTypes
<1>5. p + (1 + s) = p + 1 + s
    <2> HIDE DEF p, s
    <2> QED  BY <1>1, <1>4
<1>6. WholeAt(w, p)
    BY <1>2, <1>5 DEF WholeAt
<1>7. Intact(d) <=> IntactAt(w, p)
    BY <1>6 DEF Intact, IntactAt, Size
<1> QED
    BY <1>2, <1>5, <1>6, <1>7 DEF After

\* Where no frames are mixed, no receive fails on the data.
LEMMA InOrderReads ==
    ASSUME IInv, NEW d \in Dir, InOrder(d), Available(d)
    PROVE  Intact(d)
<1>1. Lane(wire[d], begins[d], pos[d], Len(got[d]))
    BY Lanes
<1> QED
    BY <1>1, Readable, OrderlyIntact DEF InOrder

\* A frame is taken in order.
LEMMA TakeInOrder ==
    ASSUME IInv, NEW d \in Dir, InOrder(d), Taken(d)
    PROVE  InOrder(d)'
<1>1. Lane(wire[d], begins[d], pos[d], Len(got[d]))
    BY Lanes
<1>2. /\ Available(d) /\ Intact(d) /\ pos'[d] = pos[d] + Expected(d)
      /\ wire'[d] = wire[d] /\ begins'[d] = begins[d]
    BY DEF Taken
<1>3. IntactAt(wire[d], pos[d]) /\ pos'[d] = After(wire[d], pos[d])
    BY <1>2, Readable
<1>4. Orderly(wire[d], begins[d], After(wire[d], pos[d]))
    BY <1>1, <1>3, OrderlyTake DEF InOrder
<1> QED
    BY <1>2, <1>3, <1>4 DEF InOrder

\* What is taken in front of a broken frame is no order.
LEMMA TakeBlocked ==
    ASSUME IInv, Blocked(wire["fwd"], pos["fwd"]), Taken("fwd")
    PROVE  Blocked(wire'["fwd"], pos'["fwd"]) /\ Decoded("fwd").type # "Order"
<1>1. Lane(wire["fwd"], begins["fwd"], pos["fwd"], Len(got["fwd"])) /\ "fwd" \in Dir
    BY Lanes, Names
<1>2. /\ Available("fwd") /\ Intact("fwd") /\ pos'["fwd"] = pos["fwd"] + Expected("fwd")
      /\ wire'["fwd"] = wire["fwd"]
    BY DEF Taken
<1>3. IntactAt(wire["fwd"], pos["fwd"]) /\ pos'["fwd"] = After(wire["fwd"], pos["fwd"])
    BY <1>1, <1>2, Readable
<1>4. Decoded("fwd") = wire["fwd"][pos["fwd"] + 1].frame
    BY <1>1, <1>2, IntactDecodes DEF IInv
<1> QED
    BY <1>1, <1>2, <1>3, <1>4, BlockedReader

-----------------------------------------------------------------------------
(* The steps of a session *)

\* A frame is begun towards the gateway.
LEMMA FwdBegun ==
    ASSUME IInv, NEW f \in FrameSet, Begun("fwd", f), Same("back")
    PROVE  /\ Len(begins["fwd"]) \in Nat /\ Len(begins'["fwd"]) = Len(begins["fwd"]) + 1
           /\ f.type = "Order" => Orders' = Orders + 1
           /\ f.type # "Order" => Orders' = Orders
           /\ Replies' = Replies /\ Answers' = Answers
           /\ got'["fwd"] = got["fwd"] /\ got'["back"] = got["back"]
           /\ Sent("back")' = Sent("back")
           /\ \A i \in 1 .. Len(begins["fwd"]) :
                 Sent("fwd")'[i] = Sent("fwd")[i] /\ (Unread(i)' <=> Unread(i))
           /\ Sent("fwd")'[Len(begins["fwd"]) + 1] = f
           /\ \A i : i = Len(begins["fwd"]) + 1 /\ f.type # "Order" => ~ Unread(i)'
<1> USE Names
<1>1. /\ Len(begins["fwd"]) \in Nat /\ Len(got["fwd"]) \in Nat
      /\ Len(got["fwd"]) <= Len(begins["fwd"])
    BY Lanes
<1>2. /\ Len(begins'["fwd"]) = Len(begins["fwd"]) + 1
      /\ \A i \in 1 .. Len(begins["fwd"]) : Sent("fwd")'[i] = Sent("fwd")[i]
      /\ Sent("fwd")'[Len(begins["fwd"]) + 1] = f
      /\ f.type = "Order" => Orders' = Orders + 1
      /\ f.type # "Order" => Orders' = Orders
    BY SentBegun DEF Orders
<1>3. /\ got'["fwd"] = got["fwd"] /\ got'["back"] = got["back"]
      /\ begins'["back"] = begins["back"]
    BY DEF Begun, Same
<1>4. Sent("back")' = Sent("back")
    BY MoveSame
<1>5. Replies' = Replies /\ Answers' = Answers
    BY <1>3 DEF Replies, Answers
<1>6. ASSUME NEW i \in 1 .. Len(begins["fwd"]) PROVE Unread(i)' <=> Unread(i)
    BY <1>1, <1>2, <1>3 DEF Unread
<1>7. ASSUME NEW i, i = Len(begins["fwd"]) + 1, f.type # "Order" PROVE ~ Unread(i)'
    BY <1>2, <1>7 DEF Unread
<1> QED
    BY <1>1, <1>2, <1>3, <1>4, <1>5, <1>6, <1>7

\* The OMS has at most as many answers as there are replies.
LEMMA Bounds ==
    ASSUME IInv
    PROVE  Orders \in Nat /\ Replies \in Nat /\ Answers \in Nat /\ Answers <= Replies
BY Lanes, Names, FewOrders DEF Replies, Answers

\* An order that is begun: the last one was answered.  If the heartbeat
\* thread is inside a frame, no order was sent and none will be read.
LEMMA OmsSendKeeps ==
    ASSUME IInv, AInv, OmsSend
    PROVE  AInv'
<1> USE Names
<1> DEFINE f == Frame("Order", Orders + 1)
           N == Len(begins["fwd"])
<1>1. pc["oms"] = "send" /\ SendHeader("oms", f)
    BY DEF OmsSend, Orders
<1>2. Orders \in Nat /\ f \in FrameSet /\ f.type = "Order" /\ f.n = Orders + 1
    BY FewOrders DEF Frame, FrameSet, Types
<1> HIDE DEF f
<1>3. /\ pc'["oms"] = "sending" /\ Begun("fwd", f) /\ Same("back")
      /\ pc'["heartbeat"] = pc["heartbeat"] /\ pc'["gateway"] = pc["gateway"]
    BY <1>1, <1>2, HeaderStep DEF Goes, Elsewhere
<1>4. /\ out'["oms"] = Payload(f) /\ out'["heartbeat"] = out["heartbeat"]
      /\ out'["gateway"] = out["gateway"]
      /\ demo' = demo /\ open' = open /\ alive' = alive /\ crashed' = crashed
    BY <1>1, <1>2, HeaderEffect
<1>5. wire'["back"] = wire["back"] /\ begins'["back"] = begins["back"] /\ pos'["back"] = pos["back"]
    BY <1>3 DEF Same
<1>6. /\ N \in Nat /\ Len(begins'["fwd"]) = N + 1
      /\ Orders' = Orders + 1 /\ Replies' = Replies /\ Answers' = Answers
      /\ got'["fwd"] = got["fwd"] /\ got'["back"] = got["back"]
      /\ Sent("back")' = Sent("back")
      /\ \A i \in 1 .. N : Sent("fwd")'[i] = Sent("fwd")[i] /\ (Unread(i)' <=> Unread(i))
      /\ Sent("fwd")'[N + 1] = f
    BY <1>2, <1>3, FwdBegun
<1> HIDE DEF N
<1>7. Answers = Orders /\ Replies = Orders
    <2>1. Answers = Orders /\ Replies \in {Orders - 1, Orders}
        BY <1>1 DEF AInv, Answered, Numbered
    <2> QED
        BY <1>2, <2>1, Bounds
<1>8. /\ pc["gateway"] # "reply" /\ \A i \in 1 .. N : ~ Unread(i)
    BY <1>2, <1>7 DEF AInv, Numbered, N
<1>9. Numbered'
    <2>1. Replies' = Orders' - 1
        BY <1>2, <1>6, <1>7
    <2>2. \A i \in 1 .. N + 1 : Unread(i)' => i = N + 1
        BY <1>6, <1>8
    <2>3. Sent("fwd")'[N + 1].n = Orders'
        BY <1>2, <1>6
    <2>4. pc'["gateway"] = "sending" => Replies' >= 1
        BY <1>3, <1>6 DEF AInv, Numbered
    <2>5. \A i \in 1 .. Replies' : Sent("back")'[i] = Frame("Reply", i)
        BY <1>6 DEF AInv, Numbered
    <2> QED
        BY <1>3, <1>6, <1>8, <2>1, <2>2, <2>3, <2>4, <2>5 DEF Numbered
<1>10. Answered'
    <2>1. \A i \in 1 .. Answers' : got'["back"][i] = Sent("back")'[i]
        BY <1>6 DEF AInv, Answered
    <2>2. Answers' + 1 = Orders'
        BY <1>2, <1>6, <1>7
    <2>3. demo' => Orders' <= 1
        BY <1>1, <1>2, <1>4, <1>6 DEF AInv, Answered
    <2> QED
        BY <1>3, <2>1, <2>2, <2>3 DEF Answered
<1>11. Contiguous(wire["fwd"]) /\ InOrder("fwd") /\ open["fwd"]
    BY <1>1 DEF AInv, Unmixed, Mixed, Roles
<1>12. Roles' /\ NodeUp'
    BY <1>1, <1>3, <1>4 DEF AInv, Roles, NodeUp
<1>13. Replying'
    BY <1>3, <1>4, <1>5 DEF AInv, Replying, InOrder
<1>14. CASE pc["heartbeat"] = "sending"
    <2>1. demo /\ Missing(wire["fwd"], begins["fwd"], out["heartbeat"])
        BY <1>11, <1>14 DEF AInv, Roles, Unmixed
    <2>2. out["heartbeat"] \in Seq(CellSet) /\ out["heartbeat"] # <<>>
        BY <1>14 DEF IInv, OutTyped
    <2>3. Orders = 0
        BY <1>1, <2>1 DEF AInv, Answered
    <2>4. ~ Contiguous(wire'["fwd"]) /\ Blocked(wire'["fwd"], pos'["fwd"])
        BY <1>2, <1>3, <1>11, <2>1, <2>2, <2>3, FewOrders, HeaderMixes
    <2>5. wire["back"] = <<>>
        <3>1. begins["back"] = <<>>
            BY <1>7, <2>3, EmptySeq DEF Replies, IInv, FlowTyped
        <3> QED
            BY <1>11, <3>1 DEF AInv, Replying, InOrder, Orderly
    <2>6. pc["gateway"] # "sending"
        BY <1>7, <2>3 DEF AInv, Numbered
    <2>7. Unmixed' /\ Mixed'
        BY <1>3, <1>4, <1>5, <1>8, <2>1, <2>4, <2>5, <2>6 DEF Unmixed, Mixed
    <2> QED
        BY <1>9, <1>10, <1>12, <1>13, <2>7 DEF AInv
<1>15. CASE pc["heartbeat"] # "sending"
    <2>1. Whole(wire["fwd"], begins["fwd"])
        BY <1>1, <1>11, <1>15 DEF AInv, Unmixed, Early
    <2>2. /\ InOrder("fwd")' /\ Missing(wire'["fwd"], begins'["fwd"], Payload(f))
          /\ Current(wire'["fwd"], begins'["fwd"]) = f
        BY <1>2, <1>3, <1>11, <2>1, HeaderInOrder
    <2>3. Contiguous(wire'["fwd"])
        BY <2>2 DEF InOrder, Orderly
    <2>4. demo => pc["gateway"] # "ended" /\ alive
        BY <1>1, <1>11 DEF AInv, Unmixed, Early
    <2>5. Unmixed' /\ Mixed'
        BY <1>2, <1>3, <1>4, <1>15, <2>2, <2>3, <2>4 DEF Unmixed, Mixed
    <2> QED
        BY <1>9, <1>10, <1>12, <1>13, <2>5 DEF AInv
<1> QED  BY <1>14, <1>15

\* A heartbeat is begun.  If the OMS is inside its order, that is the only
\* one and not read, so there is no reply.
LEMMA BeatKeeps ==
    ASSUME IInv, AInv, Beat
    PROVE  AInv'
<1> USE Names
<1> DEFINE f == Frame("Heartbeat", Count("fwd", "Heartbeat") + 1)
           N == Len(begins["fwd"])
<1>1. pc["heartbeat"] = "loop" /\ alive /\ SendHeader("heartbeat", f)
    BY DEF Beat
<1>2. Orders \in Nat /\ f \in FrameSet /\ f.type # "Order"
    BY FewOrders, CountIsNat DEF IInv, Frame, FrameSet, Types
<1> HIDE DEF f
<1>3. /\ pc'["heartbeat"] = "sending" /\ Begun("fwd", f) /\ Same("back")
      /\ pc'["oms"] = pc["oms"] /\ pc'["gateway"] = pc["gateway"]
    BY <1>1, <1>2, HeaderStep DEF Goes, Elsewhere
<1>4. /\ out'["heartbeat"] = Payload(f) /\ out'["oms"] = out["oms"]
      /\ out'["gateway"] = out["gateway"]
      /\ demo' = demo /\ open' = open /\ alive' = alive /\ crashed' = crashed
    BY <1>1, <1>2, HeaderEffect
<1>5. wire'["back"] = wire["back"] /\ begins'["back"] = begins["back"] /\ pos'["back"] = pos["back"]
    BY <1>3 DEF Same
<1>6. /\ N \in Nat /\ Len(begins'["fwd"]) = N + 1
      /\ Orders' = Orders /\ Replies' = Replies /\ Answers' = Answers
      /\ got'["fwd"] = got["fwd"] /\ got'["back"] = got["back"]
      /\ Sent("back")' = Sent("back")
      /\ \A i \in 1 .. N : Sent("fwd")'[i] = Sent("fwd")[i] /\ (Unread(i)' <=> Unread(i))
      /\ \A i : i = N + 1 => ~ Unread(i)'
    BY <1>2, <1>3, FwdBegun
<1> HIDE DEF N
<1>7. Numbered'
    <2>1. \A i \in 1 .. N + 1 : Unread(i)' => i \in 1 .. N /\ Unread(i)
        BY <1>6
    <2>2. \A i \in 1 .. N + 1 : Unread(i)' =>
              /\ Sent("fwd")'[i].n = Orders' /\ Replies' = Orders' - 1 /\ pc'["gateway"] # "reply"
              /\ \A j \in 1 .. N + 1 : Unread(j)' => j = i
        BY <1>3, <1>6, <2>1 DEF AInv, Numbered, N
    <2>3. \A i \in 1 .. Replies' : Sent("back")'[i] = Frame("Reply", i)
        BY <1>6 DEF AInv, Numbered
    <2>4. /\ Replies' \in {Orders' - 1, Orders'}
          /\ pc'["gateway"] = "sending" => Replies' >= 1
          /\ pc'["gateway"] = "reply" =>
                Last(got'["fwd"]) = Frame("Order", Orders') /\ Replies' = Orders' - 1
        BY <1>3, <1>6 DEF AInv, Numbered
    <2> QED
        BY <1>6, <2>2, <2>3, <2>4 DEF Numbered
<1>8. Answered'
    <2>1. \A i \in 1 .. Answers' : got'["back"][i] = Sent("back")'[i]
        BY <1>6 DEF AInv, Answered
    <2> QED
        BY <1>3, <1>4, <1>6, <2>1 DEF AInv, Answered
<1>9. demo /\ Roles' /\ NodeUp'
    BY <1>1, <1>3, <1>4 DEF AInv, Roles, NodeUp
<1>10. Replying'
    BY <1>3, <1>4, <1>5 DEF AInv, Replying, InOrder
<1>11. CASE ~ Contiguous(wire["fwd"])
    <2>1. ~ Contiguous(wire'["fwd"]) /\ Blocked(wire'["fwd"], pos'["fwd"])
        BY <1>2, <1>3, <1>11, MoreBlocked DEF AInv, Mixed
    <2>2. Unmixed' /\ Mixed'
        BY <1>3, <1>4, <1>5, <1>11, <2>1 DEF AInv, Unmixed, Mixed
    <2> QED
        BY <1>7, <1>8, <1>9, <1>10, <2>2 DEF AInv
<1>12. CASE Contiguous(wire["fwd"]) /\ pc["oms"] = "sending"
    <2>1. /\ InOrder("fwd") /\ Missing(wire["fwd"], begins["fwd"], out["oms"])
          /\ Current(wire["fwd"], begins["fwd"]).type = "Order" /\ open["fwd"]
        BY <1>12 DEF AInv, Unmixed, Roles
    <2>2. out["oms"] \in Seq(CellSet) /\ out["oms"] # <<>>
        BY <1>12 DEF IInv, OutTyped
    <2>3. Lane(wire["fwd"], begins["fwd"], pos["fwd"], Len(got["fwd"]))
        BY Lanes
    <2>4. /\ begins["fwd"] # <<>>
          /\ Written(wire["fwd"], begins["fwd"]) < Size(Current(wire["fwd"], begins["fwd"]))
        BY <2>1, <2>2, <2>3, MissingSome DEF InOrder
    <2>5. Len(got["fwd"]) < N /\ N \in 1 .. N
        BY <2>1, <2>3, <2>4, ReaderBefore, LatestFrame DEF InOrder, Orderly, N
    <2>6. Sent("fwd")[N].type = "Order"
        BY <2>1, <2>5, Lanes DEF Current, LastBegin, N
    <2>7. Unread(N)
        BY <1>6, <2>5, <2>6, Lanes DEF Unread, N
    <2>8. Replies = Orders - 1 /\ pc["gateway"] # "reply" /\ Orders <= 1
        BY <1>9, <2>5, <2>7 DEF AInv, Numbered, Answered, N
    <2>9. Replies = 0 /\ pc["gateway"] # "sending"
        BY <1>2, <2>8, Bounds DEF AInv, Numbered
    <2>10. \A i \in 1 .. N : Sent("fwd")[i].type = "Order" => i = N
        BY <2>5, <2>6, <2>8, FewOrders DEF N
    <2>11. ~ Contiguous(wire'["fwd"]) /\ Blocked(wire'["fwd"], pos'["fwd"])
        BY <1>2, <1>3, <2>1, <2>2, <2>10, HeaderMixes DEF N
    <2>12. wire["back"] = <<>>
        <3>1. begins["back"] = <<>>
            BY <2>9, EmptySeq DEF Replies, IInv, FlowTyped
        <3> QED
            BY <2>1, <3>1 DEF AInv, Replying, InOrder, Orderly
    <2>13. Unmixed' /\ Mixed'
        BY <1>3, <1>4, <1>5, <1>9, <1>12, <2>8, <2>9, <2>11, <2>12 DEF Unmixed, Mixed
    <2> QED
        BY <1>7, <1>8, <1>9, <1>10, <2>13 DEF AInv
<1>13. CASE Contiguous(wire["fwd"]) /\ pc["oms"] # "sending"
    <2>1. InOrder("fwd") /\ Whole(wire["fwd"], begins["fwd"])
        BY <1>1, <1>13 DEF AInv, Unmixed
    <2>2. InOrder("fwd")' /\ Missing(wire'["fwd"], begins'["fwd"], Payload(f))
        BY <1>2, <1>3, <2>1, HeaderInOrder
    <2>3. Contiguous(wire'["fwd"])
        BY <2>2 DEF InOrder, Orderly
    <2>4. /\ demo /\ Early' => pc["gateway"] # "ended" /\ alive
          /\ pc'["oms"] # "terminated"
        BY <1>3, <1>13 DEF AInv, Unmixed, Early
    <2>5. Unmixed' /\ Mixed'
        BY <1>3, <1>4, <1>13, <2>2, <2>3, <2>4 DEF Unmixed, Mixed
    <2> QED
        BY <1>7, <1>8, <1>9, <1>10, <2>5 DEF AInv
<1> QED  BY <1>11, <1>12, <1>13

\* Payload is no message.
LEMMA PayloadSteady ==
    ASSUME IInv, NEW d \in Dir, NEW c \in Seq(CellSet), PayloadOnly(c), Extended(d, c),
           Elsewhere(d)
    PROVE  Steady
<1> SUFFICES ASSUME NEW e \in Dir
             PROVE  Sent(e)' = Sent(e) /\ begins'[e] = begins[e] /\ got'[e] = got[e]
    BY DEF Steady
<1>1. CASE e = d
    BY <1>1, SentKept DEF Extended
<1>2. CASE e # d
    BY <1>2, SentKept DEF Elsewhere, Same
<1> QED  BY <1>1, <1>2

\* Payload of the order.
LEMMA OmsPayloadKeeps ==
    ASSUME IInv, AInv, SendPayload("oms")
    PROVE  AInv'
<1> USE Names
<1>1. /\ demo' = demo /\ open' = open /\ alive' = alive /\ crashed' = crashed
      /\ pc["oms"] = "sending" /\ Elsewhere("fwd")
      /\ pc'["heartbeat"] = pc["heartbeat"] /\ pc'["gateway"] = pc["gateway"]
      /\ out'["heartbeat"] = out["heartbeat"] /\ out'["gateway"] = out["gateway"]
    BY PayloadEffect DEF Goes
<1>2. PICK j, c, r :
          /\ Parts(out["oms"], j, c, r) /\ c \in Seq(CellSet) /\ PayloadOnly(c)
          /\ Extended("fwd", c) /\ out'["oms"] = r
          /\ pc'["oms"] = IF j = Len(out["oms"]) THEN "await" ELSE "sending"
    BY PayloadEffect DEF SentLabel
<1>3. pc'["oms"] \in {"sending", "await"}
    BY <1>2
<1>4. wire'["back"] = wire["back"] /\ begins'["back"] = begins["back"] /\ pos'["back"] = pos["back"]
    BY <1>1 DEF Elsewhere, Same
<1>5. Steady
    BY <1>1, <1>2, PayloadSteady
<1>6. /\ Numbered' /\ Orders' = Orders /\ Answers' = Answers
      /\ \A i \in 1 .. Answers' : got'["back"][i] = Sent("back")'[i]
    BY <1>1, <1>5, SteadyNumbers DEF AInv
<1>7. Answered'
    BY <1>1, <1>3, <1>6 DEF AInv, Answered
<1>8. Roles' /\ NodeUp'
    BY <1>1, <1>3 DEF AInv, Roles, NodeUp
<1>9. Replying'
    BY <1>1, <1>4 DEF AInv, Replying, InOrder
<1>10. CASE ~ Contiguous(wire["fwd"])
    <2>1. ~ Contiguous(wire'["fwd"]) /\ Blocked(wire'["fwd"], pos'["fwd"])
        BY <1>2, <1>10, MoreBlocked DEF AInv, Mixed
    <2>2. Unmixed' /\ Mixed'
        BY <1>1, <1>3, <1>4, <1>10, <2>1 DEF AInv, Unmixed, Mixed
    <2> QED
        BY <1>6, <1>7, <1>8, <1>9, <2>2 DEF AInv
<1>11. CASE Contiguous(wire["fwd"])
    <2>1. /\ InOrder("fwd") /\ Missing(wire["fwd"], begins["fwd"], out["oms"])
          /\ Current(wire["fwd"], begins["fwd"]).type = "Order" /\ pc["heartbeat"] # "sending"
          /\ demo => pc["gateway"] # "ended" /\ alive
        BY <1>1, <1>11 DEF AInv, Unmixed, Early
    <2>2. /\ InOrder("fwd")' /\ Missing(wire'["fwd"], begins'["fwd"], r)
          /\ j = Len(out["oms"]) => Whole(wire'["fwd"], begins'["fwd"])
          /\ Current(wire'["fwd"], begins'["fwd"]).type = "Order"
        BY <1>2, <2>1, PayloadInOrder
    <2>3. Contiguous(wire'["fwd"])
        BY <2>2 DEF InOrder, Orderly
    <2>4. Unmixed' /\ Mixed'
        BY <1>1, <1>2, <2>1, <2>2, <2>3 DEF Unmixed, Mixed
    <2> QED
        BY <1>6, <1>7, <1>8, <1>9, <2>4 DEF AInv
<1> QED  BY <1>10, <1>11

\* Payload of a heartbeat.
LEMMA HeartbeatPayloadKeeps ==
    ASSUME IInv, AInv, SendPayload("heartbeat")
    PROVE  AInv'
<1> USE Names
<1>1. /\ demo' = demo /\ open' = open /\ alive' = alive /\ crashed' = crashed
      /\ pc["heartbeat"] = "sending" /\ Elsewhere("fwd")
      /\ pc'["oms"] = pc["oms"] /\ pc'["gateway"] = pc["gateway"]
      /\ out'["oms"] = out["oms"] /\ out'["gateway"] = out["gateway"]
    BY PayloadEffect DEF Goes
<1>2. PICK j, c, r :
          /\ Parts(out["heartbeat"], j, c, r) /\ c \in Seq(CellSet) /\ PayloadOnly(c)
          /\ Extended("fwd", c) /\ out'["heartbeat"] = r
          /\ pc'["heartbeat"] = IF j = Len(out["heartbeat"]) THEN "loop" ELSE "sending"
    BY PayloadEffect DEF SentLabel
<1>3. pc'["heartbeat"] \in {"sending", "loop"}
    BY <1>2
<1>4. wire'["back"] = wire["back"] /\ begins'["back"] = begins["back"] /\ pos'["back"] = pos["back"]
    BY <1>1 DEF Elsewhere, Same
<1>5. Steady
    BY <1>1, <1>2, PayloadSteady
<1>6. /\ Numbered' /\ Orders' = Orders /\ Answers' = Answers
      /\ \A i \in 1 .. Answers' : got'["back"][i] = Sent("back")'[i]
    BY <1>1, <1>5, SteadyNumbers DEF AInv
<1>7. Answered'
    BY <1>1, <1>6 DEF AInv, Answered
<1>8. Roles' /\ NodeUp'
    BY <1>1, <1>3 DEF AInv, Roles, NodeUp
<1>9. Replying'
    BY <1>1, <1>4 DEF AInv, Replying, InOrder
<1>10. CASE ~ Contiguous(wire["fwd"])
    <2>1. ~ Contiguous(wire'["fwd"]) /\ Blocked(wire'["fwd"], pos'["fwd"])
        BY <1>2, <1>10, MoreBlocked DEF AInv, Mixed
    <2>2. Unmixed' /\ Mixed'
        BY <1>1, <1>4, <1>10, <2>1 DEF AInv, Unmixed, Mixed
    <2> QED
        BY <1>6, <1>7, <1>8, <1>9, <2>2 DEF AInv
<1>11. CASE Contiguous(wire["fwd"])
    <2>1. /\ InOrder("fwd") /\ Missing(wire["fwd"], begins["fwd"], out["heartbeat"])
          /\ pc["oms"] # "sending" /\ pc["oms"] # "terminated"
          /\ demo /\ Early => pc["gateway"] # "ended" /\ alive
        BY <1>1, <1>11 DEF AInv, Unmixed
    <2>2. /\ InOrder("fwd")' /\ Missing(wire'["fwd"], begins'["fwd"], r)
          /\ j = Len(out["heartbeat"]) => Whole(wire'["fwd"], begins'["fwd"])
        BY <1>2, <2>1, PayloadInOrder
    <2>3. Contiguous(wire'["fwd"]) /\ (Early' <=> Early)
        BY <1>1, <2>2 DEF InOrder, Orderly, Early
    <2>4. Unmixed' /\ Mixed'
        BY <1>1, <1>2, <2>1, <2>2, <2>3 DEF Unmixed, Mixed
    <2> QED
        BY <1>6, <1>7, <1>8, <1>9, <2>4 DEF AInv
<1> QED  BY <1>10, <1>11

\* Payload of a reply.
LEMMA GatewayPayloadKeeps ==
    ASSUME IInv, AInv, SendPayload("gateway")
    PROVE  AInv'
<1> USE Names
<1>1. /\ demo' = demo /\ open' = open /\ alive' = alive /\ crashed' = crashed
      /\ pc["gateway"] = "sending" /\ Elsewhere("back")
      /\ pc'["oms"] = pc["oms"] /\ pc'["heartbeat"] = pc["heartbeat"]
      /\ out'["oms"] = out["oms"] /\ out'["heartbeat"] = out["heartbeat"]
    BY PayloadEffect DEF Goes
<1>2. PICK j, c, r :
          /\ Parts(out["gateway"], j, c, r) /\ c \in Seq(CellSet) /\ PayloadOnly(c)
          /\ Extended("back", c) /\ out'["gateway"] = r
          /\ pc'["gateway"] = IF j = Len(out["gateway"]) THEN "loop" ELSE "sending"
    BY PayloadEffect DEF SentLabel
<1>3. pc'["gateway"] \in {"sending", "loop"}
    BY <1>2
<1>4. wire'["fwd"] = wire["fwd"] /\ begins'["fwd"] = begins["fwd"] /\ pos'["fwd"] = pos["fwd"]
    BY <1>1 DEF Elsewhere, Same
<1>5. Steady
    BY <1>1, <1>2, PayloadSteady
<1>6. /\ Numbered' /\ Orders' = Orders /\ Answers' = Answers
      /\ \A i \in 1 .. Answers' : got'["back"][i] = Sent("back")'[i]
    BY <1>1, <1>3, <1>5, SteadyNumbers DEF AInv
<1>7. Answered'
    BY <1>1, <1>6 DEF AInv, Answered
<1>8. Roles' /\ NodeUp'
    BY <1>1, <1>3 DEF AInv, Roles, NodeUp
<1>9. Contiguous(wire["fwd"])
    BY <1>1 DEF AInv, Mixed
<1>10. (InOrder("fwd")' <=> InOrder("fwd")) /\ (Early' <=> Early)
    BY <1>1, <1>4 DEF InOrder, Early
<1>11. Unmixed' /\ Mixed'
    BY <1>1, <1>3, <1>4, <1>9, <1>10 DEF AInv, Unmixed, Mixed
<1>12. Replying'
    <2> SUFFICES ASSUME open'["fwd"] PROVE Replying'
        BY DEF Replying
    <2>1. InOrder("back") /\ Missing(wire["back"], begins["back"], out["gateway"])
        BY <1>1 DEF AInv, Replying
    <2>2. /\ InOrder("back")' /\ Missing(wire'["back"], begins'["back"], r)
          /\ j = Len(out["gateway"]) => Whole(wire'["back"], begins'["back"])
        BY <1>2, <2>1, PayloadInOrder
    <2> QED
        BY <1>2, <2>2 DEF Replying
<1> QED
    BY <1>6, <1>7, <1>8, <1>11, <1>12 DEF AInv

\* The OMS receives the answer to its order.
LEMMA OmsReceivesKeeps ==
    ASSUME IInv, AInv, OmsReceives
    PROVE  AInv'
<1> USE Names
<1>1. /\ pc["oms"] = "await" /\ Receive("oms") /\ Goto("oms", IF demo THEN "joining" ELSE "send")
      /\ wire' = wire /\ begins' = begins /\ out' = out /\ open' = open
      /\ demo' = demo /\ crashed' = crashed
    BY DEF OmsReceives
<1>2. Taken("back") /\ Elsewhere("back")
    BY <1>1, ReceiveStep
<1>3. /\ pc'["oms"] = (IF demo THEN "joining" ELSE "send")
      /\ pc'["heartbeat"] = pc["heartbeat"] /\ pc'["gateway"] = pc["gateway"]
    BY <1>1 DEF Goto, IInv, Control
<1>4. pos'["fwd"] = pos["fwd"] /\ got'["fwd"] = got["fwd"] /\ Sent("fwd")' = Sent("fwd")
    BY <1>2, MoveSame DEF Elsewhere, Same
<1>5. /\ Sent("back")' = Sent("back") /\ Answers < Len(Sent("back"))
      /\ got'["back"] = Append(got["back"], Sent("back")[Answers + 1])
    BY <1>2, MoveTaken DEF IInv, Answers
<1>6. got["back"] \in Seq(FrameSet) /\ Answers \in Nat /\ Len(Sent("back")) = Replies
      /\ Sent("back")[Answers + 1] \in FrameSet
    <2>1. got["back"] \in Seq(FrameSet) /\ Answers \in Nat /\ Replies \in Nat
        BY Bounds DEF IInv, FlowTyped
    <2>2. Len(Sent("back")) = Replies
        BY <2>1 DEF Sent, Replies
    <2>3. Answers + 1 \in 1 .. Replies
        BY <1>5, <2>1, <2>2
    <2> QED
        BY <2>1, <2>2, <2>3, Lanes DEF Replies
<1>7. /\ Answers' = Answers + 1
      /\ \A i \in 1 .. Answers : got'["back"][i] = got["back"][i]
      /\ got'["back"][Answers + 1] = Sent("back")[Answers + 1]
    BY <1>5, <1>6, AppendProperties DEF Answers
<1>8. Orders' = Orders /\ Replies' = Replies
    BY <1>1, <1>4 DEF Orders, Count, Replies
<1>9. Numbered'
    <2>1. ASSUME NEW i PROVE Unread(i)' <=> Unread(i)
        BY <1>1, <1>4 DEF Unread
    <2> QED
        BY <1>1, <1>3, <1>4, <1>5, <1>8, <2>1 DEF AInv, Numbered
<1>10. Answered'
    <2>1. \A i \in 1 .. Answers' : got'["back"][i] = Sent("back")'[i]
        <3> SUFFICES ASSUME NEW i \in 1 .. Answers + 1 PROVE got'["back"][i] = Sent("back")[i]
            BY <1>5, <1>7
        <3>1. CASE i \in 1 .. Answers
            BY <1>7, <3>1 DEF AInv, Answered
        <3>2. CASE i = Answers + 1
            BY <1>7, <3>2
        <3> QED  BY <1>6, <3>1, <3>2
    <2>2. Answers' = Orders'
        BY <1>1, <1>7, <1>8 DEF AInv, Answered
    <2>3. demo' => Orders' <= 1
        BY <1>1, <1>8 DEF AInv, Answered
    <2> QED
        BY <1>1, <1>3, <2>1, <2>2, <2>3 DEF Answered
<1>11. Roles' /\ NodeUp'
    BY <1>1, <1>3 DEF AInv, Roles, NodeUp
<1>12. Contiguous(wire["fwd"])
    <2> SUFFICES ASSUME wire["back"] = <<>> PROVE FALSE
        BY DEF AInv, Mixed
    <2>1. pos["back"] < 0
        BY <1>2 DEF Taken, Available
    <2> QED
        BY <2>1 DEF IInv, FlowTyped
<1>13. InOrder("fwd")' <=> InOrder("fwd")
    BY <1>1, <1>4 DEF InOrder
<1>14. /\ InOrder("fwd") /\ (pc["heartbeat"] = "sending" \/ Whole(wire["fwd"], begins["fwd"]))
       /\ pc["heartbeat"] = "sending" => Missing(wire["fwd"], begins["fwd"], out["heartbeat"])
    BY <1>1, <1>12 DEF AInv, Unmixed, Early
<1>15. demo' => ~ Early'
    BY <1>1, <1>3 DEF Early
<1>16. Unmixed' /\ Mixed'
    BY <1>1, <1>3, <1>12, <1>13, <1>14, <1>15 DEF Unmixed, Mixed
<1>17. Replying'
    <2>1. open["fwd"] => InOrder("back")'
        BY <1>2, TakeInOrder DEF AInv, Replying
    <2> QED
        BY <1>1, <1>3, <2>1 DEF AInv, Replying
<1> QED
    BY <1>9, <1>10, <1>11, <1>16, <1>17 DEF AInv

\* The gateway receives a heartbeat or the only order that it has not
\* received.
LEMMA GatewayReceivesKeeps ==
    ASSUME IInv, AInv, GatewayReceives
    PROVE  AInv'
<1> USE Names
<1> DEFINE n == Len(got["fwd"])
           N == Len(begins["fwd"])
           g == Sent("fwd")[n + 1]
<1>1. /\ pc["gateway"] = "recv" /\ Receive("gateway")
      /\ Goto("gateway", IF Decoded("fwd").type = "Order" THEN "reply" ELSE "loop")
      /\ wire' = wire /\ begins' = begins /\ out' = out /\ open' = open
      /\ demo' = demo /\ crashed' = crashed /\ alive' = alive
    BY DEF GatewayReceives
<1>2. Taken("fwd") /\ Elsewhere("fwd")
    BY <1>1, ReceiveStep
<1>3. /\ pc'["gateway"] = (IF Decoded("fwd").type = "Order" THEN "reply" ELSE "loop")
      /\ pc'["heartbeat"] = pc["heartbeat"] /\ pc'["oms"] = pc["oms"]
    BY <1>1 DEF Goto, IInv, Control
<1>4. pos'["back"] = pos["back"] /\ got'["back"] = got["back"] /\ Sent("back")' = Sent("back")
    BY <1>2, MoveSame DEF Elsewhere, Same
<1>5. /\ Sent("fwd")' = Sent("fwd") /\ n < Len(Sent("fwd"))
      /\ got'["fwd"] = Append(got["fwd"], g)
    BY <1>2, MoveTaken DEF IInv
<1>6. got["fwd"] \in Seq(FrameSet) /\ n \in Nat /\ N \in Nat /\ n + 1 \in 1 .. N /\ g \in FrameSet
    <2>1. got["fwd"] \in Seq(FrameSet) /\ n \in Nat /\ N \in Nat
        BY Lanes DEF IInv, FlowTyped
    <2>2. Len(Sent("fwd")) = N
        BY <2>1 DEF Sent
    <2>3. n + 1 \in 1 .. N
        BY <1>5, <2>1, <2>2
    <2> QED
        BY <2>1, <2>3, Lanes
<1>7. /\ Len(got'["fwd"]) = n + 1 /\ got'["fwd"][n + 1] = g /\ Last(got'["fwd"]) = g
    <2>1. Len(got'["fwd"]) = n + 1 /\ got'["fwd"][n + 1] = g
        BY <1>5, <1>6, AppendProperties
    <2> QED
        BY <2>1 DEF Last
<1>8. Decoded("fwd") = g
    <2>1. got'["fwd"] = Append(got["fwd"], Decoded("fwd")) /\ Decoded("fwd") \in FrameSet
        BY <1>2, IntactDecodes DEF Taken, IInv
    <2>2. got'["fwd"][n + 1] = Decoded("fwd")
        BY <1>6, <2>1, AppendProperties
    <2> QED
        BY <1>7, <2>2
<1>9. Orders' = Orders /\ Replies' = Replies /\ Answers' = Answers
    BY <1>1, <1>4, <1>5 DEF Orders, Count, Replies, Answers
<1>10. ASSUME NEW i \in 1 .. N PROVE Unread(i)' <=> Unread(i) /\ i # n + 1
    BY <1>1, <1>5, <1>6, <1>7 DEF Unread
<1>11. g.type = "Order" => Unread(n + 1)
    BY <1>6 DEF Unread
<1> HIDE DEF g, n, N
<1>12. Numbered'
    <2>1. begins'["fwd"] = begins["fwd"] /\ Len(begins'["fwd"]) = N
        BY <1>1 DEF N
    <2>2. CASE g.type = "Order"
        <3>1. g.n = Orders /\ Replies = Orders - 1 /\ \A j \in 1 .. N : Unread(j) => j = n + 1
            BY <1>6, <1>11, <2>2 DEF AInv, Numbered, N, g
        <3>2. g = Frame("Order", Orders)
            <4>1. g = [type |-> g.type, n |-> g.n]
                BY <1>6 DEF FrameSet
            <4> QED
                BY <2>2, <3>1, <4>1 DEF Frame
        <3>3. \A i \in 1 .. N : ~ Unread(i)'
            BY <1>10, <3>1
        <3>4. pc'["gateway"] = "reply"
            BY <1>3, <1>8, <2>2
        <3>5. \A i \in 1 .. Replies' : Sent("back")'[i] = Frame("Reply", i)
            BY <1>4, <1>9 DEF AInv, Numbered
        <3> QED
            BY <1>7, <1>9, <2>1, <3>1, <3>2, <3>3, <3>4, <3>5 DEF Numbered
    <2>3. CASE g.type # "Order"
        <3>1. pc'["gateway"] = "loop"
            BY <1>3, <1>8, <2>3
        <3>2. \A i \in 1 .. N : Unread(i)' =>
                  /\ Sent("fwd")'[i].n = Orders' /\ Replies' = Orders' - 1
                  /\ \A j \in 1 .. N : Unread(j)' => j = i
            BY <1>5, <1>9, <1>10 DEF AInv, Numbered, N
        <3>3. /\ \A i \in 1 .. Replies' : Sent("back")'[i] = Frame("Reply", i)
              /\ Replies' \in {Orders' - 1, Orders'}
            BY <1>4, <1>9 DEF AInv, Numbered
        <3> QED
            BY <2>1, <3>1, <3>2, <3>3 DEF Numbered
    <2> QED  BY <2>2, <2>3
<1>13. Answered'
    <2>1. \A i \in 1 .. Answers' : got'["back"][i] = Sent("back")'[i]
        BY <1>4, <1>9 DEF AInv, Answered
    <2> QED
        BY <1>1, <1>3, <1>9, <2>1 DEF AInv, Answered
<1>14. pc'["gateway"] \in {"reply", "loop"} /\ Roles' /\ NodeUp'
    BY <1>1, <1>3 DEF AInv, Roles, NodeUp
<1>15. Replying'
    <2>1. InOrder("back")' <=> InOrder("back")
        BY <1>1, <1>4 DEF InOrder
    <2> QED
        BY <1>1, <1>14, <2>1 DEF AInv, Replying
<1>16. Early' <=> Early
    BY <1>3 DEF Early
<1>17. CASE Contiguous(wire["fwd"])
    <2>1. InOrder("fwd")'
        BY <1>2, <1>17, TakeInOrder DEF AInv, Unmixed
    <2>2. Unmixed' /\ Mixed'
        BY <1>1, <1>3, <1>14, <1>16, <1>17, <2>1 DEF AInv, Unmixed, Mixed
    <2> QED
        BY <1>12, <1>13, <1>14, <1>15, <2>2 DEF AInv
<1>18. CASE ~ Contiguous(wire["fwd"])
    <2>1. Blocked(wire'["fwd"], pos'["fwd"]) /\ pc'["gateway"] = "loop"
        BY <1>2, <1>3, <1>18, TakeBlocked DEF AInv, Mixed
    <2>2. Unmixed' /\ Mixed'
        BY <1>1, <1>3, <1>18, <2>1 DEF AInv, Unmixed, Mixed
    <2> QED
        BY <1>12, <1>13, <1>14, <1>15, <2>2 DEF AInv
<1> QED  BY <1>17, <1>18

\* The gateway begins the reply to the latest order.
LEMMA GatewayRepliesKeeps ==
    ASSUME IInv, AInv, GatewayReplies
    PROVE  AInv'
<1> USE Names
<1> DEFINE f == Frame("Reply", Last(got["fwd"]).n)
<1>1. pc["gateway"] = "reply" /\ SendHeader("gateway", f)
    BY DEF GatewayReplies
<1>2. Last(got["fwd"]) = Frame("Order", Orders) /\ Replies = Orders - 1
    BY <1>1 DEF AInv, Numbered
<1>3. Orders \in Nat /\ f = Frame("Reply", Orders) /\ f \in FrameSet
    BY <1>2, FewOrders DEF Frame, FrameSet, Types
<1> HIDE DEF f
<1>4. /\ pc'["gateway"] = "sending" /\ Begun("back", f) /\ Same("fwd")
      /\ pc'["heartbeat"] = pc["heartbeat"] /\ pc'["oms"] = pc["oms"]
    BY <1>1, <1>3, HeaderStep DEF Goes, Elsewhere
<1>5. /\ out'["gateway"] = Payload(f) /\ out'["heartbeat"] = out["heartbeat"]
      /\ out'["oms"] = out["oms"]
      /\ demo' = demo /\ open' = open /\ alive' = alive /\ crashed' = crashed
    BY <1>1, <1>3, HeaderEffect
<1>6. /\ wire'["fwd"] = wire["fwd"] /\ begins'["fwd"] = begins["fwd"] /\ pos'["fwd"] = pos["fwd"]
      /\ got'["fwd"] = got["fwd"] /\ got'["back"] = got["back"]
    BY <1>4 DEF Same, Begun
<1>7. Sent("fwd")' = Sent("fwd") /\ Orders' = Orders /\ Answers' = Answers
    BY <1>4, <1>6, SentKept DEF Orders, Answers
<1>8. /\ Replies' = Replies + 1 /\ Replies \in Nat
      /\ \A i \in 1 .. Replies : Sent("back")'[i] = Sent("back")[i]
      /\ Sent("back")'[Replies + 1] = f
    BY <1>3, <1>4, SentBegun, Bounds DEF Replies
<1>9. Numbered'
    <2>1. ASSUME NEW i PROVE Unread(i)' <=> Unread(i)
        BY <1>6, <1>7 DEF Unread
    <2>2. \A i \in 1 .. Len(begins["fwd"]) : ~ Unread(i)
        BY <1>1 DEF AInv, Numbered
    <2>3. \A i \in 1 .. Len(begins'["fwd"]) : ~ Unread(i)'
        BY <1>6, <2>1, <2>2
    <2>4. Replies' = Orders' /\ Replies' >= 1
        BY <1>2, <1>3, <1>7, <1>8
    <2>5. ASSUME NEW i \in 1 .. Replies + 1 PROVE Sent("back")'[i] = Frame("Reply", i)
        <3>1. CASE i \in 1 .. Replies
            BY <1>8, <3>1 DEF AInv, Numbered
        <3>2. CASE i = Replies + 1
            <4>1. i = Orders
                BY <1>2, <1>3, <3>2
            <4> QED
                BY <1>3, <1>8, <3>2, <4>1
        <3> QED  BY <1>8, <3>1, <3>2
    <2> QED
        BY <1>4, <1>8, <2>3, <2>4, <2>5 DEF Numbered
<1>10. Answered'
    <2>1. \A i \in 1 .. Answers' : got'["back"][i] = Sent("back")'[i]
        <3>1. \A i \in 1 .. Answers : i \in 1 .. Replies
            BY Bounds
        <3> QED
            BY <1>6, <1>7, <1>8, <3>1 DEF AInv, Answered
    <2> QED
        BY <1>4, <1>5, <1>7, <2>1 DEF AInv, Answered
<1>11. Roles' /\ NodeUp'
    BY <1>4, <1>5, <1>1 DEF AInv, Roles, NodeUp
<1>12. Contiguous(wire["fwd"])
    BY <1>1 DEF AInv, Mixed
<1>13. (InOrder("fwd")' <=> InOrder("fwd")) /\ (Early' <=> Early)
    BY <1>4, <1>6 DEF InOrder, Early
<1>14. Unmixed' /\ Mixed'
    BY <1>1, <1>4, <1>5, <1>6, <1>12, <1>13 DEF AInv, Unmixed, Mixed
<1>15. Replying'
    <2> SUFFICES ASSUME open'["fwd"] PROVE Replying'
        BY DEF Replying
    <2>1. InOrder("back") /\ Whole(wire["back"], begins["back"])
        BY <1>1, <1>5 DEF AInv, Replying
    <2>2. InOrder("back")' /\ Missing(wire'["back"], begins'["back"], Payload(f))
        BY <1>3, <1>4, <2>1, HeaderInOrder
    <2> QED
        BY <1>4, <1>5, <2>2 DEF Replying
<1> QED
    BY <1>9, <1>10, <1>11, <1>14, <1>15 DEF AInv

\* Steps that leave the data alone, and begin neither a reply nor a frame.
LEMMA QuietSession ==
    ASSUME AInv, UNCHANGED flow,
           pc'["gateway"] \in {pc["gateway"], "loop", "recv", "ended"}
    PROVE  /\ Numbered' /\ Orders' = Orders /\ Answers' = Answers
           /\ \A i \in 1 .. Answers' : got'["back"][i] = Sent("back")'[i]
           /\ wire' = wire /\ begins' = begins /\ pos' = pos
           /\ InOrder("fwd")' <=> InOrder("fwd")
           /\ InOrder("back")' <=> InOrder("back")
<1>1. wire' = wire /\ begins' = begins /\ pos' = pos /\ got' = got
    BY DEF flow
<1>2. Steady
    BY <1>1 DEF Steady, Sent
<1>3. /\ Numbered' /\ Orders' = Orders /\ Answers' = Answers
      /\ \A i \in 1 .. Answers' : got'["back"][i] = Sent("back")'[i]
    BY <1>2, SteadyNumbers DEF AInv
<1> QED
    BY <1>1, <1>3 DEF InOrder

\* The end of a thread.
LEMMA EndEffect ==
    ASSUME IInv, NEW t \in Thread, End(t)
    PROVE  /\ demo' = demo /\ UNCHANGED flow /\ out'[t] = <<>> /\ pc'[t] = "ended"
           /\ \A u \in Thread \ {t} : pc'[u] = pc[u] /\ out'[u] = out[u]
           /\ ~ open'[Writes(t)] /\ \A d \in Dir \ {Writes(t)} : open'[d] = open[d]
BY Names DEF End, Goto, IInv, Control, OutTyped

\* The demo's receives succeed as long as nothing is mixed, and a node's as
\* long as no process has died.
LEMMA OmsNeverLost ==
    ASSUME IInv, AInv, Contiguous(wire["fwd"]), demo \/ ~ crashed,
           \/ pc["oms"] = "sending" /\ Closed("oms")
           \/ pc["oms"] = "await" /\ Nothing("oms")
    PROVE  FALSE
<1> USE Names
<1>1. pc["gateway"] # "ended"
    BY DEF AInv, Unmixed, NodeUp, Early
<1>2. ~ Closed("oms")
    BY <1>1 DEF AInv, Roles, Closed
<1>3. pc["oms"] = "await" /\ Available("back") /\ ~ Intact("back")
    BY <1>2 DEF Nothing
<1>4. InOrder("back")
    BY <1>3 DEF AInv, Roles, Replying
<1> QED
    BY <1>3, <1>4, InOrderReads

\* The OMS ends: after its orders are answered, or because a process has died.
LEMMA OmsEndKeeps ==
    ASSUME IInv, AInv, End("oms"), alive' = alive, crashed' \in {crashed, TRUE},
           Contiguous(wire["fwd"]), pc["heartbeat"] = "ended", demo' => ~ crashed',
           ~ crashed' => Answers = Orders
    PROVE  AInv'
<1> USE Names
<1>1. /\ demo' = demo /\ UNCHANGED flow /\ pc'["oms"] = "ended"
      /\ pc'["heartbeat"] = "ended" /\ pc'["gateway"] = pc["gateway"]
      /\ out'["heartbeat"] = out["heartbeat"] /\ out'["gateway"] = out["gateway"]
      /\ ~ open'["fwd"] /\ open'["back"] = open["back"]
    BY EndEffect
<1>2. /\ Numbered' /\ Orders' = Orders /\ Answers' = Answers
      /\ \A i \in 1 .. Answers' : got'["back"][i] = Sent("back")'[i]
      /\ wire' = wire /\ begins' = begins /\ pos' = pos
      /\ InOrder("fwd")' <=> InOrder("fwd")
    BY <1>1, QuietSession
<1>3. Roles' /\ NodeUp'
    BY <1>1 DEF AInv, Roles, NodeUp
<1>4. Replying'
    BY <1>1 DEF Replying
<1>5. Unmixed' /\ Mixed'
    BY <1>1, <1>2 DEF AInv, Unmixed, Mixed, Early
<1>6. Answered'
    BY <1>1, <1>2 DEF AInv, Answered
<1> QED
    BY <1>2, <1>3, <1>4, <1>5, <1>6 DEF AInv

\* The gateway ends: after the OMS, or behind mixed frames, or because a
\* process has died.
LEMMA GatewayEndKeeps ==
    ASSUME IInv, AInv, End("gateway"), crashed' \in {crashed, TRUE}, alive' \in {alive, FALSE},
           Contiguous(wire["fwd"]) /\ demo => ~ Early, demo' => ~ crashed',
           ~ demo /\ ~ crashed' => pc["oms"] = "ended"
    PROVE  AInv'
<1> USE Names
<1>1. /\ demo' = demo /\ UNCHANGED flow /\ pc'["gateway"] = "ended"
      /\ pc'["heartbeat"] = pc["heartbeat"] /\ pc'["oms"] = pc["oms"]
      /\ out'["heartbeat"] = out["heartbeat"] /\ out'["oms"] = out["oms"]
      /\ open'["fwd"] = open["fwd"] /\ ~ open'["back"]
    BY EndEffect
<1>2. /\ Numbered' /\ Orders' = Orders /\ Answers' = Answers
      /\ \A i \in 1 .. Answers' : got'["back"][i] = Sent("back")'[i]
      /\ wire' = wire /\ begins' = begins /\ pos' = pos
      /\ InOrder("fwd")' <=> InOrder("fwd")
      /\ InOrder("back")' <=> InOrder("back")
    BY <1>1, QuietSession
<1>3. Roles' /\ NodeUp'
    BY <1>1 DEF AInv, Roles, NodeUp
<1>4. Replying'
    BY <1>1, <1>2 DEF AInv, Replying
<1>5. Early' <=> Early
    BY <1>1 DEF Early
<1>6. Unmixed' /\ Mixed'
    BY <1>1, <1>2, <1>5 DEF AInv, Unmixed, Mixed
<1>7. Answered'
    BY <1>1, <1>2 DEF AInv, Answered
<1> QED
    BY <1>2, <1>3, <1>4, <1>6, <1>7 DEF AInv

\* The demo's OMS returns without the join: frames were mixed.
LEMMA TerminateKeeps ==
    ASSUME IInv, AInv, OmsLost, demo
    PROVE  AInv'
<1>1. ~ Contiguous(wire["fwd"])
    BY OmsNeverLost DEF OmsLost
<1>2. /\ pc' = [t \in Thread |-> IF t = "oms" THEN "terminated" ELSE "ended"]
      /\ open' = [d \in Dir |-> FALSE] /\ demo' = demo /\ UNCHANGED flow
      /\ alive' = alive /\ crashed' = crashed /\ pc["oms"] \in {"sending", "await"}
    BY DEF OmsLost
<1>3. /\ pc'["oms"] = "terminated" /\ pc'["heartbeat"] = "ended" /\ pc'["gateway"] = "ended"
      /\ ~ open'["fwd"] /\ ~ open'["back"]
    BY <1>2, Names
<1>4. /\ Numbered' /\ Orders' = Orders /\ Answers' = Answers
      /\ \A i \in 1 .. Answers' : got'["back"][i] = Sent("back")'[i]
      /\ wire' = wire /\ begins' = begins /\ pos' = pos
    BY <1>2, <1>3, QuietSession
<1>5. Roles' /\ NodeUp' /\ Replying'
    BY <1>2, <1>3 DEF AInv, Roles, NodeUp, Replying
<1>6. Unmixed' /\ Mixed'
    BY <1>1, <1>2, <1>3, <1>4 DEF AInv, Unmixed, Mixed
<1>7. Answered'
    BY <1>2, <1>3, <1>4 DEF AInv, Answered
<1> QED
    BY <1>4, <1>5, <1>6, <1>7 DEF AInv

\* The other steps of the OMS.
LEMMA OmsKeeps ==
    ASSUME IInv, AInv, Oms
    PROVE  AInv'
<1>1. CASE OmsJoins
    <2>1. demo /\ Contiguous(wire["fwd"]) /\ Answers = Orders
        BY <1>1 DEF OmsJoins, AInv, Roles, Mixed, Answered
    <2>2. demo' = demo
        BY <1>1 DEF OmsJoins, End
    <2> QED
        BY <1>1, <2>1, <2>2, OmsEndKeeps DEF OmsJoins, AInv, Roles
<1>2. CASE OmsQuits
    <2>1. ~ demo /\ Contiguous(wire["fwd"]) /\ Answers = Orders /\ pc["heartbeat"] = "ended"
        BY <1>2 DEF OmsQuits, AInv, Roles, Mixed, Answered
    <2>2. demo' = demo
        BY <1>2 DEF OmsQuits, End
    <2> QED
        BY <1>2, <2>1, <2>2, OmsEndKeeps DEF OmsQuits
<1>3. CASE OmsLost /\ ~ demo
    <2>1. Contiguous(wire["fwd"]) /\ pc["heartbeat"] = "ended"
        BY <1>3 DEF AInv, Roles, Mixed
    <2>2. crashed
        BY <1>3, <2>1, OmsNeverLost DEF OmsLost
    <2>3. End("oms") /\ alive' = alive /\ crashed' = crashed /\ demo' = demo
        BY <1>3 DEF OmsLost, End
    <2> QED
        BY <1>3, <2>1, <2>2, <2>3, OmsEndKeeps
<1> QED
    BY <1>1, <1>2, <1>3, OmsSendKeeps, OmsPayloadKeeps, OmsReceivesKeeps, TerminateKeeps DEF Oms

\* The steps of the heartbeat thread.
LEMMA HeartbeatKeeps ==
    ASSUME IInv, AInv, Heartbeat, ~ UNCHANGED vars
    PROVE  AInv'
<1> USE Names
<1>1. ASSUME UNCHANGED <<demo, flow, open, crashed>>, pc' = [pc EXCEPT !["heartbeat"] = "ended"],
             out'["oms"] = out["oms"], out'["gateway"] = out["gateway"],
             pc["heartbeat"] \in {"loop", "sending"}, alive' \in {alive, FALSE},
             Contiguous(wire["fwd"]) =>
                 \/ ~ Early
                 \/ alive' = alive /\ pc["heartbeat"] = "loop"
      PROVE  AInv'
    <2>1. pc'["heartbeat"] = "ended" /\ pc'["oms"] = pc["oms"] /\ pc'["gateway"] = pc["gateway"]
        BY <1>1 DEF IInv, Control
    <2>2. /\ Numbered' /\ Orders' = Orders /\ Answers' = Answers
          /\ \A i \in 1 .. Answers' : got'["back"][i] = Sent("back")'[i]
          /\ wire' = wire /\ begins' = begins /\ pos' = pos
          /\ InOrder("fwd")' <=> InOrder("fwd")
          /\ InOrder("back")' <=> InOrder("back")
        BY <1>1, <2>1, QuietSession
    <2>3. Roles' /\ NodeUp'
        BY <1>1, <2>1 DEF AInv, Roles, NodeUp
    <2>4. Replying'
        BY <1>1, <2>1, <2>2 DEF AInv, Replying
    <2>5. (Early' <=> Early) /\ (pc["oms"] = "sending" => Early)
        BY <2>1 DEF Early
    <2>6. Unmixed' /\ Mixed'
        BY <1>1, <2>1, <2>2, <2>5 DEF AInv, Unmixed, Mixed
    <2>7. Answered'
        BY <1>1, <2>1, <2>2 DEF AInv, Answered
    <2> QED
        BY <2>2, <2>3, <2>4, <2>6, <2>7 DEF AInv
<1>2. CASE HeartbeatStops
    BY <1>1, <1>2 DEF HeartbeatStops, Goto
<1>3. CASE BeatFails
    <2>1. /\ pc["heartbeat"] = "sending" /\ alive' = FALSE /\ UNCHANGED <<demo, flow, open, crashed>>
          /\ pc' = [pc EXCEPT !["heartbeat"] = "ended"]
          /\ out'["oms"] = out["oms"] /\ out'["gateway"] = out["gateway"]
        BY <1>3 DEF BeatFails, Goto, IInv, OutTyped
    <2>2. demo /\ pc["gateway"] = "ended"
        BY <1>3 DEF BeatFails, Closed, AInv, Roles
    <2>3. Contiguous(wire["fwd"]) => ~ Early
        BY <2>2 DEF AInv, Unmixed
    <2> QED
        BY <1>1, <2>1, <2>3
<1> QED
    BY <1>2, <1>3, BeatKeeps, HeartbeatPayloadKeeps DEF Heartbeat, HeartbeatSleeps

\* The steps of the gateway.
LEMMA GatewayKeeps ==
    ASSUME IInv, AInv, Gateway
    PROVE  AInv'
<1> USE Names
<1>1. ASSUME UNCHANGED <<demo, flow, open, alive, crashed>>,
             pc'["oms"] = pc["oms"], pc'["heartbeat"] = pc["heartbeat"],
             out'["oms"] = out["oms"], out'["heartbeat"] = out["heartbeat"],
             \/ pc["gateway"] = "loop" /\ pc'["gateway"] = "recv"
             \/ pc["gateway"] = "sending" /\ pc'["gateway"] = "loop" /\ ~ open["fwd"]
      PROVE  AInv'
    <2>1. /\ Numbered' /\ Orders' = Orders /\ Answers' = Answers
          /\ \A i \in 1 .. Answers' : got'["back"][i] = Sent("back")'[i]
          /\ wire' = wire /\ begins' = begins /\ pos' = pos
          /\ InOrder("fwd")' <=> InOrder("fwd")
          /\ InOrder("back")' <=> InOrder("back")
        BY <1>1, QuietSession
    <2>2. Roles' /\ NodeUp'
        BY <1>1 DEF AInv, Roles, NodeUp
    <2>3. Replying'
        BY <1>1, <2>1 DEF AInv, Replying
    <2>4. Early' <=> Early
        BY <1>1 DEF Early
    <2>5. Unmixed' /\ Mixed'
        BY <1>1, <2>1, <2>4 DEF AInv, Unmixed, Mixed
    <2>6. Answered'
        BY <1>1, <2>1 DEF AInv, Answered
    <2> QED
        BY <2>1, <2>2, <2>3, <2>5, <2>6 DEF AInv
<1>2. CASE GatewayLoop
    <2>1. /\ pc["gateway"] = "loop" /\ pc' = [pc EXCEPT !["gateway"] = "recv"]
          /\ UNCHANGED <<demo, flow, open, alive, crashed>> /\ out' = out
        BY <1>2 DEF GatewayLoop, Goto
    <2>2. pc'["gateway"] = "recv" /\ pc'["oms"] = pc["oms"] /\ pc'["heartbeat"] = pc["heartbeat"]
        BY <2>1 DEF IInv, Control
    <2> QED
        BY <1>1, <2>1, <2>2
<1>3. CASE GatewayStops
    <2>1. demo /\ ~ alive /\ End("gateway") /\ alive' = alive /\ crashed' = crashed /\ demo' = demo
        BY <1>3 DEF GatewayStops, End
    <2>2. ~ crashed /\ (Contiguous(wire["fwd"]) => ~ Early)
        BY <2>1 DEF AInv, Roles, Unmixed
    <2> QED
        BY <2>1, <2>2, GatewayEndKeeps
<1>4. CASE GatewayReplyFails /\ demo
    <2>1. /\ pc["gateway"] = "sending" /\ pc' = [pc EXCEPT !["gateway"] = "loop"]
          /\ UNCHANGED <<demo, flow, open, alive, crashed>> /\ ~ open["fwd"]
          /\ out' = [out EXCEPT !["gateway"] = <<>>]
        BY <1>4 DEF GatewayReplyFails, Goto, Closed
    <2>2. pc'["gateway"] = "loop" /\ pc'["oms"] = pc["oms"] /\ pc'["heartbeat"] = pc["heartbeat"]
        BY <2>1 DEF IInv, Control
    <2>3. out'["oms"] = out["oms"] /\ out'["heartbeat"] = out["heartbeat"]
        BY <2>1 DEF IInv, OutTyped
    <2> QED
        BY <1>1, <2>1, <2>2, <2>3
<1>5. CASE GatewayReplyFails /\ ~ demo
    <2>1. /\ End("gateway") /\ alive' = alive /\ crashed' = crashed /\ demo' = demo
          /\ ~ open["fwd"]
        BY <1>5 DEF GatewayReplyFails, End, Closed
    <2>2. pc["oms"] = "ended"
        BY <1>5, <2>1 DEF AInv, Roles
    <2> QED
        BY <1>5, <2>1, <2>2, GatewayEndKeeps
<1>6. CASE GatewayLost
    <2>1. /\ End("gateway") /\ alive' \in {alive, FALSE} /\ crashed' = crashed /\ demo' = demo
          /\ Nothing("gateway")
        BY <1>6 DEF GatewayLost, End, IInv, Control
    <2>2. Contiguous(wire["fwd"]) => ~ open["fwd"]
        BY <2>1, InOrderReads DEF Nothing, Closed, AInv, Unmixed
    <2>3. Contiguous(wire["fwd"]) => ~ Early
        BY <2>2 DEF AInv, Roles, Early
    <2>4. ~ demo => pc["oms"] = "ended"
        BY <2>2 DEF AInv, Roles, Mixed
    <2>5. demo => ~ crashed
        BY DEF AInv, Roles
    <2> QED
        BY <2>1, <2>3, <2>4, <2>5, GatewayEndKeeps
<1> QED
    BY <1>2, <1>3, <1>4, <1>5, <1>6, GatewayReceivesKeeps, GatewayRepliesKeeps,
       GatewayPayloadKeeps DEF Gateway

\* A node dies.
LEMMA CrashKeeps ==
    ASSUME IInv, AInv, NEW t \in Thread, Crash(t)
    PROVE  AInv'
<1>1. /\ ~ demo /\ t \in {"oms", "gateway"} /\ crashed' = TRUE /\ End(t)
      /\ alive' = alive /\ demo' = demo
    BY Names DEF Crash, End
<1>2. Contiguous(wire["fwd"]) /\ pc["heartbeat"] = "ended"
    BY <1>1 DEF AInv, Roles, Mixed
<1> QED
    BY <1>1, <1>2, OmsEndKeeps, GatewayEndKeeps

\* Nothing is sent at the start.
LEMMA InitAInv == Init => AInv
<1> SUFFICES ASSUME Init PROVE AInv
    OBVIOUS
<1> USE Names
<1>1. /\ pc["oms"] = "send" /\ pc["heartbeat"] \in {"loop", "ended"} /\ pc["gateway"] = "loop"
      /\ ~ demo => pc["heartbeat"] = "ended"
      /\ open["fwd"] /\ open["back"] /\ alive /\ ~ crashed
    BY DEF Init
<1>2. \A d \in Dir : wire[d] = <<>> /\ begins[d] = <<>> /\ got[d] = <<>> /\ pos[d] = 0
    BY DEF Init
<1>3. Orders = 0
    <2>1. {i \in 1 .. Len(begins["fwd"]) : Sent("fwd")[i].type = "Order"} = {}
        BY <1>2
    <2> QED
        BY <2>1, FS_EmptySet DEF Orders, Count
<1>4. Replies = 0 /\ Answers = 0 /\ Len(begins["fwd"]) = 0
    BY <1>2 DEF Replies, Answers
<1>5. \A d \in Dir : InOrder(d) /\ Whole(wire[d], begins[d])
    BY <1>2 DEF InOrder, Orderly, Contiguous, InPlace, AtBoundary, Whole
<1>6. Contiguous(wire["fwd"])
    BY <1>5 DEF InOrder, Orderly
<1>7. Roles /\ NodeUp
    BY <1>1, Names DEF Roles, NodeUp, Init
<1>8. Unmixed /\ Mixed /\ Replying
    BY <1>1, <1>5, <1>6 DEF Unmixed, Mixed, Replying
<1>9. Numbered /\ Answered
    BY <1>1, <1>3, <1>4 DEF Numbered, Answered
<1> QED
    BY <1>7, <1>8, <1>9 DEF AInv

\* Every step keeps the invariant of the answers.
LEMMA NextAInv == IInv /\ AInv /\ [Next]_vars => AInv'
<1> SUFFICES ASSUME IInv, AInv, [Next]_vars PROVE AInv'
    OBVIOUS
<1>1. CASE UNCHANGED vars
    <2>1. /\ UNCHANGED flow /\ pc' = pc /\ out' = out /\ open' = open
          /\ demo' = demo /\ alive' = alive /\ crashed' = crashed
        BY <1>1 DEF vars, ends
    <2>2. /\ Numbered' /\ Orders' = Orders /\ Answers' = Answers
          /\ \A i \in 1 .. Answers' : got'["back"][i] = Sent("back")'[i]
          /\ wire' = wire /\ begins' = begins /\ pos' = pos
          /\ InOrder("fwd")' <=> InOrder("fwd")
          /\ InOrder("back")' <=> InOrder("back")
        BY <2>1, QuietSession
    <2>3. Early' <=> Early
        BY <2>1 DEF Early
    <2>4. Roles' /\ NodeUp' /\ Replying' /\ Unmixed' /\ Mixed'
        BY <2>1, <2>2, <2>3 DEF AInv, Roles, NodeUp, Replying, Unmixed, Mixed
    <2>5. Answered'
        BY <2>1, <2>2 DEF AInv, Answered
    <2> QED
        BY <2>2, <2>4, <2>5 DEF AInv
<1>2. CASE Next /\ ~ UNCHANGED vars
    BY <1>2, OmsKeeps, HeartbeatKeeps, GatewayKeeps, CrashKeeps DEF Next, Finished
<1> QED  BY <1>1, <1>2

\* The invariant of the answers holds in every reachable state.
LEMMA AInvHolds == Spec => []AInv
BY InitAInv, NextAInv, IInvHolds, PTL DEF Spec

\* When a session without crashes is over, every order was answered by its
\* own reply exactly if the two threads of the demo mixed no frames, and the
\* demo has ended in std::terminate exactly if they did, for payloads of any
\* size, any number of orders and heartbeats, and however send() splits what
\* it is given.
THEOREM AnsweredExactly == Spec => []AnsweredUnlessMixed
<1>1. IInv /\ AInv => AnsweredUnlessMixed
    <2> SUFFICES ASSUME IInv, AInv, AllEnded, ~ crashed
                 PROVE  /\ Contiguous(wire["fwd"]) <=>
                              got["back"] = [n \in 1 .. Orders |-> Frame("Reply", n)]
                        /\ pc["oms"] = "terminated" <=> ~ Contiguous(wire["fwd"])
        BY DEF AnsweredUnlessMixed, Orders
    <2>1. pc["oms"] \in {"ended", "terminated"}
        BY Names DEF AllEnded
    <2>2. pc["oms"] = "terminated" <=> ~ Contiguous(wire["fwd"])
        BY <2>1 DEF AInv, Unmixed, Mixed
    <2>3. Orders \in Nat /\ Replies \in Nat /\ Answers \in Nat /\ Answers <= Replies
        BY Bounds
    <2>4. got["back"] \in Seq(FrameSet)
        BY Names DEF IInv, FlowTyped
    <2>5. CASE pc["oms"] = "ended"
        <3>1. Answers = Orders
            BY <2>5 DEF AInv, Answered
        <3>2. \A i \in 1 .. Answers : got["back"][i] = Frame("Reply", i)
            <4>1. \A i \in 1 .. Answers : i \in 1 .. Replies
                BY <2>3
            <4> QED
                BY <4>1 DEF AInv, Answered, Numbered
        <3>3. got["back"] = [n \in 1 .. Answers |-> got["back"][n]]
            BY <2>4 DEF Answers
        <3>4. got["back"] = [n \in 1 .. Orders |-> Frame("Reply", n)]
            BY <3>1, <3>2, <3>3
        <3> QED
            BY <2>2, <2>5, <3>4
    <2>6. CASE pc["oms"] = "terminated"
        <3>1. Answers + 1 = Orders
            BY <2>6 DEF AInv, Answered
        <3>2. Len([n \in 1 .. Orders |-> Frame("Reply", n)]) = Orders
            BY <2>3
        <3>3. got["back"] # [n \in 1 .. Orders |-> Frame("Reply", n)]
            BY <2>3, <3>1, <3>2 DEF Answers
        <3> QED
            BY <2>2, <2>6, <3>3
    <2> QED  BY <2>1, <2>5, <2>6
<1> QED
    BY <1>1, IInvHolds, AInvHolds, PTL
=============================================================================
