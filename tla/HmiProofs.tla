------------------------------ MODULE HmiProofs ------------------------------
(***************************************************************************)
(* hmi_thread executes the commands the panel sends and keeps AD9954 and   *)
(* panel in agreement, for any set of commands, any sizes and any grouping *)
(* of the bytes by the receive interrupt.                                  *)
(***************************************************************************)
EXTENDS Hmi, SequenceTheorems, TLAPS

(* Tuning.                                                                 *)

\* The agreement holds in every place of the thread.
TuneInv ==
    /\ fsk = Tuning(fsk.f0, fsk.fp) /\ shown = Tuning(shown.f0, shown.fp)
    /\ ram = fsk /\ F0Range(fsk.f0) /\ FpRange(fsk.fp)
    /\ shown.f0 \in {0, fsk.f0} /\ shown.fp \in {0, fsk.fp}

\* hmi_cmd_analysis writes a frequency it stores to the AD9954's RAM and to the panel.
LEMMA AnalysisTunes ==
    ASSUME TuneInv, NEW cmd, hmi_cmd_analysis(cmd)
    PROVE  TuneInv'
<1> DEFINE f0 == IF cmd[1] = NameF0 /\ Len(cmd) = 2 THEN cmd[2] ELSE 0
           fp == IF cmd[1] = NameFp /\ Len(cmd) = 2 THEN cmd[2] ELSE 0
<1>1. \A v, w, x : /\ [Tuning(v, w) EXCEPT !.f0 = x] = Tuning(x, w)
                   /\ [Tuning(v, w) EXCEPT !.fp = x] = Tuning(v, x)
                   /\ Tuning(v, w).f0 = v /\ Tuning(v, w).fp = w
  BY DEF Tuning
<1>2. CASE F0Range(f0)
  <2>1. fsk' = [fsk EXCEPT !.f0 = f0] /\ ram' = fsk' /\ shown' = [shown EXCEPT !.f0 = f0]
    BY <1>2 DEF hmi_cmd_analysis
  <2> HIDE DEF f0
  <2>2. fsk' = Tuning(f0, fsk.fp) /\ shown' = Tuning(f0, shown.fp)  BY <1>1, <2>1 DEF TuneInv
  <2> QED  BY <1>1, <1>2, <2>1, <2>2 DEF TuneInv
<1>3. CASE ~F0Range(f0) /\ FpRange(fp)
  <2>1. fsk' = [fsk EXCEPT !.fp = fp] /\ ram' = fsk' /\ shown' = [shown EXCEPT !.fp = fp]
    BY <1>3 DEF hmi_cmd_analysis
  <2> HIDE DEF f0, fp
  <2>2. fsk' = Tuning(fsk.f0, fp) /\ shown' = Tuning(shown.f0, fp)  BY <1>1, <2>1 DEF TuneInv
  <2> QED  BY <1>1, <1>3, <2>1, <2>2 DEF TuneInv
<1>4. CASE ~F0Range(f0) /\ ~FpRange(fp)
  BY <1>4 DEF hmi_cmd_analysis, TuneInv
<1> QED  BY <1>2, <1>3, <1>4

\* The frequencies stored, those in the AD9954's RAM and those shown agree and are in
\* range, whatever the panel sends and however its bytes arrive.
THEOREM TuningAgrees == Spec => []TunedAsShown
<1>1. Init => TuneInv  BY DEF Init, TuneInv, Tuning, F0Range, FpRange
<1>2. TuneInv /\ [Next]_vars => TuneInv'
  <2> SUFFICES ASSUME TuneInv, [Next]_vars PROVE TuneInv'
    OBVIOUS
  <2>1. CASE UNCHANGED tuneVars  BY <2>1 DEF TuneInv, tuneVars
  <2>2. CASE \E cmd : hmi_cmd_analysis(cmd)  BY <2>2, AnalysisTunes
  <2>3. UNCHANGED tuneVars \/ \E cmd : hmi_cmd_analysis(cmd)
    BY DEF Next, vars, BeginFrame, Receive, HmiThread, TakeFirst, ReadFirst, TakeNext,
       ReadNext, TakeTimeout, tuneVars
  <2> QED  BY <2>1, <2>2, <2>3
<1>3. TuneInv => TunedAsShown  BY DEF TuneInv, TunedAsShown
<1> QED  BY <1>1, <1>2, <1>3, PTL DEF Spec

-----------------------------------------------------------------------------
(* Commands.                                                               *)

\* The bytes the thread has not read yet.
stream == rx \o line

\* Byte m of the frame of command c.
FrameByte(c, m) == IF m = 1 THEN Start ELSE IF m = Len(c) + 2 THEN End ELSE c[m - 1]

\* The bytes given are the frames of the commands after the first n, of which the number
\* of bytes given has been read already.  pos[k] is the place where the frame of command k
\* ends.
Cuts(pos, n, cmds, bytes, read) ==
    /\ pos \in [n..Len(cmds) -> Int]
    /\ pos[n] + read = 0 /\ pos[Len(cmds)] = Len(bytes)
    /\ \A k \in n..Len(cmds) : pos[k] <= Len(bytes)
    /\ \A k \in (n + 1)..Len(cmds) :
          /\ pos[k] = pos[k - 1] + (Len(cmds[k]) + 2)
          /\ \A m \in 1..(Len(cmds[k]) + 2) :
                pos[k - 1] + m >= 1 => bytes[pos[k - 1] + m] = FrameByte(cmds[k], m)

\* The thread is inside the frame after those it has executed, and has read its start byte
\* and i more.
Inside == pc \in {"inner", "next"}
BytesRead == IF Inside THEN i + 1 ELSE 0

StreamTyped ==
    /\ rx \in Seq(Int) /\ line \in Seq(Int)
    /\ sent \in Seq(Commands) /\ executed \in Seq(Seq(Int))
    /\ pc \in {"outer", "first", "inner", "next"}
    /\ i \in 0..CmdLen /\ sem \in Nat
    /\ buf \in [0..(CmdLen - 1) -> Int]

\* What the thread has still to read are the rest of its frame and the frames after it.
StreamInv == \E pos : Cuts(pos, Len(executed), sent, stream, BytesRead)

\* What was executed was sent, and cmd_buff holds the beginning of the command after it.
Collected ==
    /\ Len(executed) <= Len(sent) /\ \A k \in 1..Len(executed) : executed[k] = sent[k]
    /\ ~Inside => i = 0
    /\ Inside => /\ Len(executed) < Len(sent) /\ i <= Len(sent[Len(executed) + 1])
                 /\ \A k \in 1..i : buf[k - 1] = sent[Len(executed) + 1][k]

\* The semaphore counts no more units than there are bytes to read.
SemInv == sem <= Len(rx) - (IF pc \in {"first", "next"} THEN 1 ELSE 0)

HmiInv == StreamTyped /\ (lost \/ (Collected /\ SemInv /\ StreamInv))

-----------------------------------------------------------------------------
(* Frames in a sequence of bytes.                                          *)

\* What the commands are.
LEMMA CommandFacts ==
    ASSUME NEW cmds \in Seq(Commands)
    PROVE  /\ Len(cmds) \in Nat
           /\ \A k \in 1..Len(cmds) :
                 /\ cmds[k] \in Seq(Int) /\ Len(cmds[k]) \in Nat
                 /\ Len(cmds[k]) \in 1..(CmdLen - 1)
                 /\ \A m \in 1..Len(cmds[k]) : cmds[k][m] # End
<1>1. \A k \in 1..Len(cmds) : cmds[k] \in Commands  BY ElementOfSeq
<1>2. \A c \in Commands : Len(c) \in Nat  BY CommandsAssumption, LenProperties
<1> QED  BY <1>1, <1>2, CommandsAssumption, LenProperties

\* Reading a byte moves every cut one place to the front; frames read to their end are no
\* longer among them.
LEMMA CutsRead ==
    ASSUME NEW cmds \in Seq(Commands), NEW bytes \in Seq(Int), bytes # <<>>,
           NEW n \in 0..Len(cmds), NEW pos, NEW read \in Int, Cuts(pos, n, cmds, bytes, read),
           NEW n2 \in n..Len(cmds), NEW read2 \in Int, pos[n2] + read2 = 1
    PROVE  \E p : Cuts(p, n2, cmds, Tail(bytes), read2)
<1> DEFINE p == [k \in n2..Len(cmds) |-> pos[k] - 1]
           tail == Tail(bytes)
<1>1. /\ Len(bytes) \in Nat \ {0} /\ Len(cmds) \in Nat /\ n \in Nat /\ n2 \in Nat
      /\ \A k \in 1..Len(cmds) : Len(cmds[k]) \in Nat
  BY CommandFacts
<1>2. tail \in Seq(Int) /\ Len(tail) = Len(bytes) - 1 /\ \A k \in 1..Len(tail) : tail[k] = bytes[k + 1]
  BY HeadTailProperties
<1>3. \A k \in n2..Len(cmds) : k \in n..Len(cmds) /\ pos[k] \in Int /\ pos[k] <= Len(bytes)
  <2>1. pos \in [n..Len(cmds) -> Int] /\ \A k \in n..Len(cmds) : pos[k] <= Len(bytes)  BY DEF Cuts
  <2>2. \A k \in n2..Len(cmds) : k \in n..Len(cmds)
    <3>1. n \in Int /\ n2 \in Int /\ Len(cmds) \in Int /\ n <= n2  BY <1>1
    <3> QED  BY <3>1
  <2> QED  BY <2>1, <2>2
<1>4. p \in [n2..Len(cmds) -> Int] /\ \A k \in n2..Len(cmds) : p[k] = pos[k] - 1
  BY <1>3
<1>5. n2 \in n2..Len(cmds) /\ Len(cmds) \in n2..Len(cmds)  BY <1>1
<1> HIDE DEF p, tail
<1>6. p[n2] + read2 = 0 /\ p[Len(cmds)] = Len(tail)
  <2>1. pos[Len(cmds)] = Len(bytes)  BY DEF Cuts
  <2>2. pos[n2] \in Int /\ p[n2] = pos[n2] - 1 /\ p[Len(cmds)] = pos[Len(cmds)] - 1
    BY <1>3, <1>4, <1>5
  <2>3. p[n2] + read2 = 0  BY <2>2
  <2> QED  BY <2>1, <2>2, <2>3, <1>2
<1>7. ASSUME NEW k \in n2..Len(cmds) PROVE p[k] <= Len(tail)
  <2>1. /\ pos[k] \in Int /\ pos[k] <= Len(bytes) /\ p[k] = pos[k] - 1
        /\ Len(bytes) \in Int /\ Len(tail) = Len(bytes) - 1
    BY <1>1, <1>2, <1>3, <1>4, SMTT(30)
  <2> QED  BY <2>1
<1>8. ASSUME NEW k \in (n2 + 1)..Len(cmds)
      PROVE  /\ p[k] = p[k - 1] + (Len(cmds[k]) + 2)
             /\ \A m \in 1..(Len(cmds[k]) + 2) :
                   p[k - 1] + m >= 1 => tail[p[k - 1] + m] = FrameByte(cmds[k], m)
  <2>1. /\ k \in (n + 1)..Len(cmds) /\ k \in n2..Len(cmds) /\ k - 1 \in n2..Len(cmds)
        /\ k \in 1..Len(cmds)
    BY <1>1
  <2>2. /\ p[k] = pos[k] - 1 /\ p[k - 1] = pos[k - 1] - 1 /\ pos[k] \in Int
        /\ pos[k - 1] \in Int /\ Len(cmds[k]) \in Nat /\ p[k] <= Len(tail)
    BY <2>1, <1>1, <1>3, <1>4, <1>7
  <2>3. /\ pos[k] = pos[k - 1] + (Len(cmds[k]) + 2)
        /\ \A m \in 1..(Len(cmds[k]) + 2) :
              pos[k - 1] + m >= 1 => bytes[pos[k - 1] + m] = FrameByte(cmds[k], m)
    BY <2>1 DEF Cuts
  <2> DEFINE a == pos[k - 1]
             b == pos[k]
             l == Len(cmds[k])
  <2>a. a \in Int /\ b \in Int /\ l \in Int /\ b = a + (l + 2) /\ p[k] = b - 1 /\ p[k - 1] = a - 1
    BY <2>2, <2>3
  <2> HIDE DEF a, b, l
  <2>4. p[k] = p[k - 1] + (l + 2)  BY <2>a
  <2>5. ASSUME NEW m \in 1..(Len(cmds[k]) + 2), p[k - 1] + m >= 1
        PROVE  tail[p[k - 1] + m] = FrameByte(cmds[k], m)
    <3>1. /\ p[k - 1] + m \in 1..Len(tail) /\ (p[k - 1] + m) + 1 = pos[k - 1] + m
          /\ pos[k - 1] + m >= 1
      <4>1. m \in 1..(l + 2) /\ p[k] <= Len(tail) /\ Len(tail) \in Int
        BY <2>2, <1>1, <1>2 DEF l
      <4>2. a + m \in Int /\ p[k - 1] + m = (a + m) - 1 /\ p[k - 1] + m <= p[k] /\ a + m >= 1
        BY <4>1, <2>a, <2>5
      <4> DEFINE q == p[k - 1] + m
      <4>3. q \in Int /\ q >= 1 /\ q <= Len(tail) /\ q + 1 = a + m
        BY <4>1, <4>2, <2>a, <2>5
      <4> HIDE DEF q
      <4>4. q \in 1..Len(tail)  BY <4>1, <4>3
      <4> QED  BY <4>2, <4>3, <4>4 DEF a, q
    <3> QED  BY <3>1, <2>3, <1>2
  <2> QED  BY <2>4, <2>5 DEF l
<1>9. Cuts(p, n2, cmds, tail, read2)  BY <1>4, <1>6, <1>7, <1>8 DEF Cuts
<1> QED  BY <1>9 DEF tail

\* A frame more follows the frames there are.
LEMMA CutsAdd ==
    ASSUME NEW cmds \in Seq(Commands), NEW bytes \in Seq(Int),
           NEW n \in 0..Len(cmds), NEW pos, NEW read \in Int, Cuts(pos, n, cmds, bytes, read),
           NEW c \in Commands, NEW frame \in Seq(Int), Len(frame) = Len(c) + 2,
           \A m \in 1..(Len(c) + 2) : frame[m] = FrameByte(c, m)
    PROVE  \E p : Cuts(p, n, Append(cmds, c), bytes \o frame, read)
<1> DEFINE top == Len(cmds)
           p == [k \in n..(top + 1) |-> IF k <= top THEN pos[k] ELSE Len(bytes) + (Len(c) + 2)]
           more == Append(cmds, c)
           all == bytes \o frame
<1>1. /\ top \in Nat /\ Len(bytes) \in Nat /\ Len(c) \in Nat /\ n \in Nat /\ n <= top
      /\ Len(frame) \in Nat
  BY CommandFacts, LenProperties, CommandsAssumption
<1>2. /\ Len(more) = top + 1 /\ more[top + 1] = c
      /\ \A k \in 1..top : more[k] = cmds[k]
  BY AppendProperties
<1>3. /\ all \in Seq(Int) /\ Len(all) = Len(bytes) + Len(frame)
      /\ \A k \in 1..(Len(bytes) + Len(frame)) :
            all[k] = IF k <= Len(bytes) THEN bytes[k] ELSE frame[k - Len(bytes)]
  BY ConcatProperties
<1>4. \A k \in n..top : pos[k] \in Int /\ pos[k] <= Len(bytes)  BY DEF Cuts
<1>5. p \in [n..(top + 1) -> Int]  BY <1>1, <1>4
<1>6. \A k \in n..top : p[k] = pos[k]  BY <1>1
<1>7. p[top + 1] = Len(bytes) + (Len(c) + 2)  BY <1>1
<1>8. n \in n..top /\ top \in n..top /\ pos[n] + read = 0 /\ pos[top] = Len(bytes)  BY <1>1 DEF Cuts
<1>9. \A k \in n..(top + 1) : k \in n..top \/ k = top + 1  BY <1>1
<1> HIDE DEF top, p, more, all
<1>10. \A k \in n..Len(more) : p[k] <= Len(all)
  <2>1. ASSUME NEW k \in n..top PROVE p[k] <= Len(all)
    <3>1. p[k] \in Int /\ p[k] <= Len(bytes)  BY <1>4, <1>6
    <3> QED  BY <3>1, <1>1, <1>3, SMTT(30)
  <2>2. p[top + 1] <= Len(all)  BY <1>1, <1>3, <1>7
  <2> QED  BY <2>1, <2>2, <1>2, <1>9
<1>11. ASSUME NEW k \in (n + 1)..top
       PROVE  /\ p[k] = p[k - 1] + (Len(more[k]) + 2)
              /\ \A m \in 1..(Len(more[k]) + 2) :
                    p[k - 1] + m >= 1 => all[p[k - 1] + m] = FrameByte(more[k], m)
  <2>1. k \in n..top /\ k - 1 \in n..top /\ k \in 1..top  BY <1>1
  <2>2. more[k] = cmds[k] /\ Len(cmds[k]) \in Nat  BY <2>1, <1>2, CommandFacts DEF top
  <2>3. /\ pos[k] = pos[k - 1] + (Len(cmds[k]) + 2)
        /\ \A m \in 1..(Len(cmds[k]) + 2) :
              pos[k - 1] + m >= 1 => bytes[pos[k - 1] + m] = FrameByte(cmds[k], m)
    BY DEF Cuts, top
  <2>4. p[k] = pos[k] /\ p[k - 1] = pos[k - 1]  BY <2>1, <1>6
  <2>5. pos[k] \in Int /\ pos[k - 1] \in Int /\ pos[k] <= Len(bytes)  BY <2>1, <1>4
  <2>6. ASSUME NEW m \in 1..(Len(cmds[k]) + 2), pos[k - 1] + m >= 1
        PROVE  all[pos[k - 1] + m] = FrameByte(cmds[k], m)
    <3> DEFINE a == pos[k - 1]
               b == pos[k]
               l == Len(cmds[k])
    <3>1. /\ a \in Int /\ b \in Int /\ l \in Int /\ b = a + (l + 2) /\ m \in 1..(l + 2)
          /\ b <= Len(bytes) /\ a + m >= 1
      BY <2>2, <2>3, <2>5, <2>6
    <3> HIDE DEF a, b, l
    <3>2. a + m \in 1..(Len(bytes) + Len(frame)) /\ a + m <= Len(bytes)  BY <3>1, <1>1
    <3>3. all[a + m] = bytes[a + m]  BY <3>2, <1>3
    <3> QED  BY <3>3, <2>3, <2>6 DEF a
  <2> QED  BY <2>2, <2>3, <2>4, <2>6
<1>12. /\ p[top + 1] = p[top] + (Len(c) + 2)
       /\ \A m \in 1..(Len(c) + 2) : all[p[top] + m] = FrameByte(c, m)
  <2>1. p[top] = Len(bytes)  BY <1>6, <1>8
  <2>2. ASSUME NEW m \in 1..(Len(c) + 2) PROVE all[Len(bytes) + m] = FrameByte(c, m)
    <3>1. /\ Len(bytes) + m \in 1..(Len(bytes) + Len(frame)) /\ ~(Len(bytes) + m <= Len(bytes))
          /\ (Len(bytes) + m) - Len(bytes) = m
      BY <1>1
    <3>2. all[Len(bytes) + m] = frame[m]  BY <3>1, <1>3
    <3> QED  BY <3>2
  <2> QED  BY <2>1, <2>2, <1>7
<1>13. ASSUME NEW k \in (n + 1)..Len(more)
       PROVE  /\ p[k] = p[k - 1] + (Len(more[k]) + 2)
              /\ \A m \in 1..(Len(more[k]) + 2) :
                    p[k - 1] + m >= 1 => all[p[k - 1] + m] = FrameByte(more[k], m)
  <2>1. CASE k \in (n + 1)..top  BY <2>1, <1>11
  <2>2. CASE k = top + 1
    <3>1. k - 1 = top /\ more[k] = c  BY <2>2, <1>1, <1>2
    <3> QED  BY <3>1, <2>2, <1>12
  <2>3. k \in (n + 1)..top \/ k = top + 1  BY <1>1, <1>2
  <2> QED  BY <2>1, <2>2, <2>3
<1>14. p[n] + read = 0 /\ p[Len(more)] = Len(all)  BY <1>1, <1>2, <1>3, <1>6, <1>7, <1>8
<1>15. Cuts(p, n, more, all, read)  BY <1>2, <1>5, <1>10, <1>13, <1>14 DEF Cuts
<1> QED  BY <1>15 DEF more, all

\* At the end of the last frame there is no byte to read.
LEMMA CutsEnd ==
    ASSUME NEW cmds \in Seq(Commands), NEW bytes \in Seq(Int), NEW pos,
           Cuts(pos, Len(cmds), cmds, bytes, 0)
    PROVE  Len(bytes) = 0
<1>1. Len(cmds) \in Nat /\ Len(bytes) \in Nat  BY LenProperties
<1> QED  BY <1>1 DEF Cuts

\* Inside a frame there is a byte to read, the one after those read.
LEMMA CutsNext ==
    ASSUME NEW cmds \in Seq(Commands), NEW bytes \in Seq(Int),
           NEW n \in 0..Len(cmds), NEW pos, NEW read \in Nat, Cuts(pos, n, cmds, bytes, read),
           n < Len(cmds), read <= Len(cmds[n + 1]) + 1
    PROVE  /\ bytes # <<>> /\ bytes[1] = FrameByte(cmds[n + 1], read + 1)
           /\ pos[n] \in Int /\ pos[n] + (read + 1) = 1
           /\ pos[n + 1] \in Int /\ pos[n + 1] + read = Len(cmds[n + 1]) + 2
<1>1. Len(cmds) \in Nat /\ Len(bytes) \in Nat /\ n \in Nat  BY LenProperties
<1>2. pos[n] + read = 0 /\ pos[n] \in Int
  <2>1. n \in n..Len(cmds)  BY <1>1
  <2>2. pos[n] + read = 0 /\ pos \in [n..Len(cmds) -> Int]  BY DEF Cuts
  <2> QED  BY <2>1, <2>2
<1>3. n + 1 \in (n + 1)..Len(cmds) /\ n + 1 \in 1..Len(cmds) /\ n + 1 \in n..Len(cmds)
  BY <1>1
<1> DEFINE l == Len(cmds[n + 1])
           a == pos[n]
           b == pos[n + 1]
<1>4. l \in Nat  BY <1>3, CommandFacts
<1>5. b \in Int /\ b <= Len(bytes)  BY <1>3 DEF Cuts
<1>6. (n + 1) - 1 = n  BY <1>1
<1>7. /\ b = a + (l + 2)
      /\ \A m \in 1..(l + 2) : a + m >= 1 => bytes[a + m] = FrameByte(cmds[n + 1], m)
  BY <1>3, <1>6 DEF Cuts
<1>8. a \in Int /\ a + read = 0 /\ read <= l + 1  BY <1>2
<1> HIDE DEF l, a, b
<1>9. a + (read + 1) = 1 /\ read + 1 \in 1..(l + 2)  BY <1>4, <1>8
<1>10. b + read = l + 2 /\ b >= 1  BY <1>4, <1>5, <1>7, <1>8
<1>11. bytes # <<>>
  <2>1. Len(bytes) >= 1  BY <1>1, <1>5, <1>10
  <2> QED  BY <2>1, EmptySeq
<1>12. bytes[1] = FrameByte(cmds[n + 1], read + 1)  BY <1>7, <1>9, SMTT(30)
<1> QED  BY <1>5, <1>8, <1>9, <1>10, <1>11, <1>12 DEF l, a, b

\* Bytes may be moved from the line to the fifo.
LEMMA StreamAssociative ==
    ASSUME NEW r \in Seq(Int), NEW a \in Seq(Int), NEW b \in Seq(Int)
    PROVE  (r \o a) \o b = r \o (a \o b)
<1>a. PICK ra \in Seq(Int) : ra = r \o a  BY ConcatProperties
<1>b. PICK ab \in Seq(Int) : ab = a \o b  BY ConcatProperties
<1> DEFINE left == ra \o b
           right == r \o ab
<1>1. Len(r) \in Nat /\ Len(a) \in Nat /\ Len(b) \in Nat  BY LenProperties
<1>2. /\ ra \in Seq(Int) /\ Len(ra) = Len(r) + Len(a)
      /\ \A k \in 1..(Len(r) + Len(a)) : ra[k] = IF k <= Len(r) THEN r[k] ELSE a[k - Len(r)]
  BY <1>a, ConcatProperties
<1>3. /\ ab \in Seq(Int) /\ Len(ab) = Len(a) + Len(b)
      /\ \A k \in 1..(Len(a) + Len(b)) : ab[k] = IF k <= Len(a) THEN a[k] ELSE b[k - Len(a)]
  BY <1>b, ConcatProperties
<1>4. /\ left \in Seq(Int) /\ Len(left) = Len(ra) + Len(b)
      /\ \A k \in 1..(Len(ra) + Len(b)) : left[k] = IF k <= Len(ra) THEN ra[k] ELSE b[k - Len(ra)]
  BY ConcatProperties
<1>5. /\ right \in Seq(Int) /\ Len(right) = Len(r) + Len(ab)
      /\ \A k \in 1..(Len(r) + Len(ab)) : right[k] = IF k <= Len(r) THEN r[k] ELSE ab[k - Len(r)]
  BY ConcatProperties
<1> HIDE DEF left, right
<1>6. ASSUME NEW k \in 1..Len(left) PROVE left[k] = right[k]
  <2>1. k \in 1..(Len(ra) + Len(b)) /\ k \in 1..(Len(r) + Len(ab))  BY <1>1, <1>2, <1>3, <1>4
  <2>2. CASE k <= Len(r)
    <3>1. k <= Len(ra) /\ k \in 1..(Len(r) + Len(a))  BY <2>1, <2>2, <1>1, <1>2
    <3> QED  BY <3>1, <2>1, <2>2, <1>2, <1>4, <1>5
  <2>3. CASE ~(k <= Len(r)) /\ k <= Len(ra)
    <3>1. k \in 1..(Len(r) + Len(a)) /\ k - Len(r) \in 1..(Len(a) + Len(b)) /\ k - Len(r) <= Len(a)
      BY <2>1, <2>3, <1>1, <1>2
    <3>2. left[k] = a[k - Len(r)]  BY <3>1, <2>1, <2>3, <1>2, <1>4
    <3>3. right[k] = a[k - Len(r)]  BY <3>1, <2>1, <2>3, <1>3, <1>5
    <3> QED  BY <3>2, <3>3
  <2>4. CASE ~(k <= Len(ra))
    <3>1. /\ ~(k <= Len(r)) /\ k - Len(r) \in 1..(Len(a) + Len(b)) /\ ~(k - Len(r) <= Len(a))
          /\ (k - Len(r)) - Len(a) = k - Len(ra)
      BY <2>1, <2>4, <1>1, <1>2
    <3>2. left[k] = b[k - Len(ra)]  BY <2>1, <2>4, <1>4
    <3>3. right[k] = ab[k - Len(r)]  BY <3>1, <2>1, <1>5
    <3> QED  BY <3>1, <3>2, <3>3, <1>3
  <2> QED  BY <2>2, <2>3, <2>4
<1>7. Len(left) = Len(right)  BY <1>1, <1>2, <1>3, <1>4, <1>5
<1>8. left = right  BY <1>4, <1>5, <1>6, <1>7, SeqEqual
<1> QED  BY <1>8, <1>a, <1>b DEF left, right

\* The first byte of a fifo that is not empty is the first byte of the stream.
LEMMA StreamHead ==
    ASSUME NEW r \in Seq(Int), NEW l \in Seq(Int), r # <<>>
    PROVE  /\ r \o l \in Seq(Int) /\ r \o l # <<>> /\ (r \o l)[1] = Head(r)
           /\ Tail(r) \in Seq(Int) /\ Len(Tail(r)) = Len(r) - 1 /\ Tail(r \o l) = Tail(r) \o l
<1> DEFINE all == r \o l
           t == Tail(r)
           rest == t \o l
<1>1. Len(r) \in Nat \ {0} /\ Len(l) \in Nat  BY EmptySeq, LenProperties
<1>2. /\ all \in Seq(Int) /\ Len(all) = Len(r) + Len(l)
      /\ \A k \in 1..(Len(r) + Len(l)) : all[k] = IF k <= Len(r) THEN r[k] ELSE l[k - Len(r)]
  BY ConcatProperties
<1>3. t \in Seq(Int) /\ Len(t) = Len(r) - 1 /\ \A k \in 1..Len(t) : t[k] = r[k + 1]
  BY HeadTailProperties
<1>4. /\ rest \in Seq(Int) /\ Len(rest) = Len(t) + Len(l)
      /\ \A k \in 1..(Len(t) + Len(l)) : rest[k] = IF k <= Len(t) THEN t[k] ELSE l[k - Len(t)]
  BY <1>3, ConcatProperties
<1>5. Head(r) = r[1]  OBVIOUS
<1> HIDE DEF all, t, rest
<1>6. all # <<>> /\ all[1] = Head(r)
  <2>1. Len(all) # 0 /\ 1 \in 1..(Len(r) + Len(l)) /\ 1 <= Len(r)  BY <1>1, <1>2
  <2> QED  BY <2>1, <1>2, <1>5, EmptySeq
<1>7. /\ Tail(all) \in Seq(Int) /\ Len(Tail(all)) = Len(all) - 1
      /\ \A k \in 1..Len(Tail(all)) : Tail(all)[k] = all[k + 1]
  BY <1>2, <1>6, HeadTailProperties
<1>8. ASSUME NEW k \in 1..Len(Tail(all)) PROVE Tail(all)[k] = rest[k]
  <2>1. k + 1 \in 1..(Len(r) + Len(l)) /\ k \in 1..(Len(t) + Len(l))  BY <1>1, <1>2, <1>3, <1>7
  <2>2. Tail(all)[k] = IF k + 1 <= Len(r) THEN r[k + 1] ELSE l[(k + 1) - Len(r)]
    BY <2>1, <1>2, <1>7
  <2>3. CASE k <= Len(t)
    <3>1. k \in 1..Len(t) /\ k + 1 <= Len(r)  BY <2>3, <1>1, <1>3
    <3> QED  BY <3>1, <2>1, <2>2, <1>3, <1>4
  <2>4. CASE ~(k <= Len(t))
    <3>1. ~(k + 1 <= Len(r)) /\ (k + 1) - Len(r) = k - Len(t)  BY <2>4, <1>1, <1>3
    <3> QED  BY <3>1, <2>1, <2>2, <2>4, <1>4
  <2> QED  BY <2>3, <2>4
<1>9. Tail(all) = rest
  <2>1. Len(Tail(all)) = Len(rest)  BY <1>1, <1>2, <1>3, <1>4, <1>7
  <2> QED  BY <2>1, <1>4, <1>7, <1>8, SeqEqual
<1> QED  BY <1>2, <1>3, <1>6, <1>9 DEF all, t, rest

\* What the panel puts on the line for a command.
LEMMA FrameFacts ==
    ASSUME NEW c \in Commands
    PROVE  LET frame == <<Start>> \o c \o <<End>> IN
           /\ frame \in Seq(Int) /\ Len(frame) = Len(c) + 2
           /\ \A m \in 1..(Len(c) + 2) : frame[m] = FrameByte(c, m)
<1> DEFINE head == <<Start>> \o c
           frame == head \o <<End>>
<1>1. c \in Seq(Int) /\ Len(c) \in Nat  BY CommandsAssumption, LenProperties
<1>2. <<Start>> \in Seq(Int) /\ <<End>> \in Seq(Int)  BY DEF Start, End
<1>3. Len(<<Start>>) = 1 /\ <<Start>>[1] = Start /\ Len(<<End>>) = 1 /\ <<End>>[1] = End
  OBVIOUS
<1>4. /\ head \in Seq(Int) /\ Len(head) = 1 + Len(c)
      /\ \A k \in 1..(1 + Len(c)) : head[k] = IF k <= 1 THEN <<Start>>[k] ELSE c[k - 1]
  BY <1>1, <1>2, <1>3, ConcatProperties
<1>5. /\ frame \in Seq(Int) /\ Len(frame) = Len(head) + 1
      /\ \A k \in 1..(Len(head) + 1) :
            frame[k] = IF k <= Len(head) THEN head[k] ELSE <<End>>[k - Len(head)]
  BY <1>2, <1>3, <1>4, ConcatProperties
<1> HIDE DEF head, frame
<1>6. ASSUME NEW m \in 1..(Len(c) + 2) PROVE frame[m] = FrameByte(c, m)
  <2>1. m \in 1..(Len(head) + 1)  BY <1>1, <1>4
  <2>2. CASE m = 1
    <3>1. m <= Len(head) /\ m \in 1..(1 + Len(c)) /\ m <= 1  BY <2>2, <1>1, <1>4
    <3> QED  BY <3>1, <2>1, <2>2, <1>3, <1>4, <1>5 DEF FrameByte
  <2>3. CASE m = Len(c) + 2
    <3>1. ~(m <= Len(head)) /\ m - Len(head) = 1 /\ m # 1  BY <2>3, <1>1, <1>4
    <3> QED  BY <3>1, <2>1, <2>3, <1>3, <1>5 DEF FrameByte
  <2>4. CASE m # 1 /\ m # Len(c) + 2
    <3>1. m <= Len(head) /\ m \in 1..(1 + Len(c)) /\ ~(m <= 1)  BY <2>4, <1>1, <1>4
    <3> QED  BY <3>1, <2>1, <2>4, <1>4, <1>5 DEF FrameByte
  <2> QED  BY <2>2, <2>3, <2>4
<1>7. Len(frame) = Len(c) + 2  BY <1>1, <1>4, <1>5
<1> QED  BY <1>5, <1>6, <1>7 DEF head, frame

-----------------------------------------------------------------------------
(* The steps.                                                              *)

\* The command in cmd_buff is a sequence of bytes.
LEMMA BufferedCommand ==
    ASSUME NEW b \in [0..(CmdLen - 1) -> Int], NEW n \in 0..CmdLen
    PROVE  LET cmd == [k \in 1..n |-> b[k - 1]] IN
           cmd \in Seq(Int) /\ Len(cmd) = n /\ \A k \in 1..n : cmd[k] = b[k - 1]
<1>1. \A k \in 1..n : k - 1 \in 0..(CmdLen - 1)  BY SizesAssumption
<1>2. [k \in 1..n |-> b[k - 1]] \in [1..n -> Int]  BY <1>1
<1>3. n \in Nat  BY SizesAssumption
<1> QED  BY <1>2, <1>3

\* The bytes stay bytes.
LEMMA StreamTypedStep ==
    ASSUME StreamTyped, [Next]_vars
    PROVE  StreamTyped'
<1> USE DEF StreamTyped
<1>1. CmdLen \in Nat  BY SizesAssumption
<1>2. CASE UNCHANGED vars  BY <1>2 DEF vars
<1>3. ASSUME NEW c \in Commands, BeginFrame(c) PROVE StreamTyped'
  <2>1. line' \in Seq(Int)  BY <1>3, FrameFacts DEF BeginFrame
  <2>2. sent' \in Seq(Commands)  BY <1>3, AppendProperties DEF BeginFrame
  <2> QED  BY <2>1, <2>2, <1>3 DEF BeginFrame, tuneVars
<1>4. ASSUME NEW n \in 1..MaxBurst, Receive(n) PROVE StreamTyped'
  <2> DEFINE all == rx \o SubSeq(line, 1, n)
             over == Len(all) - (BufSize - 1)
  <2>1. n \in Nat /\ n <= Len(line) /\ Len(line) \in Nat /\ BufSize \in Nat
    BY <1>4, SizesAssumption, LenProperties DEF Receive
  <2>2. \A k \in 1..n : line[k] \in Int  BY <2>1, ElementOfSeq
  <2>3. SubSeq(line, 1, n) \in Seq(Int)  BY <2>1, <2>2, SubSeqProperties
  <2>4. all \in Seq(Int) /\ Len(all) \in Nat  BY <2>3, ConcatProperties, LenProperties
  <2>5. /\ rx' = IF over > 0 THEN SubSeq(all, over + 1, Len(all)) ELSE all
        /\ line' = SubSeq(line, n + 1, Len(line)) /\ sem' = sem + 1
        /\ UNCHANGED <<sent, pc, buf, i, executed>>
    BY <1>4 DEF Receive, tuneVars
  <2> HIDE DEF all
  <2>6. line' \in Seq(Int)
    <3>1. \A k \in (n + 1)..Len(line) : line[k] \in Int  BY <2>1, ElementOfSeq
    <3> QED  BY <3>1, <2>1, <2>5, SubSeqProperties
  <2>7. rx' \in Seq(Int)
    <3>1. CASE over > 0
      <4>1. over + 1 \in Int /\ Len(all) \in Int  BY <2>1, <2>4
      <4>2. \A k \in (over + 1)..Len(all) : k \in 1..Len(all)  BY <3>1, <2>1, <2>4
      <4>3. \A k \in (over + 1)..Len(all) : all[k] \in Int  BY <4>2, <2>4, ElementOfSeq
      <4> QED  BY <3>1, <4>1, <4>3, <2>5, SubSeqProperties
    <3>2. CASE ~(over > 0)  BY <3>2, <2>4, <2>5
    <3> QED  BY <3>1, <3>2
  <2> QED  BY <2>5, <2>6, <2>7
<1>5. ASSUME rx # <<>> PROVE Head(rx) \in Int /\ Tail(rx) \in Seq(Int)  BY <1>5, HeadTailProperties
<1>6. CASE TakeFirst  BY <1>6 DEF TakeFirst, panelVars, tuneVars
<1>7. CASE TakeNext  BY <1>7 DEF TakeNext, panelVars, tuneVars
<1>8. CASE TakeTimeout  BY <1>8 DEF TakeTimeout, panelVars, tuneVars
<1>9. ASSUME NEW k \in 0..CmdLen, ReadByte(k)
      PROVE  rx' \in Seq(Int) /\ buf' \in [0..(CmdLen - 1) -> Int]
  <2>1. CASE rx = <<>> \/ k >= CmdLen  BY <2>1, <1>5, <1>9 DEF ReadByte
  <2>2. CASE rx # <<>> /\ ~(k >= CmdLen)  BY <2>2, <1>1, <1>5, <1>9 DEF ReadByte
  <2> QED  BY <2>1, <2>2
<1>10. CASE ReadFirst
  <2>1. ReadByte(0) /\ 0 \in 0..CmdLen  BY <1>1, <1>10 DEF ReadFirst
  <2> QED  BY <2>1, <1>9, <1>10 DEF ReadFirst, panelVars, tuneVars
<1>11. CASE ReadNext
  <2>1. CASE Got(i) # End
    <3>1. ReadByte(i) /\ i' = i + 1 /\ i < CmdLen /\ pc' = "inner" /\ UNCHANGED <<line, sent, sem, executed>>
      BY <2>1, <1>11 DEF ReadNext, panelVars, tuneVars
    <3> QED  BY <3>1, <1>1, <1>9
  <2>2. CASE Got(i) = End
    <3>1. /\ rx' = IF rx = <<>> THEN rx ELSE Tail(rx)
          /\ buf' = EmptyBuf /\ i' = 0 /\ pc' = "outer" /\ UNCHANGED <<line, sent, sem>>
          /\ UNCHANGED executed \/ executed' = Append(executed, [k \in 1..i |-> buf[k - 1]])
      BY <2>2, <1>11 DEF ReadNext, panelVars, tuneVars
    <3>2. rx' \in Seq(Int)  BY <3>1, <1>5
    <3>3. buf' \in [0..(CmdLen - 1) -> Int] /\ i' \in 0..CmdLen  BY <3>1, <1>1 DEF EmptyBuf, Nul
    <3>4. executed' \in Seq(Seq(Int))
      <4>1. [k \in 1..i |-> buf[k - 1]] \in Seq(Int)  BY BufferedCommand
      <4> DEFINE cmd == [k \in 1..i |-> buf[k - 1]]
      <4>2. UNCHANGED executed \/ executed' = Append(executed, cmd)  BY <3>1
      <4> HIDE DEF cmd
      <4>3. Append(executed, cmd) \in Seq(Seq(Int))  BY <4>1, AppendProperties DEF cmd
      <4> QED  BY <4>2, <4>3
    <3> QED  BY <3>1, <3>2, <3>3, <3>4
  <2> QED  BY <2>1, <2>2
<1> QED  BY <1>2, <1>3, <1>4, <1>6, <1>7, <1>8, <1>10, <1>11 DEF Next, HmiThread

\* The command the thread collects, and where its frame is in the stream.
LEMMA InsideFacts ==
    ASSUME StreamTyped, Collected, Inside
    PROVE  /\ Len(executed) \in Nat /\ Len(sent) \in Nat /\ Len(executed) < Len(sent)
           /\ Len(executed) + 1 \in 1..Len(sent) /\ i \in Nat
           /\ sent[Len(executed) + 1] \in Seq(Int)
           /\ Len(sent[Len(executed) + 1]) \in Nat /\ i <= Len(sent[Len(executed) + 1])
           /\ Len(sent[Len(executed) + 1]) \in 1..(CmdLen - 1)
<1>1. Len(executed) \in Nat /\ Len(sent) \in Nat /\ i \in Nat
  BY LenProperties, SizesAssumption DEF StreamTyped
<1>2. Len(executed) < Len(sent) /\ i <= Len(sent[Len(executed) + 1])  BY DEF Collected
<1>3. Len(executed) + 1 \in 1..Len(sent)  BY <1>1, <1>2
<1> QED  BY <1>1, <1>2, <1>3, CommandFacts DEF StreamTyped

\* The panel begins a frame.
LEMMA BeginStep ==
    ASSUME StreamTyped, Collected, SemInv, StreamInv, NEW c \in Commands, BeginFrame(c)
    PROVE  Collected' /\ SemInv' /\ StreamInv'
<1>1. /\ line = <<>> /\ line' = <<Start>> \o c \o <<End>> /\ sent' = Append(sent, c)
      /\ UNCHANGED <<rx, sem, pc, buf, i, executed>>
  BY DEF BeginFrame, tuneVars
<1>2. Len(executed) \in Nat /\ Len(sent) \in Nat /\ i \in Nat
  BY LenProperties, SizesAssumption DEF StreamTyped
<1>3. Len(sent') = Len(sent) + 1 /\ \A k \in 1..Len(sent) : sent'[k] = sent[k]
  BY <1>1, AppendProperties DEF StreamTyped
<1>4. Collected'
  <2>1. \A k \in 1..Len(executed) : k \in 1..Len(sent)  BY <1>2 DEF Collected
  <2>2. Len(executed') <= Len(sent') /\ \A k \in 1..Len(executed') : executed'[k] = sent'[k]
    BY <2>1, <1>1, <1>2, <1>3 DEF Collected
  <2>3. ASSUME Inside
        PROVE  sent'[Len(executed) + 1] = sent[Len(executed) + 1] /\ Len(executed) < Len(sent')
    <3>1. Len(executed) + 1 \in 1..Len(sent) /\ Len(executed) < Len(sent)  BY <2>3, InsideFacts
    <3> QED  BY <3>1, <1>2, <1>3
  <2>4. Inside' = Inside  BY <1>1 DEF Inside
  <2> QED  BY <2>2, <2>3, <2>4, <1>1 DEF Collected
<1>5. SemInv'  BY <1>1 DEF SemInv
<1>6. StreamInv'
  <2>1. stream = rx  BY <1>1, ConcatEmptySeq DEF stream, StreamTyped
  <2>2. PICK pos : Cuts(pos, Len(executed), sent, rx, BytesRead)  BY <2>1 DEF StreamInv
  <2>3. Len(executed) \in 0..Len(sent) /\ BytesRead \in Int  BY <1>2 DEF Collected, BytesRead
  <2> DEFINE frame == <<Start>> \o c \o <<End>>
  <2>4. /\ frame \in Seq(Int) /\ Len(frame) = Len(c) + 2
        /\ \A m \in 1..(Len(c) + 2) : frame[m] = FrameByte(c, m)
    BY FrameFacts
  <2>5. rx' \o line' = rx \o frame  BY <1>1
  <2> HIDE DEF frame
  <2>6. \E p : Cuts(p, Len(executed), Append(sent, c), rx \o frame, BytesRead)
    BY <2>2, <2>3, <2>4, CutsAdd DEF StreamTyped
  <2>7. BytesRead' = BytesRead  BY <1>1 DEF BytesRead, Inside
  <2> QED  BY <2>5, <2>6, <2>7, <1>1 DEF StreamInv, stream
<1> QED  BY <1>4, <1>5, <1>6

\* The interrupt moves bytes from the line to the fifo.
LEMMA ReceiveStep ==
    ASSUME StreamTyped, Collected, SemInv, StreamInv, NEW n \in 1..MaxBurst, Receive(n), ~lost'
    PROVE  Collected' /\ SemInv' /\ StreamInv'
<1> DEFINE a == SubSeq(line, 1, n)
           b == SubSeq(line, n + 1, Len(line))
<1>1. /\ rx' = rx \o a /\ line' = b /\ n <= Len(line) /\ sem' = sem + 1
      /\ UNCHANGED <<sent, pc, buf, i, executed>>
  BY DEF Receive, tuneVars
<1>2. n \in Nat /\ n >= 1 /\ Len(line) \in Nat /\ Len(rx) \in Nat
  BY SizesAssumption, LenProperties DEF StreamTyped
<1>3. a \in Seq(Int) /\ Len(a) = n
  <2>1. \A k \in 1..n : line[k] \in Int  BY <1>1, <1>2, ElementOfSeq DEF StreamTyped
  <2>2. a \in Seq(Int) /\ Len(a) = IF 1 <= n THEN n - 1 + 1 ELSE 0
    BY <2>1, <1>2, SubSeqProperties
  <2> HIDE DEF a
  <2> QED  BY <2>2, <1>2
<1>4. b \in Seq(Int)
  <2>1. \A k \in (n + 1)..Len(line) : line[k] \in Int  BY <1>2, ElementOfSeq DEF StreamTyped
  <2> QED  BY <2>1, <1>2, SubSeqProperties
<1>5. a \o b = line
  <2>1. 1 \in 1..(Len(line) + 1) /\ n \in (1 - 1)..Len(line) /\ Len(line) \in n..Len(line)
    BY <1>1, <1>2
  <2>2. line \in Seq(Int)  BY DEF StreamTyped
  <2>3. SubSeq(line, 1, n) \o SubSeq(line, n + 1, Len(line)) = SubSeq(line, 1, Len(line))
    BY ONLY <2>1, <2>2, ConcatAdjacentSubSeq
  <2>4. SubSeq(line, 1, Len(line)) = line  BY ONLY <2>2, SubSeqFull
  <2> QED  BY <2>3, <2>4
<1> HIDE DEF a, b
<1>6. (rx \o a) \o b = rx \o line
  <2>1. rx \in Seq(Int)  BY DEF StreamTyped
  <2>2. (rx \o a) \o b = rx \o (a \o b)  BY <2>1, <1>3, <1>4, StreamAssociative
  <2> QED  BY <2>2, <1>5, Zenon
<1>7. Collected'  BY <1>1 DEF Collected, Inside
<1>8. SemInv'
  <2>1. Len(rx') = Len(rx) + n  BY <1>1, <1>3, ConcatProperties DEF StreamTyped
  <2>2. sem \in Nat  BY DEF StreamTyped
  <2>3. CASE pc \in {"first", "next"}
    <3>1. sem <= Len(rx) - 1  BY <2>3 DEF SemInv
    <3>2. sem' <= Len(rx') - 1  BY <3>1, <2>1, <2>2, <1>1, <1>2
    <3> QED  BY <3>2, <2>3, <1>1 DEF SemInv
  <2>4. CASE pc \notin {"first", "next"}
    <3>1. sem <= Len(rx) - 0  BY <2>4 DEF SemInv
    <3>2. sem' <= Len(rx') - 0  BY <3>1, <2>1, <2>2, <1>1, <1>2
    <3> QED  BY <3>2, <2>4, <1>1 DEF SemInv
  <2> QED  BY <2>3, <2>4
<1>9. StreamInv'
  <2>1. BytesRead' = BytesRead  BY <1>1 DEF BytesRead, Inside
  <2> QED  BY <2>1, <1>1, <1>6 DEF StreamInv, stream
<1> QED  BY <1>7, <1>8, <1>9

\* The thread waits for the semaphore.  A take that times out finds a byte all the same:
\* inside a frame the panel has sent all it had to send.
LEMMA TakeStep ==
    ASSUME StreamTyped, Collected, SemInv, StreamInv, Pauses = FALSE,
           TakeFirst \/ TakeNext \/ TakeTimeout
    PROVE  Collected' /\ SemInv' /\ StreamInv'
<1>1. UNCHANGED <<line, sent, rx, buf, i, executed>>
  BY DEF TakeFirst, TakeNext, TakeTimeout, panelVars, tuneVars
<1>2. /\ Inside' <=> Inside
      /\ pc \notin {"first", "next"} /\ pc' \in {"first", "next"}
  BY DEF TakeFirst, TakeNext, TakeTimeout, Inside
<1>3. Collected'  BY <1>1, <1>2 DEF Collected
<1>4. StreamInv'
  <2>1. BytesRead' = BytesRead  BY <1>1, <1>2 DEF BytesRead
  <2> QED  BY <2>1, <1>1 DEF StreamInv, stream
<1>5. sem \in Nat /\ Len(rx) \in Nat  BY LenProperties DEF StreamTyped
<1>6. SemInv'
  <2>1. CASE TakeFirst \/ TakeNext
    <3>1. sem' = sem - 1 /\ sem <= Len(rx) - 0  BY <2>1, <1>2 DEF TakeFirst, TakeNext, SemInv
    <3>2. sem' <= Len(rx) - 1  BY <3>1, <1>5
    <3> QED  BY <3>2, <1>1, <1>2 DEF SemInv
  <2>2. CASE TakeTimeout
    <3>1. line = <<>> /\ Inside /\ sem = 0 /\ sem' = 0  BY <2>2 DEF TakeTimeout, Inside
    <3>2. stream = rx  BY <3>1, ConcatEmptySeq DEF stream, StreamTyped
    <3>3. PICK pos : Cuts(pos, Len(executed), sent, rx, i + 1)
      BY <3>1, <3>2 DEF StreamInv, BytesRead
    <3>4. /\ Len(executed) \in 0..Len(sent) /\ i + 1 \in Nat /\ Len(executed) < Len(sent)
          /\ i + 1 <= Len(sent[Len(executed) + 1]) + 1
      BY <3>1, InsideFacts
    <3>5. rx # <<>>  BY <3>3, <3>4, CutsNext DEF StreamTyped
    <3>6. Len(rx) \in Nat \ {0}  BY <3>5, EmptySeq DEF StreamTyped
    <3>7. sem' <= Len(rx) - 1  BY <3>1, <3>6
    <3> QED  BY <3>7, <1>1, <1>2 DEF SemInv
  <2> QED  BY <2>1, <2>2
<1> QED  BY <1>3, <1>4, <1>6

\* The thread finds the start byte of a frame.
LEMMA FirstStep ==
    ASSUME StreamTyped, Collected, SemInv, StreamInv, ReadFirst
    PROVE  Collected' /\ SemInv' /\ StreamInv'
<1>1. /\ pc = "first" /\ ReadByte(0) /\ pc' = (IF Got(0) = Start THEN "inner" ELSE "outer")
      /\ UNCHANGED <<line, sent, sem, i, executed>>
  BY DEF ReadFirst, panelVars, tuneVars
<1>2. /\ rx \in Seq(Int) /\ line \in Seq(Int) /\ Len(rx) \in Nat /\ sem \in Nat
      /\ Len(executed) \in Nat /\ Len(sent) \in Nat
  BY LenProperties DEF StreamTyped
<1>3. sem <= Len(rx) - 1 /\ rx # <<>>
  <2>1. sem <= Len(rx) - 1  BY <1>1 DEF SemInv
  <2>2. Len(rx) # 0  BY <2>1, <1>2
  <2> QED  BY <2>1, <2>2, EmptySeq
<1>4. rx' = Tail(rx) /\ Got(0) = Head(rx)  BY <1>1, <1>3 DEF ReadByte, Got
<1>5. ~Inside /\ i = 0 /\ Len(executed) <= Len(sent) /\ Len(executed) \in 0..Len(sent)
  BY <1>1, <1>2 DEF Inside, Collected
<1> DEFINE bytes == rx \o line
<1>6. PICK pos : Cuts(pos, Len(executed), sent, bytes, 0)
  BY <1>5 DEF StreamInv, stream, BytesRead
<1>7. /\ bytes \in Seq(Int) /\ bytes # <<>> /\ bytes[1] = Head(rx)
      /\ Len(Tail(rx)) = Len(rx) - 1 /\ Tail(bytes) = Tail(rx) \o line
  BY <1>2, <1>3, StreamHead
<1> HIDE DEF bytes
<1>8. Len(executed) < Len(sent)
  <2>1. Len(bytes) \in Nat \ {0}  BY <1>7, EmptySeq
  <2>2. ASSUME Len(executed) = Len(sent) PROVE Len(bytes) = 0
    <3>1. Cuts(pos, Len(sent), sent, bytes, 0)  BY <2>2, <1>6
    <3> QED  BY <3>1, <1>7, CutsEnd DEF StreamTyped
  <2> QED  BY <2>1, <2>2, <1>2, <1>5
<1>9. Len(executed) + 1 \in 1..Len(sent) /\ Len(sent[Len(executed) + 1]) \in Nat
  <2>1. Len(executed) + 1 \in 1..Len(sent)  BY <1>2, <1>8
  <2> QED  BY <2>1, CommandFacts DEF StreamTyped
<1>10. 0 <= Len(sent[Len(executed) + 1]) + 1 /\ 0 + 1 = 1  BY <1>9
<1>11. /\ bytes[1] = FrameByte(sent[Len(executed) + 1], 0 + 1)
       /\ pos[Len(executed)] + (0 + 1) = 1
  <2>1. sent \in Seq(Commands) /\ 0 \in Nat  BY DEF StreamTyped
  <2> QED  BY ONLY <2>1, <1>5, <1>6, <1>7, <1>8, <1>10, CutsNext, ZenonT(40)
<1>12. pc' = "inner"  BY <1>1, <1>4, <1>7, <1>10, <1>11 DEF FrameByte
<1>13. Inside' /\ BytesRead' = 1  BY <1>1, <1>5, <1>12 DEF Inside, BytesRead
<1>14. Collected'
  <2>1. i' = 0 /\ \A k \in 1..i' : FALSE  BY <1>1, <1>5
  <2>2. i' <= Len(sent'[Len(executed') + 1])  BY <2>1, <1>1, <1>9
  <2> QED  BY <2>1, <2>2, <1>1, <1>8, <1>13 DEF Collected
<1>15. SemInv'
  <2>1. sem' <= Len(rx') - 0  BY <1>1, <1>2, <1>3, <1>4, <1>7
  <2> QED  BY <2>1, <1>12 DEF SemInv
<1>16. StreamInv'
  <2>1. Len(executed) \in Len(executed)..Len(sent)  BY <1>2, <1>8
  <2>2. \E p : Cuts(p, Len(executed), sent, Tail(bytes), 1)
    BY <2>1, <1>5, <1>6, <1>7, <1>10, <1>11, CutsRead DEF StreamTyped
  <2>3. rx' \o line' = Tail(bytes)  BY <1>1, <1>4, <1>7
  <2> QED  BY <2>2, <2>3, <1>1, <1>13 DEF StreamInv, stream
<1> QED  BY <1>14, <1>15, <1>16

\* The thread reads on in its frame: a byte of the command is stored, the end byte has the
\* command executed.
LEMMA NextStep ==
    ASSUME StreamTyped, Collected, SemInv, StreamInv, ReadNext
    PROVE  Collected' /\ SemInv' /\ StreamInv'
<1> DEFINE e == Len(executed)
           c == sent[e + 1]
<1>1. pc = "next" /\ UNCHANGED <<line, sent, sem>>  BY DEF ReadNext, panelVars
<1>2. /\ rx \in Seq(Int) /\ line \in Seq(Int) /\ Len(rx) \in Nat /\ sem \in Nat
      /\ buf \in [0..(CmdLen - 1) -> Int] /\ i \in 0..CmdLen /\ CmdLen \in Nat
  BY LenProperties, SizesAssumption DEF StreamTyped
<1>3. sem <= Len(rx) - 1 /\ rx # <<>>
  <2>1. sem <= Len(rx) - 1  BY <1>1 DEF SemInv
  <2>2. Len(rx) # 0  BY <2>1, <1>2
  <2> QED  BY <2>1, <2>2, EmptySeq
<1>4. Inside /\ BytesRead = i + 1  BY <1>1 DEF Inside, BytesRead
<1>5. /\ e \in Nat /\ Len(sent) \in Nat /\ e < Len(sent) /\ e + 1 \in 1..Len(sent)
      /\ i \in Nat /\ c \in Seq(Int) /\ Len(c) \in Nat /\ i <= Len(c) /\ Len(c) \in 1..(CmdLen - 1)
  BY <1>4, InsideFacts
<1>6. /\ \A k \in 1..i : buf[k - 1] = c[k]
      /\ \A k \in 1..e : executed[k] = sent[k]
  BY <1>4 DEF Collected
<1>7. \A m \in 1..Len(c) : c[m] # End  BY <1>5, CommandFacts DEF StreamTyped
<1> DEFINE bytes == rx \o line
<1>8. PICK pos : Cuts(pos, e, sent, bytes, i + 1)  BY <1>4 DEF StreamInv, stream
<1>9. /\ bytes \in Seq(Int) /\ bytes # <<>> /\ bytes[1] = Head(rx)
      /\ Len(Tail(rx)) = Len(rx) - 1 /\ Tail(bytes) = Tail(rx) \o line
  BY <1>2, <1>3, StreamHead
<1> HIDE DEF bytes
<1>10. e \in 0..Len(sent) /\ i + 1 \in Nat /\ i + 1 <= Len(c) + 1  BY <1>5
<1>11. /\ bytes[1] = FrameByte(c, (i + 1) + 1)
       /\ pos[e] \in Int /\ pos[e] + ((i + 1) + 1) = 1
       /\ pos[e + 1] \in Int /\ pos[e + 1] + (i + 1) = Len(c) + 2
  <2>1. sent \in Seq(Commands)  BY DEF StreamTyped
  <2>2. PICK r \in Nat : r = i + 1  BY <1>5
  <2>3. Cuts(pos, e, sent, bytes, r) /\ e < Len(sent) /\ r <= Len(sent[e + 1]) + 1
    BY <2>2, <1>5, <1>8, <1>10
  <2>4. /\ bytes[1] = FrameByte(sent[e + 1], r + 1)
        /\ pos[e] \in Int /\ pos[e] + (r + 1) = 1
        /\ pos[e + 1] \in Int /\ pos[e + 1] + r = Len(sent[e + 1]) + 2
    BY <2>1, <2>3, <1>9, <1>10, CutsNext, SMTT(30)
  <2> QED  BY <2>2, <2>4
<1>12. Got(i) = Head(rx)  BY <1>3 DEF Got
<1>13. SemInv' \/ pc' = "next" \/ pc' = "first" \/ rx' # Tail(rx)
  <2> SUFFICES ASSUME rx' = Tail(rx) PROVE SemInv' \/ pc' = "next" \/ pc' = "first"
    OBVIOUS
  <2>1. sem' <= Len(rx') - 0  BY <1>1, <1>2, <1>3, <1>9
  <2> QED  BY <2>1 DEF SemInv
<1> HIDE DEF e, c
<1>14. CASE i < Len(c)
  <2>1. (i + 1) + 1 # 1 /\ (i + 1) + 1 # Len(c) + 2 /\ ((i + 1) + 1) - 1 = i + 1 /\ i + 1 \in 1..Len(c)
    BY <1>5, <1>14
  <2>2. Head(rx) = c[i + 1] /\ Got(i) # End  BY <2>1, <1>7, <1>9, <1>11, <1>12 DEF FrameByte
  <2>3. ReadByte(i) /\ i' = i + 1 /\ pc' = "inner" /\ executed' = executed
    BY <2>2 DEF ReadNext, tuneVars
  <2>4. i < CmdLen /\ i \in 0..(CmdLen - 1)  BY <1>2, <1>5, <1>14, SMTT(30)
  <2>5. rx' = Tail(rx) /\ buf' = [buf EXCEPT ![i] = c[i + 1]]
    <3>1. ~(i >= CmdLen)  BY <2>4, <1>2
    <3> QED  BY <3>1, <2>2, <2>3, <1>3 DEF ReadByte
  <2>6. Inside' /\ BytesRead' = (i + 1) + 1  BY <2>3 DEF Inside, BytesRead
  <2>7. ASSUME NEW k \in 1..(i + 1) PROVE buf'[k - 1] = c[k]
    <3>1. CASE k \in 1..i
      <4>1. k - 1 # i /\ k - 1 \in 0..(CmdLen - 1)  BY <3>1, <2>4, <1>2, <1>5
      <4> QED  BY <4>1, <3>1, <2>5, <1>2, <1>6
    <3>2. CASE k = i + 1
      <4>1. k - 1 = i  BY <3>2, <1>5
      <4> QED  BY <4>1, <3>2, <2>4, <2>5, <1>2
    <3>3. k \in 1..i \/ k = i + 1  BY <1>5
    <3> QED  BY <3>1, <3>2, <3>3
  <2>8. Collected'
    <3>1. i' <= Len(c)  BY <2>3, <1>5, <1>14
    <3> QED  BY <3>1, <2>3, <2>6, <2>7, <1>1, <1>5, <1>6 DEF Collected, e, c
  <2>9. StreamInv'
    <3>1. e \in e..Len(sent) /\ (i + 1) + 1 \in Int /\ i + 1 \in Int  BY <1>5
    <3>2. \E p : Cuts(p, e, sent, Tail(bytes), (i + 1) + 1)
      BY <3>1, <1>8, <1>9, <1>10, <1>11, CutsRead DEF StreamTyped
    <3>3. rx' \o line' = Tail(bytes)  BY <2>5, <1>1, <1>9
    <3> QED  BY <3>2, <3>3, <2>3, <2>6, <1>1 DEF StreamInv, stream, e
  <2> QED  BY <2>3, <2>5, <2>8, <2>9, <1>13
<1>15. CASE i = Len(c)
  <2> DEFINE cmd == [k \in 1..i |-> buf[k - 1]]
  <2>1. (i + 1) + 1 # 1 /\ (i + 1) + 1 = Len(c) + 2 /\ i # 0  BY <1>5, <1>15
  <2>2. Got(i) = End  BY <2>1, <1>9, <1>11, <1>12 DEF FrameByte
  <2>3. rx' = Tail(rx) /\ i' = 0 /\ pc' = "outer" /\ executed' = Append(executed, cmd)
    BY <2>1, <2>2, <1>3 DEF ReadNext
  <2>4. cmd \in Seq(Int) /\ Len(cmd) = i /\ \A k \in 1..i : cmd[k] = buf[k - 1]
    BY <1>2, BufferedCommand
  <2> HIDE DEF cmd
  <2>5. cmd = c
    <3>1. \A k \in 1..Len(cmd) : cmd[k] = c[k]  BY <2>4, <1>6
    <3> QED  BY <3>1, <2>4, <1>5, <1>15, SeqEqual
  <2>6. /\ Len(executed') = e + 1 /\ \A k \in 1..e : executed'[k] = executed[k]
        /\ executed'[e + 1] = c
    BY <2>3, <2>4, <2>5, AppendProperties DEF StreamTyped, e
  <2>7. ~Inside' /\ BytesRead' = 0  BY <2>3 DEF Inside, BytesRead
  <2>8. Collected'
    <3>1. ASSUME NEW k \in 1..(e + 1) PROVE executed'[k] = sent[k]
      <4>1. CASE k \in 1..e  BY <4>1, <2>6, <1>6
      <4>2. CASE k = e + 1  BY <4>2, <2>6 DEF c
      <4>3. k \in 1..e \/ k = e + 1  BY <1>5
      <4> QED  BY <4>1, <4>2, <4>3
    <3>2. e + 1 <= Len(sent)  BY <1>5
    <3> QED  BY <3>1, <3>2, <2>3, <2>6, <2>7, <1>1 DEF Collected
  <2>9. StreamInv'
    <3>1. e + 1 \in e..Len(sent) /\ 0 \in Int /\ i + 1 \in Int  BY <1>5
    <3>2. pos[e + 1] + 0 = 1  BY <1>5, <1>11, <1>15
    <3>3. \E p : Cuts(p, e + 1, sent, Tail(bytes), 0)
      BY <3>1, <3>2, <1>8, <1>9, <1>10, CutsRead DEF StreamTyped
    <3>4. rx' \o line' = Tail(bytes)  BY <2>3, <1>1, <1>9
    <3> QED  BY <3>3, <3>4, <2>6, <2>7, <1>1 DEF StreamInv, stream
  <2> QED  BY <2>3, <2>8, <2>9, <1>13
<1> QED  BY <1>5, <1>14, <1>15

\* The invariant holds in the beginning and every step keeps it.
LEMMA HmiInvInit == Init => HmiInv
<1> SUFFICES ASSUME Init PROVE HmiInv
  OBVIOUS
<1>1. StreamTyped
  <2>1. <<>> \in Seq(Int) /\ <<>> \in Seq(Commands) /\ <<>> \in Seq(Seq(Int))  BY EmptySeq
  <2> QED  BY <2>1, SizesAssumption DEF Init, StreamTyped, EmptyBuf, Nul
<1>2. Len(executed) = 0 /\ Len(sent) = 0 /\ Len(rx) = 0 /\ ~Inside /\ i = 0
  BY EmptySeq DEF Init, Inside
<1>3. Collected  BY <1>2 DEF Collected
<1>4. SemInv  BY <1>2 DEF Init, SemInv
<1>5. StreamInv
  <2> DEFINE p == [k \in 0..0 |-> 0]
  <2>1. stream = <<>>  BY ConcatEmptySeq, EmptySeq DEF Init, stream
  <2>2. BytesRead = 0  BY <1>2 DEF BytesRead
  <2>3. Cuts(p, 0, <<>>, <<>>, 0)  BY EmptySeq DEF Cuts
  <2> QED  BY <2>1, <2>2, <2>3, <1>2 DEF StreamInv, Init
<1> QED  BY <1>1, <1>3, <1>4, <1>5 DEF HmiInv

LEMMA HmiInvStep == (Pauses = FALSE) /\ HmiInv /\ [Next]_vars => HmiInv'
<1> SUFFICES ASSUME Pauses = FALSE, HmiInv, [Next]_vars PROVE HmiInv'
  OBVIOUS
<1>1. StreamTyped'  BY StreamTypedStep DEF HmiInv
<1>2. lost => lost'
  BY DEF Next, vars, BeginFrame, Receive, HmiThread, TakeFirst, ReadFirst, TakeNext, ReadNext,
     TakeTimeout, histVars
<1>3. CASE ~lost'
  <2>1. StreamTyped /\ Collected /\ SemInv /\ StreamInv  BY <1>2, <1>3 DEF HmiInv
  <2>2. CASE UNCHANGED vars
    BY <2>1, <2>2 DEF vars, Collected, Inside, SemInv, StreamInv, stream, BytesRead, HmiInv, StreamTyped
  <2>3. ASSUME NEW c \in Commands, BeginFrame(c) PROVE HmiInv'
    BY <1>1, <2>1, <2>3, BeginStep DEF HmiInv
  <2>4. ASSUME NEW n \in 1..MaxBurst, Receive(n) PROVE HmiInv'
    BY <1>1, <1>3, <2>1, <2>4, ReceiveStep DEF HmiInv
  <2>5. CASE TakeFirst \/ TakeNext \/ TakeTimeout  BY <1>1, <2>1, <2>5, TakeStep DEF HmiInv
  <2>6. CASE ReadFirst  BY <1>1, <2>1, <2>6, FirstStep DEF HmiInv
  <2>7. CASE ReadNext  BY <1>1, <2>1, <2>7, NextStep DEF HmiInv
  <2> QED  BY <2>2, <2>3, <2>4, <2>5, <2>6, <2>7 DEF Next, HmiThread
<1> QED  BY <1>1, <1>3 DEF HmiInv

\* As long as the fifo does not overflow, the thread executes the commands the panel sent,
\* whole, in order and once each, and stores no byte past the end of cmd_buff: for every
\* set of commands that fit cmd_buff, every size and however the receive interrupt groups
\* the bytes, if the panel does not pause inside a frame for as long as the take waits.
THEOREM CommandsExecuted ==
    ASSUME Pauses = FALSE
    PROVE  Spec => []ExecutesWhatWasSent
<1>1. HmiInv => ExecutesWhatWasSent
  <2> SUFFICES ASSUME HmiInv, ~lost
               PROVE  /\ Len(executed) <= Len(sent) /\ executed = SubSeq(sent, 1, Len(executed))
                      /\ pc = "next" => i < CmdLen
    BY DEF ExecutesWhatWasSent
  <2>1. StreamTyped /\ Collected  BY DEF HmiInv
  <2> DEFINE e == Len(executed)
             part == SubSeq(sent, 1, e)
  <2>2. /\ e \in Nat /\ Len(sent) \in Nat /\ e <= Len(sent)
        /\ \A k \in 1..e : executed[k] = sent[k]
    BY <2>1, LenProperties DEF StreamTyped, Collected
  <2>3. \A k \in 1..Len(sent) : sent[k] \in Seq(Int)  BY <2>1, CommandFacts DEF StreamTyped
  <2>4. \A k \in 1..e : sent[k] \in Seq(Int)  BY <2>2, <2>3
  <2>5. /\ part \in Seq(Seq(Int)) /\ Len(part) = IF 1 <= e THEN e - 1 + 1 ELSE 0
        /\ \A k \in 1..(e - 1 + 1) : part[k] = sent[1 + k - 1]
    BY <2>2, <2>4, SubSeqProperties
  <2> HIDE DEF part
  <2>6. Len(part) = e  BY <2>2, <2>5
  <2>7. ASSUME NEW k \in 1..e PROVE part[k] = executed[k]
    <3>1. k \in 1..(e - 1 + 1) /\ 1 + k - 1 = k  BY <2>2
    <3> QED  BY <3>1, <2>2, <2>5
  <2>8. executed = part  BY <2>1, <2>5, <2>6, <2>7, SeqEqual DEF StreamTyped
  <2>9. ASSUME pc = "next" PROVE i < CmdLen
    <3>1. i \in Nat /\ i <= Len(sent[e + 1]) /\ Len(sent[e + 1]) \in 1..(CmdLen - 1)
      BY <2>1, <2>9, InsideFacts DEF Inside
    <3> QED  BY <3>1, SizesAssumption
  <2> QED  BY <2>2, <2>8, <2>9 DEF part
<1>2. HmiInv /\ [Next]_vars => HmiInv'  BY HmiInvStep
<1> QED  BY <1>1, <1>2, HmiInvInit, PTL DEF Spec
=============================================================================
