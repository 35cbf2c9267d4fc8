----------------------------- MODULE SerialProofs -----------------------------
(***************************************************************************)
(* Proofs about reception on uart1, for every size of the fifo and any     *)
(* number of bytes and keys.  What tBtn has done to the device decides its *)
(* state: StageInv is the table of it, one row for each place between two  *)
(* steps of a key.  On it rests the rest: who has a fifo, where the bytes  *)
(* are and when the shell is awake.                                        *)
(*                                                                         *)
(* The second half is about moving the console (module Console), for any   *)
(* number of long presses, change_print commands and log records, as long  *)
(* as no thread comes inside another's open or close of the same device    *)
(* (torn).  Completed is what the devices become when the opens and closes *)
(* under way are finished: an open or a close has its whole effect on it   *)
(* when it is entered, and its statements leave it alone (SplitInv says    *)
(* how far each has come).  About Completed, WhereInv says where the       *)
(* threads are, RefInv balances the reference counts against the places in *)
(* the middle of a switch; FifoInv, OpenInv, IntInv and IndInv follow a    *)
(* device through its closes, its opens and the flags that output saves    *)
(* and restores.                                                           *)
(***************************************************************************)
EXTENDS Serial, Console, ListLemmas

-----------------------------------------------------------------------------
(* The steps of a key and the state of the device.                         *)

\* What is left to do of the programs Away, Back and Again.
Away3 == <<"clear_ind", "leave", "close">>
Away2 == <<"leave", "close">>
Away1 == <<"close">>
Shut4 == <<"free", "null", "clr_int", "shut">>
Shut3 == <<"null", "clr_int", "shut">>
Shut2 == <<"clr_int", "shut">>
Shut1 == <<"shut">>
Back8 == <<"alloc", "set_int", "opened", "enter", "set_ind", "open", "close", "open_int">>
Back7 == <<"set_int", "opened", "enter", "set_ind", "open", "close", "open_int">>
Back6 == <<"opened", "enter", "set_ind", "open", "close", "open_int">>
Back5 == <<"enter", "set_ind", "open", "close", "open_int">>
Back4 == <<"set_ind", "open", "close", "open_int">>
Open3 == <<"open", "close", "open_int">>
Opened3 == <<"opened", "close", "open_int">>
Open2 == <<"close", "open_int">>
Open1 == <<"open_int">>
Opened1 == <<"opened">>

StepNames == {"alloc", "set_int", "opened", "open", "open_int", "close", "free", "null", "clr_int", "shut",
              "enter", "leave", "set_ind", "clear_ind"}

Both == {"OPEN", "INT_RX"}

Dev(r, f, i) == dev = [ref |-> r, flags |-> f, ind |-> i]

\* The shell's device is uart1.
InUse ==
    /\ rx /\ live /\ irq
    /\ \/ todo = <<>> /\ Dev(2, Both, TRUE)
       \/ todo = Away /\ Dev(2, Both, TRUE)
       \/ todo = Again /\ Dev(2, Both, TRUE)
       \/ todo = Away3 /\ Dev(1, Both, TRUE)
       \/ todo = Away2 /\ Dev(1, Both, FALSE)
       \/ todo = Back4 /\ Dev(1, Both, FALSE)
       \/ todo = Open3 /\ Dev(1, Both, TRUE)
       \/ todo = Opened3 /\ Dev(1, {}, TRUE)
       \/ todo = Open2 /\ Dev(2, {"OPEN"}, TRUE)
       \/ todo = Open1 /\ Dev(1, {"OPEN"}, TRUE)
       \/ todo = Opened1 /\ Dev(1, {"INT_RX"}, TRUE)

\* The shell's device is "vcom": uart1 is being closed, is closed or is being opened.
Left ==
    \/ todo = Away1 /\ Dev(1, Both, FALSE) /\ rx /\ live /\ irq
    \/ todo = Shut4 /\ Dev(0, Both, FALSE) /\ rx /\ live /\ irq
    \/ todo = Shut3 /\ Dev(0, Both, FALSE) /\ rx /\ ~live /\ irq
    \/ todo = Shut2 /\ Dev(0, {"OPEN"}, FALSE) /\ ~rx /\ ~live /\ irq
    \/ todo = Shut1 /\ Dev(0, {"OPEN"}, FALSE) /\ ~rx /\ ~live /\ ~irq
    \/ todo = <<>> /\ Dev(0, {}, FALSE) /\ ~rx /\ ~live /\ ~irq
    \/ todo = Back /\ Dev(0, {}, FALSE) /\ ~rx /\ ~live /\ ~irq
    \/ todo = Back8 /\ Dev(0, {}, FALSE) /\ ~rx /\ ~live /\ ~irq
    \/ todo = Back7 /\ Dev(0, {"INT_RX"}, FALSE) /\ rx /\ live /\ ~irq
    \/ todo = Back6 /\ Dev(0, {"INT_RX"}, FALSE) /\ rx /\ live /\ irq
    \/ todo = Back5 /\ Dev(1, Both, FALSE) /\ rx /\ live /\ irq

StageInv ==
    /\ irq \in BOOLEAN /\ rx \in BOOLEAN /\ live \in BOOLEAN /\ mine \in BOOLEAN
    /\ (mine /\ InUse) \/ (~mine /\ Left)

\* The first step of what is left, and what is left after it.
LEMMA ProgramSteps ==
    /\ Away # <<>> /\ Head(Away) = "close" /\ <<>> \o Tail(Away) = Away3
    /\ Back # <<>> /\ Head(Back) = "open_int" /\ <<>> \o Tail(Back) = Back5
    /\ Again # <<>> /\ Head(Again) = "close" /\ <<>> \o Tail(Again) = Open3
    /\ Away3 # <<>> /\ Head(Away3) = "clear_ind" /\ <<>> \o Tail(Away3) = Away2
    /\ Away2 # <<>> /\ Head(Away2) = "leave" /\ <<>> \o Tail(Away2) = Away1
    /\ Away1 # <<>> /\ Head(Away1) = "close" /\ <<>> \o Tail(Away1) = <<>>
    /\ Shut4 # <<>> /\ Head(Shut4) = "free" /\ <<>> \o Tail(Shut4) = Shut3
    /\ Shut3 # <<>> /\ Head(Shut3) = "null" /\ <<>> \o Tail(Shut3) = Shut2
    /\ Shut2 # <<>> /\ Head(Shut2) = "clr_int" /\ <<>> \o Tail(Shut2) = Shut1
    /\ Shut1 # <<>> /\ Head(Shut1) = "shut" /\ <<>> \o Tail(Shut1) = <<>>
    /\ Back8 # <<>> /\ Head(Back8) = "alloc" /\ <<>> \o Tail(Back8) = Back7
    /\ Back7 # <<>> /\ Head(Back7) = "set_int" /\ <<>> \o Tail(Back7) = Back6
    /\ Back6 # <<>> /\ Head(Back6) = "opened" /\ <<>> \o Tail(Back6) = Back5
    /\ Back5 # <<>> /\ Head(Back5) = "enter" /\ <<>> \o Tail(Back5) = Back4
    /\ Back4 # <<>> /\ Head(Back4) = "set_ind" /\ <<>> \o Tail(Back4) = Open3
    /\ Open3 # <<>> /\ Head(Open3) = "open" /\ <<>> \o Tail(Open3) = Open2
    /\ Opened3 # <<>> /\ Head(Opened3) = "opened" /\ <<>> \o Tail(Opened3) = Open2
    /\ Open2 # <<>> /\ Head(Open2) = "close" /\ <<>> \o Tail(Open2) = Open1
    /\ Open1 # <<>> /\ Head(Open1) = "open_int" /\ <<>> \o Tail(Open1) = <<>>
    /\ Opened1 # <<>> /\ Head(Opened1) = "opened" /\ <<>> \o Tail(Opened1) = <<>>
<1>1. Away # <<>> /\ Head(Away) = "close" /\ <<>> \o Tail(Away) = Away3
  BY DEF Away, Away3
<1>2. Back # <<>> /\ Head(Back) = "open_int" /\ <<>> \o Tail(Back) = Back5
  BY DEF Back, Back5
<1>3. Again # <<>> /\ Head(Again) = "close" /\ <<>> \o Tail(Again) = Open3
  BY DEF Again, Open3
<1>4. Away3 # <<>> /\ Head(Away3) = "clear_ind" /\ <<>> \o Tail(Away3) = Away2
  BY DEF Away3, Away2
<1>5. Away2 # <<>> /\ Head(Away2) = "leave" /\ <<>> \o Tail(Away2) = Away1
  BY DEF Away2, Away1
<1>6. Away1 # <<>> /\ Head(Away1) = "close" /\ <<>> \o Tail(Away1) = <<>>
  BY DEF Away1
<1>7. Shut4 # <<>> /\ Head(Shut4) = "free" /\ <<>> \o Tail(Shut4) = Shut3
  BY DEF Shut4, Shut3
<1>8. Shut3 # <<>> /\ Head(Shut3) = "null" /\ <<>> \o Tail(Shut3) = Shut2
  BY DEF Shut3, Shut2
<1>9. Shut2 # <<>> /\ Head(Shut2) = "clr_int" /\ <<>> \o Tail(Shut2) = Shut1
  BY DEF Shut2, Shut1
<1>10. Shut1 # <<>> /\ Head(Shut1) = "shut" /\ <<>> \o Tail(Shut1) = <<>>
  BY DEF Shut1
<1>11. Back8 # <<>> /\ Head(Back8) = "alloc" /\ <<>> \o Tail(Back8) = Back7
  BY DEF Back8, Back7
<1>12. Back7 # <<>> /\ Head(Back7) = "set_int" /\ <<>> \o Tail(Back7) = Back6
  BY DEF Back7, Back6
<1>13. Back6 # <<>> /\ Head(Back6) = "opened" /\ <<>> \o Tail(Back6) = Back5
  BY DEF Back6, Back5
<1>14. Back5 # <<>> /\ Head(Back5) = "enter" /\ <<>> \o Tail(Back5) = Back4
  BY DEF Back5, Back4
<1>15. Back4 # <<>> /\ Head(Back4) = "set_ind" /\ <<>> \o Tail(Back4) = Open3
  BY DEF Back4, Open3
<1>16. Open3 # <<>> /\ Head(Open3) = "open" /\ <<>> \o Tail(Open3) = Open2
  BY DEF Open3, Open2
<1>17. Opened3 # <<>> /\ Head(Opened3) = "opened" /\ <<>> \o Tail(Opened3) = Open2
  BY DEF Opened3, Open2
<1>18. Open2 # <<>> /\ Head(Open2) = "close" /\ <<>> \o Tail(Open2) = Open1
  BY DEF Open2, Open1
<1>19. Open1 # <<>> /\ Head(Open1) = "open_int" /\ <<>> \o Tail(Open1) = <<>>
  BY DEF Open1
<1>20. Opened1 # <<>> /\ Head(Opened1) = "opened" /\ <<>> \o Tail(Opened1) = <<>>
  BY DEF Opened1
<1> QED  BY <1>1, <1>2, <1>3, <1>4, <1>5, <1>6, <1>7, <1>8, <1>9, <1>10, <1>11, <1>12, <1>13, <1>14, <1>15, <1>16, <1>17, <1>18, <1>19, <1>20

\* The steps open and close are made of, before those left.
LEMMA ProgramJoins ==
    /\ <<"opened">> \o Tail(Open1) = Opened1 /\ <<"opened">> \o Tail(Open3) = Opened3
    /\ <<"alloc", "set_int", "opened">> \o Tail(Back) = Back8
    /\ <<"free", "null", "clr_int", "shut">> \o Tail(Away1) = Shut4
<1>1. <<"opened">> \o Tail(Open1) = Opened1
  <2>1. Tail(Open1) = <<>>  BY DEF Open1
  <2>2. Opened1 \in Seq(StepNames)  BY DEF Opened1, StepNames
  <2> QED  BY <2>1, <2>2, ConcatEmptySeq DEF Opened1
<1>2. <<"opened">> \o Tail(Open3) = Opened3
  <2>1. Tail(Open3) = Open2  BY DEF Open3, Open2
  <2>2. Opened1 \in Seq(StepNames) /\ Open2 \in Seq(StepNames) /\ Opened3 \in Seq(StepNames)
    BY DEF Opened1, Open2, Opened3, StepNames
  <2>3. Len(Opened1) = 1 /\ Len(Open2) = 2 /\ Len(Opened3) = 3  BY DEF Opened1, Open2, Opened3, StepNames
  <2>4. PICK r : r = Opened1 \o Open2  OBVIOUS
  <2>5. /\ r \in Seq(StepNames) /\ Len(r) = Len(Opened1) + Len(Open2)
        /\ \A k \in 1..(Len(Opened1) + Len(Open2)) :
               r[k] = IF k <= Len(Opened1) THEN Opened1[k] ELSE Open2[k - Len(Opened1)]
    BY <2>2, <2>4, ConcatProperties
  <2>6. Opened3[1] = Opened1[1] /\ Opened3[2] = Open2[1] /\ Opened3[3] = Open2[2]
    BY DEF Opened1, Open2, Opened3, StepNames
  <2>7. Len(r) = 3 /\ \A k \in 1..3 : r[k] = Opened3[k]  BY <2>3, <2>5, <2>6
  <2>8. r = Opened3  BY <2>2, <2>3, <2>5, <2>7, SeqEqual
  <2> QED  BY <2>1, <2>4, <2>8 DEF Opened1
<1>3. <<"alloc", "set_int", "opened">> \o Tail(Back) = Back8
  <2>1. PICK a : a = <<"alloc", "set_int", "opened">>  OBVIOUS
  <2>2. Tail(Back) = Back5  BY DEF Back, Back5
  <2>3. a \in Seq(StepNames) /\ Back5 \in Seq(StepNames) /\ Back8 \in Seq(StepNames)
    BY <2>1 DEF Back5, Back8, StepNames
  <2>4. Len(a) = 3 /\ Len(Back5) = 5 /\ Len(Back8) = 8  BY <2>1 DEF Back5, Back8, StepNames
  <2>5. PICK r : r = a \o Back5  OBVIOUS
  <2>6. /\ r \in Seq(StepNames) /\ Len(r) = Len(a) + Len(Back5)
        /\ \A k \in 1..(Len(a) + Len(Back5)) : r[k] = IF k <= Len(a) THEN a[k] ELSE Back5[k - Len(a)]
    BY <2>3, <2>5, ConcatProperties
  <2>7. \A k \in 1..8 : Back8[k] = IF k <= 3 THEN a[k] ELSE Back5[k - 3]
    <3>1. Back8[1] = a[1] /\ Back8[2] = a[2] /\ Back8[3] = a[3]  BY <2>1 DEF Back8
    <3>2. Back8[4] = Back5[1] /\ Back8[5] = Back5[2] /\ Back8[6] = Back5[3]
      BY DEF Back8, Back5
    <3>3. Back8[7] = Back5[4] /\ Back8[8] = Back5[5]  BY DEF Back8, Back5
    <3>4. \A k \in 1..8 : k \in {1, 2, 3, 4, 5, 6, 7, 8}  OBVIOUS
    <3> QED  BY <3>1, <3>2, <3>3, <3>4
  <2>8. Len(r) = Len(Back8) /\ \A k \in 1..Len(r) : r[k] = Back8[k]  BY <2>4, <2>6, <2>7
  <2>9. r = Back8  BY <2>3, <2>6, <2>8, SeqEqual
  <2> QED  BY <2>1, <2>2, <2>5, <2>9
<1>4. <<"free", "null", "clr_int", "shut">> \o Tail(Away1) = Shut4
  <2>1. Tail(Away1) = <<>>  BY DEF Away1
  <2>2. Shut4 \in Seq(StepNames)  BY DEF Shut4, StepNames
  <2> QED  BY <2>1, <2>2, ConcatEmptySeq DEF Shut4
<1> QED  BY <1>1, <1>2, <1>3, <1>4

\* A step of tBtn goes from one row to the next.
LEMMA StageStep ==
    ASSUME StageInv, Next \/ UNCHANGED vars
    PROVE  StageInv'
<1> DEFINE row == <<rx, live, irq, mine>>
<1>1. ASSUME UNCHANGED <<todo, dev>>, UNCHANGED row PROVE StageInv'
  BY <1>1 DEF StageInv, InUse, Left, Dev
<1>2. ASSUME Arrive \/ Enter \/ Getc \/ Indicate \/ ClearFlag \/ Read \/ Take \/ UNCHANGED vars
      PROVE  StageInv'
  BY <1>1, <1>2 DEF Arrive, Enter, Getc, Indicate, ClearFlag, Read, Take, vars, rxVars, shellVars
<1>3. CASE Open
  <2>1. UNCHANGED row  BY <1>3 DEF Open, shellVars
  <2>2. PICK op \in {"open", "open_int"} :
           /\ todo # <<>> /\ Head(todo) = op
           /\ todo' = (IF op = "open_int" /\ ~rx THEN <<"alloc", "set_int", "opened">>
                                                ELSE <<"opened">>) \o Tail(todo)
           /\ dev' = [dev EXCEPT !.flags = IF op = "open_int" /\ rx THEN {"INT_RX"} ELSE {}]
    BY <1>3 DEF Open, Makes
  <2>3. CASE op = "open"
    <3>1. mine /\ rx /\ live /\ irq /\ todo = Open3 /\ Dev(1, Both, TRUE)
      BY <2>2, <2>3, ProgramSteps, ZenonT(60) DEF StageInv, InUse, Left
    <3>2. todo' = Opened3  BY <2>2, <2>3, <3>1, ProgramJoins
    <3>3. Dev(1, {}, TRUE)'  BY <2>2, <2>3, <3>1 DEF Dev
    <3> QED  BY <2>1, <3>1, <3>2, <3>3 DEF StageInv, InUse
  <2>4. CASE op = "open_int" /\ mine
    <3>1. mine /\ rx /\ live /\ irq /\ todo = Open1 /\ Dev(1, {"OPEN"}, TRUE)
      BY <2>2, <2>4, ProgramSteps, ZenonT(60) DEF StageInv, InUse
    <3>2. todo' = Opened1  BY <2>2, <2>4, <3>1, ProgramJoins
    <3>3. Dev(1, {"INT_RX"}, TRUE)'  BY <2>2, <2>4, <3>1 DEF Dev
    <3> QED  BY <2>1, <3>1, <3>2, <3>3 DEF StageInv, InUse
  <2>5. CASE op = "open_int" /\ ~mine
    <3>1. ~mine /\ ~rx /\ ~live /\ ~irq /\ todo = Back /\ Dev(0, {}, FALSE)
      BY <2>2, <2>5, ProgramSteps, ZenonT(60) DEF StageInv, Left
    <3>2. todo' = Back8  BY <2>2, <2>5, <3>1, ProgramJoins
    <3>3. Dev(0, {}, FALSE)'  BY <2>2, <2>5, <3>1 DEF Dev
    <3> QED  BY <2>1, <3>1, <3>2, <3>3 DEF StageInv, Left
  <2> QED  BY <2>2, <2>3, <2>4, <2>5 DEF StageInv
<1>4. CASE Alloc
  <2>1. /\ UNCHANGED <<irq, mine>> /\ rx' = TRUE /\ live' = TRUE
        /\ dev' = [dev EXCEPT !.flags = dev.flags \cup {"INT_RX"}]
    BY <1>4 DEF Alloc, shellVars
  <2>2. ~mine /\ ~irq /\ Dev(0, {}, FALSE) /\ todo' = Back7
    BY <1>4, ProgramSteps, ZenonT(60) DEF Alloc, Makes, StageInv, InUse, Left
  <2>3. Dev(0, {"INT_RX"}, FALSE)'  BY <2>1, <2>2 DEF Dev
  <2> QED  BY <2>1, <2>2, <2>3 DEF StageInv, Left
<1>5. CASE SetInt
  <2>1. UNCHANGED <<dev, rx, live, mine>> /\ irq' = TRUE  BY <1>5 DEF SetInt, shellVars
  <2>2. ~mine /\ rx /\ live /\ Dev(0, {"INT_RX"}, FALSE) /\ todo' = Back6
    BY <1>5, ProgramSteps, ZenonT(60) DEF SetInt, Makes, StageInv, InUse, Left
  <2>3. Dev(0, {"INT_RX"}, FALSE)'  BY <2>1, <2>2 DEF Dev
  <2> QED  BY <2>1, <2>2, <2>3 DEF StageInv, Left
<1>6. CASE Opened
  <2>1. /\ UNCHANGED row
        /\ dev' = [dev EXCEPT !.flags = dev.flags \cup {"OPEN"}, !.ref = dev.ref + 1]
        /\ todo # <<>> /\ Head(todo) = "opened" /\ todo' = <<>> \o Tail(todo)
    BY <1>6 DEF Opened, Makes, shellVars
  <2>2. {} \cup {"OPEN"} = {"OPEN"} /\ {"INT_RX"} \cup {"OPEN"} = Both  BY DEF Both
  <2>3. todo = Opened3 \/ todo = Opened1 \/ todo = Back6
    BY <2>1, ProgramSteps, ZenonT(60) DEF StageInv, InUse, Left
  <2>4. CASE todo = Opened3
    <3>1. mine /\ rx /\ live /\ irq /\ Dev(1, {}, TRUE) /\ todo' = Open2
      BY <2>1, <2>4, ProgramSteps, ZenonT(60) DEF StageInv, InUse, Left
    <3>2. Dev(2, {"OPEN"}, TRUE)'
      <4>1. dev.ref + 1 = 2 /\ dev.flags \cup {"OPEN"} = {"OPEN"}  BY <2>2, <3>1 DEF Dev
      <4>2. dev' = [dev EXCEPT !.flags = {"OPEN"}, !.ref = 2]  BY <2>1, <4>1
      <4> QED  BY <3>1, <4>2 DEF Dev
    <3> QED  BY <2>1, <3>1, <3>2 DEF StageInv, InUse
  <2>5. CASE todo = Opened1
    <3>1. mine /\ rx /\ live /\ irq /\ Dev(1, {"INT_RX"}, TRUE) /\ todo' = <<>>
      BY <2>1, <2>5, ProgramSteps, ZenonT(60) DEF StageInv, InUse, Left
    <3>2. Dev(2, Both, TRUE)'
      <4>1. dev.ref + 1 = 2 /\ dev.flags \cup {"OPEN"} = Both  BY <2>2, <3>1 DEF Dev
      <4>2. dev' = [dev EXCEPT !.flags = Both, !.ref = 2]  BY <2>1, <4>1
      <4> QED  BY <3>1, <4>2 DEF Dev
    <3> QED  BY <2>1, <3>1, <3>2 DEF StageInv, InUse
  <2>6. CASE todo = Back6
    <3>1. ~mine /\ rx /\ live /\ irq /\ Dev(0, {"INT_RX"}, FALSE) /\ todo' = Back5
      BY <2>1, <2>6, ProgramSteps, ZenonT(60) DEF StageInv, InUse, Left
    <3>2. Dev(1, Both, FALSE)'
      <4>1. dev.ref + 1 = 1 /\ dev.flags \cup {"OPEN"} = Both  BY <2>2, <3>1 DEF Dev
      <4>2. dev' = [dev EXCEPT !.flags = Both, !.ref = 1]  BY <2>1, <4>1
      <4> QED  BY <3>1, <4>2 DEF Dev
    <3> QED  BY <2>1, <3>1, <3>2 DEF StageInv, Left
  <2> QED  BY <2>3, <2>4, <2>5, <2>6
<1>7. CASE Close
  <2>1. UNCHANGED row /\ dev' = [dev EXCEPT !.ref = IF dev.ref = 0 THEN 0 ELSE dev.ref - 1]
    BY <1>7 DEF Close, shellVars
  <2>2. /\ todo # <<>> /\ Head(todo) = "close"
        /\ dev.ref # 1 => todo' = <<>> \o Tail(todo)
        /\ dev.ref = 1 /\ "INT_RX" \in dev.flags =>
              todo' = <<"free", "null", "clr_int", "shut">> \o Tail(todo)
    BY <1>7 DEF Close, Makes
  <2>3. todo = Away \/ todo = Again \/ todo = Open2 \/ todo = Away1
    BY <2>2, ProgramSteps, ZenonT(60) DEF StageInv, InUse, Left
  <2>4. ASSUME NEW f, Dev(2, f, TRUE) PROVE Dev(1, f, TRUE)' /\ todo' = <<>> \o Tail(todo)
    <3>1. dev.ref = 2  BY <2>4 DEF Dev
    <3>2. dev.ref # 1  BY <3>1
    <3>3. dev' = [dev EXCEPT !.ref = 1]  BY <2>1, <3>1
    <3>4. Dev(1, f, TRUE)'  BY <2>4, <3>3 DEF Dev
    <3> QED  BY <2>2, <3>2, <3>4
  <2>5. CASE todo = Away
    <3>1. mine /\ rx /\ live /\ irq /\ Dev(2, Both, TRUE)
      BY <2>5, ProgramSteps, ZenonT(60) DEF StageInv, InUse, Left
    <3>2. Dev(1, Both, TRUE)' /\ todo' = <<>> \o Tail(todo)  BY <3>1, <2>4
    <3>3. todo' = Away3  BY <2>5, <3>2, ProgramSteps
    <3> QED  BY <2>1, <3>1, <3>2, <3>3 DEF StageInv, InUse
  <2>6. CASE todo = Again
    <3>1. mine /\ rx /\ live /\ irq /\ Dev(2, Both, TRUE)
      BY <2>6, ProgramSteps, ZenonT(60) DEF StageInv, InUse, Left
    <3>2. Dev(1, Both, TRUE)' /\ todo' = <<>> \o Tail(todo)  BY <3>1, <2>4
    <3>3. todo' = Open3  BY <2>6, <3>2, ProgramSteps
    <3> QED  BY <2>1, <3>1, <3>2, <3>3 DEF StageInv, InUse
  <2>7. CASE todo = Open2
    <3>1. mine /\ rx /\ live /\ irq /\ Dev(2, {"OPEN"}, TRUE)
      BY <2>7, ProgramSteps, ZenonT(60) DEF StageInv, InUse, Left
    <3>2. Dev(1, {"OPEN"}, TRUE)' /\ todo' = <<>> \o Tail(todo)  BY <3>1, <2>4
    <3>3. todo' = Open1  BY <2>7, <3>2, ProgramSteps
    <3> QED  BY <2>1, <3>1, <3>2, <3>3 DEF StageInv, InUse
  <2>8. CASE todo = Away1
    <3>1. ~mine /\ rx /\ live /\ irq /\ Dev(1, Both, FALSE)
      BY <2>8, ProgramSteps, ZenonT(60) DEF StageInv, InUse, Left
    <3>2. dev.ref = 1 /\ "INT_RX" \in dev.flags  BY <3>1 DEF Dev, Both
    <3>3. dev' = [dev EXCEPT !.ref = 0]  BY <2>1, <3>2
    <3>4. Dev(0, Both, FALSE)'  BY <3>1, <3>3 DEF Dev
    <3>5. todo' = Shut4  BY <2>2, <2>8, <3>2, ProgramJoins
    <3> QED  BY <2>1, <3>1, <3>4, <3>5 DEF StageInv, Left
  <2> QED  BY <2>3, <2>5, <2>6, <2>7, <2>8
<1>8. CASE Free
  <2>1. UNCHANGED <<dev, rx, irq, mine>> /\ live' = FALSE  BY <1>8 DEF Free, shellVars
  <2>2. ~mine /\ rx /\ irq /\ Dev(0, Both, FALSE) /\ todo' = Shut3
    BY <1>8, ProgramSteps, ZenonT(60) DEF Free, Makes, StageInv, InUse, Left
  <2>3. Dev(0, Both, FALSE)'  BY <2>1, <2>2 DEF Dev
  <2> QED  BY <2>1, <2>2, <2>3 DEF StageInv, Left
<1>9. CASE SetNull
  <2>1. /\ UNCHANGED <<live, irq, mine>> /\ rx' = FALSE
        /\ dev' = [dev EXCEPT !.flags = dev.flags \ {"INT_RX"}]
    BY <1>9 DEF SetNull, shellVars
  <2>2. ~mine /\ ~live /\ irq /\ Dev(0, Both, FALSE) /\ todo' = Shut2
    BY <1>9, ProgramSteps, ZenonT(60) DEF SetNull, Makes, StageInv, InUse, Left
  <2>3. Both \ {"INT_RX"} = {"OPEN"}  BY DEF Both
  <2>4. Dev(0, {"OPEN"}, FALSE)'  BY <2>1, <2>2, <2>3 DEF Dev
  <2> QED  BY <2>1, <2>2, <2>4 DEF StageInv, Left
<1>10. CASE ClrInt
  <2>1. UNCHANGED <<dev, rx, live, mine>> /\ irq' = FALSE  BY <1>10 DEF ClrInt, shellVars
  <2>2. ~mine /\ ~rx /\ ~live /\ Dev(0, {"OPEN"}, FALSE) /\ todo' = Shut1
    BY <1>10, ProgramSteps, ZenonT(60) DEF ClrInt, Makes, StageInv, InUse, Left
  <2>3. Dev(0, {"OPEN"}, FALSE)'  BY <2>1, <2>2 DEF Dev
  <2> QED  BY <2>1, <2>2, <2>3 DEF StageInv, Left
<1>11. CASE Shut
  <2>1. UNCHANGED row /\ dev' = [dev EXCEPT !.flags = {}]  BY <1>11 DEF Shut, shellVars
  <2>2. ~mine /\ ~rx /\ ~live /\ ~irq /\ Dev(0, {"OPEN"}, FALSE) /\ todo' = <<>>
    BY <1>11, ProgramSteps, ZenonT(60) DEF Shut, Makes, StageInv, InUse, Left
  <2>3. Dev(0, {}, FALSE)'  BY <2>1, <2>2 DEF Dev
  <2> QED  BY <2>1, <2>2, <2>3 DEF StageInv, Left
<1>12. CASE Indication
  <2>1. UNCHANGED row  BY <1>12 DEF Indication, shellVars
  <2>2. PICK op \in {"set_ind", "clear_ind"} :
           /\ todo # <<>> /\ Head(todo) = op /\ todo' = <<>> \o Tail(todo)
           /\ dev' = [dev EXCEPT !.ind = (op = "set_ind")]
    BY <1>12 DEF Indication, Makes
  <2>3. CASE op = "set_ind"
    <3>1. mine /\ rx /\ live /\ irq /\ Dev(1, Both, FALSE) /\ todo' = Open3
      BY <2>2, <2>3, ProgramSteps, ZenonT(60) DEF StageInv, InUse, Left
    <3>2. Dev(1, Both, TRUE)'  BY <2>2, <2>3, <3>1 DEF Dev
    <3> QED  BY <2>1, <3>1, <3>2 DEF StageInv, InUse
  <2>4. CASE op = "clear_ind"
    <3>1. mine /\ rx /\ live /\ irq /\ Dev(1, Both, TRUE) /\ todo' = Away2
      BY <2>2, <2>4, ProgramSteps, ZenonT(60) DEF StageInv, InUse, Left
    <3>2. Dev(1, Both, FALSE)'  BY <2>2, <2>4, <3>1 DEF Dev
    <3> QED  BY <2>1, <3>1, <3>2 DEF StageInv, InUse
  <2> QED  BY <2>2, <2>3, <2>4
<1>13. CASE ShellDevice
  <2>1. UNCHANGED <<dev, rx, live, irq>>  BY <1>13 DEF ShellDevice, rxVars
  <2>2. PICK op \in {"enter", "leave"} :
           /\ todo # <<>> /\ Head(todo) = op /\ todo' = <<>> \o Tail(todo)
           /\ mine' = (op = "enter")
    BY <1>13 DEF ShellDevice, Makes
  <2>3. CASE op = "enter"
    <3>1. rx /\ live /\ irq /\ Dev(1, Both, FALSE) /\ todo' = Back4
      BY <2>2, <2>3, ProgramSteps, ZenonT(60) DEF StageInv, InUse, Left
    <3>2. Dev(1, Both, FALSE)' /\ mine' = TRUE  BY <2>1, <2>2, <2>3, <3>1 DEF Dev
    <3> QED  BY <2>1, <3>1, <3>2 DEF StageInv, InUse
  <2>4. CASE op = "leave"
    <3>1. rx /\ live /\ irq /\ Dev(1, Both, FALSE) /\ todo' = Away1
      BY <2>2, <2>4, ProgramSteps, ZenonT(60) DEF StageInv, InUse, Left
    <3>2. Dev(1, Both, FALSE)' /\ mine' = FALSE  BY <2>1, <2>2, <2>4, <3>1 DEF Dev
    <3> QED  BY <2>1, <3>1, <3>2 DEF StageInv, Left
  <2> QED  BY <2>2, <2>3, <2>4
<1>14. CASE HoldKey
  <2>1. UNCHANGED row /\ UNCHANGED dev  BY <1>14 DEF HoldKey, shellVars, rxVars
  <2>2. todo = <<>> /\ todo' \in IF mine THEN {Away, Again} ELSE {Back}  BY <1>14 DEF HoldKey
  <2>3. CASE mine
    <3>1. rx /\ live /\ irq /\ Dev(2, Both, TRUE)  BY <2>2, <2>3, ProgramSteps, ZenonT(60) DEF StageInv, InUse
    <3>2. Dev(2, Both, TRUE)'  BY <2>1, <3>1 DEF Dev
    <3> QED  BY <2>1, <2>2, <2>3, <3>1, <3>2 DEF StageInv, InUse
  <2>4. CASE ~mine
    <3>1. ~rx /\ ~live /\ ~irq /\ Dev(0, {}, FALSE)  BY <2>2, <2>4, ProgramSteps, ZenonT(60) DEF StageInv, Left
    <3>2. Dev(0, {}, FALSE)'  BY <2>1, <3>1 DEF Dev
    <3> QED  BY <2>1, <2>2, <2>4, <3>1, <3>2 DEF StageInv, Left
  <2> QED  BY <2>3, <2>4
<1> QED  BY <1>2, <1>3, <1>4, <1>5, <1>6, <1>7, <1>8, <1>9, <1>10, <1>11, <1>12, <1>13, <1>14
         DEF Next, Isr, Shell, Btn

-----------------------------------------------------------------------------
(* Who has a fifo.                                                         *)

\* rt_serial_close is at work on the fifo and has not disabled the interrupt.
Shutting == todo \in {Shut4, Shut3, Shut2}

HandlerInv == isr \in {"off", "getc", "clear"} /\ (isr # "off" => irq)

QuietInv == Shutting => dr = None /\ isr = "off"

LEMMA HandlerStep ==
    ASSUME HandlerInv, Next \/ UNCHANGED vars
    PROVE  HandlerInv'
<1> USE DEF HandlerInv
<1>1. ASSUME UNCHANGED <<isr, irq>> PROVE HandlerInv'  BY <1>1
<1>2. CASE Arrive \/ Read \/ Take \/ HoldKey \/ UNCHANGED vars
  BY <1>1, <1>2 DEF Arrive, Read, Take, HoldKey, vars, rxVars
<1>3. CASE Isr  BY <1>3 DEF Isr, Enter, Getc, Indicate, ClearFlag, Pending, rxVars
<1>4. CASE Btn
  <2>1. isr = "off"
    BY <1>4 DEF Btn, Open, Alloc, SetInt, Opened, Close, Free, SetNull, ClrInt, Shut, Indication,
                ShellDevice, Makes, BtnRuns, ThreadsRun
  <2>2. isr' = isr
    BY <1>4 DEF Btn, Open, Alloc, SetInt, Opened, Close, Free, SetNull, ClrInt, Shut, Indication,
                ShellDevice
  <2> QED  BY <2>1, <2>2
<1> QED  BY <1>2, <1>3, <1>4 DEF Next, Shell

\* While the line is quiet nothing enters the handler under rt_serial_close: no byte is
\* waiting when it begins, as the handler would run first.
LEMMA QuietStep ==
    ASSUME Quiet, StageInv, StageInv', QuietInv, Next \/ UNCHANGED vars
    PROVE  QuietInv'
<1> USE DEF QuietInv
<1>1. ASSUME UNCHANGED <<todo, dr, isr>> PROVE QuietInv'  BY <1>1 DEF Shutting
<1>2. CASE Take \/ UNCHANGED vars  BY <1>1, <1>2 DEF Take, vars, lineVars
<1>3. CASE Arrive
  <2>1. ~Closing /\ todo' = todo  BY <1>3 DEF Arrive
  <2>2. ~Shutting  BY <2>1, ProgramSteps, ZenonT(60) DEF Shutting, Closing
  <2> QED  BY <2>1, <2>2 DEF Shutting
<1>4. CASE Isr
  <2>1. todo' = todo  BY <1>4 DEF Isr, Enter, Getc, Indicate, ClearFlag
  <2>2. isr # "off" \/ dr # None  BY <1>4 DEF Isr, Enter, Getc, Indicate, ClearFlag, Pending
  <2> QED  BY <2>1, <2>2 DEF Shutting
<1>5. CASE Read
  <2>1. todo' = todo /\ isr' = isr /\ (dr' = dr \/ dr' = None)
    BY <1>5 DEF Read, IntRx, PollRx
  <2> QED  BY <2>1 DEF Shutting
<1>6. CASE HoldKey
  <2>1. todo' = Away \/ todo' = Again \/ todo' = Back  BY <1>6 DEF HoldKey
  <2> QED  BY <2>1, ProgramSteps, ZenonT(60) DEF Shutting
<1>7. CASE Btn
  <2> USE DEF Makes, BtnRuns, ThreadsRun
  <2>1. isr = "off" /\ ~Pending
    BY <1>7 DEF Btn, Open, Alloc, SetInt, Opened, Close, Free, SetNull, ClrInt, Shut, Indication,
                ShellDevice
  <2>2. isr' = isr /\ dr' = dr
    BY <1>7 DEF Btn, Open, Alloc, SetInt, Opened, Close, Free, SetNull, ClrInt, Shut, Indication,
                ShellDevice, lineVars
  <2>3. SUFFICES ASSUME Shutting' PROVE irq
    BY <2>1, <2>2 DEF Pending
  <2>4. irq'  BY <2>3, ProgramSteps, ZenonT(60) DEF Shutting, StageInv, InUse, Left
  <2>5. CASE SetInt
    <3>1. todo' = Back6  BY <2>5, ProgramSteps, ZenonT(60) DEF SetInt, StageInv, InUse, Left
    <3> QED  BY <2>3, <3>1, ProgramSteps, ZenonT(60) DEF Shutting
  <2>6. CASE ClrInt  BY <2>4, <2>6 DEF ClrInt
  <2>7. CASE ~SetInt /\ ~ClrInt
    <3>1. irq' = irq
      BY <1>7, <2>7 DEF Btn, Open, Alloc, Opened, Close, Free, SetNull, Shut, Indication,
                        ShellDevice, rxVars
    <3> QED  BY <2>4, <3>1
  <2> QED  BY <2>5, <2>6, <2>7
<1> QED  BY <1>2, <1>3, <1>4, <1>5, <1>6, <1>7 DEF Next, Shell

LEMMA StageInit ==
    ASSUME Init
    PROVE  StageInv /\ HandlerInv /\ QuietInv
<1>1. Dev(2, Both, TRUE)  BY DEF Init, Dev, Both
<1>2. StageInv  BY <1>1 DEF Init, StageInv, InUse
<1>3. HandlerInv /\ QuietInv  BY DEF Init, HandlerInv, QuietInv
<1> QED  BY <1>2, <1>3

LEMMA IsrFifo ==
    ASSUME StageInv, HandlerInv, QuietInv
    PROVE  IsrHasFifo
<1>1. SUFFICES ASSUME isr # "off" PROVE rx /\ live  BY DEF IsrHasFifo
<1>2. irq /\ ~Shutting  BY <1>1 DEF HandlerInv, QuietInv
<1> QED  BY <1>2 DEF StageInv, InUse, Left, Shutting

\* On a line that is quiet while the device is closed, no user of the fifo is without it
\* (rt_hw_serial_isr, _serial_int_rx, rt_serial_close), whatever keys are held down and
\* whatever arrives otherwise.
THEOREM UsersKeepFifo ==
    ASSUME Quiet
    PROVE  Spec => []UsersHaveFifo
<1>1. Init => StageInv /\ HandlerInv /\ QuietInv  BY StageInit
<1>2. StageInv /\ HandlerInv /\ QuietInv /\ [Next]_vars => (StageInv /\ HandlerInv /\ QuietInv)'
  BY StageStep, HandlerStep, QuietStep
<1>3. StageInv /\ HandlerInv /\ QuietInv => UsersHaveFifo
  <2> SUFFICES ASSUME StageInv, HandlerInv, QuietInv PROVE UsersHaveFifo  OBVIOUS
  <2>1. IsrHasFifo  BY IsrFifo
  <2>2. mine => rx /\ live  BY DEF StageInv, InUse
  <2>3. todo # <<>> /\ Head(todo) = "free" => rx  BY ProgramSteps, ZenonT(60) DEF StageInv, InUse, Left
  <2> QED  BY <2>1, <2>2, <2>3 DEF UsersHaveFifo
<1> QED  BY <1>1, <1>2, <1>3, PTL DEF Spec

-----------------------------------------------------------------------------
(* The software fifo.                                                      *)

FifoTyped(f) ==
    /\ f \in [buffer : [0..(BufSz - 1) -> Nat], put : 0..(BufSz - 1), get : 0..(BufSz - 1),
              is_full : BOOLEAN]
    /\ f.is_full => f.put # f.get

\* The slot of the k-th byte: modulo BufSz is one subtraction at most.
LEMMA SlotIs ==
    ASSUME NEW g \in 0..(BufSz - 1), NEW k \in 1..BufSz
    PROVE  (g + k - 1) % BufSz = IF g + k - 1 < BufSz THEN g + k - 1 ELSE (g + k - 1) - BufSz
<1>1. BufSz \in Nat /\ BufSz >= 2  BY SizesAssumption
<1>2. CASE g + k - 1 < BufSz
  <2>1. PICK x \in Nat : x = g + k - 1  BY <1>1
  <2>2. x % BufSz = x  BY <2>1, <1>1, <1>2, ModSmall
  <2> QED  BY <2>1, <2>2, <1>2
<1>3. CASE ~(g + k - 1 < BufSz)
  <2>1. PICK x \in Nat : x = (g + k - 1) - BufSz  BY <1>1, <1>3
  <2>2. x < BufSz /\ g + k - 1 = x + BufSz  BY <2>1, <1>1
  <2>3. (x + BufSz) % BufSz = x  BY <2>1, <2>2, <1>1
  <2> QED  BY <2>1, <2>2, <2>3, <1>3
<1> QED  BY <1>2, <1>3

\* The bytes of the fifo are those from get_index to put_index, rx_length of them.
LEMMA ContentsAre ==
    ASSUME NEW f, FifoTyped(f)
    PROVE  /\ RxLength(f) \in 0..(BufSz - 1) /\ Contents(f) \in Seq(Nat)
           /\ Len(Contents(f)) = RxLength(f)
           /\ \A k \in 1..RxLength(f) :
                 Contents(f)[k] = f.buffer[IF f.get + k - 1 < BufSz THEN f.get + k - 1
                                                                 ELSE (f.get + k - 1) - BufSz]
           /\ Empty(f) <=> RxLength(f) = 0
           /\ f.put = IF f.get + RxLength(f) < BufSz THEN f.get + RxLength(f)
                                                    ELSE (f.get + RxLength(f)) - BufSz
<1>1. BufSz \in Nat /\ BufSz >= 2  BY SizesAssumption
<1>2. f.put \in 0..(BufSz - 1) /\ f.get \in 0..(BufSz - 1) /\ f.buffer \in [0..(BufSz - 1) -> Nat]
  BY DEF FifoTyped
<1>3. PICK n : n = RxLength(f)  OBVIOUS
<1>4. n \in 0..(BufSz - 1) /\ (n = 0 <=> f.put = f.get)  BY <1>1, <1>2, <1>3 DEF RxLength
<1>5. f.put = IF f.get + n < BufSz THEN f.get + n ELSE (f.get + n) - BufSz
  BY <1>1, <1>2, <1>3 DEF RxLength
<1>6. PICK c : c = Contents(f)  OBVIOUS
<1>7. c = [k \in 1..n |-> f.buffer[(f.get + k - 1) % BufSz]]  BY <1>3, <1>6 DEF Contents
<1>8. ASSUME NEW k \in 1..n
      PROVE  /\ c[k] = f.buffer[IF f.get + k - 1 < BufSz THEN f.get + k - 1
                                                        ELSE (f.get + k - 1) - BufSz]
             /\ c[k] \in Nat
  <2>1. k \in 1..BufSz  BY <1>1, <1>4
  <2>2. PICK x : x = IF f.get + k - 1 < BufSz THEN f.get + k - 1 ELSE (f.get + k - 1) - BufSz
    OBVIOUS
  <2>3. (f.get + k - 1) % BufSz = x  BY <1>2, <2>1, <2>2, SlotIs
  <2>4. x \in 0..(BufSz - 1)  BY <1>1, <1>2, <2>1, <2>2, SMTT(30)
  <2> QED  BY <1>2, <1>7, <2>2, <2>3, <2>4
<1>9. c \in Seq(Nat) /\ Len(c) = n
  <2>1. c \in [1..n -> Nat]  BY <1>7, <1>8
  <2>2. n \in Nat  BY <1>1, <1>4
  <2> QED  BY <2>1, <2>2
<1>10. Empty(f) <=> n = 0  BY <1>4 DEF Empty, FifoTyped
<1> QED  BY <1>3, <1>4, <1>5, <1>6, <1>8, <1>9, <1>10

\* A byte that is stored comes last; in a full fifo the first one goes.
LEMMA StoreIs ==
    ASSUME NEW f, FifoTyped(f), NEW b \in Nat, NEW g, g = Store(f, b),
           NEW c, c = Contents(f), NEW e, e = Contents(g)
    PROVE  /\ FifoTyped(g) /\ e \in Seq(Nat) /\ Len(c) \in 0..(BufSz - 1)
           /\ Len(c) < BufSz - 1 =>
                 Len(e) = Len(c) + 1 /\ e[Len(c) + 1] = b /\ \A k \in 1..Len(c) : e[k] = c[k]
           /\ Len(c) = BufSz - 1 =>
                 Len(e) = Len(c) /\ e[Len(c)] = b /\ \A k \in 1..(Len(c) - 1) : e[k] = c[k + 1]
<1>1. BufSz \in Nat /\ BufSz >= 2  BY SizesAssumption
<1> DEFINE at(h, k) == IF h + k - 1 < BufSz THEN h + k - 1 ELSE (h + k - 1) - BufSz
<1>2. PICK n : n = RxLength(f)  OBVIOUS
<1>3. PICK p, h : p = f.put /\ h = f.get  OBVIOUS
<1>4. p \in 0..(BufSz - 1) /\ h \in 0..(BufSz - 1) /\ f.buffer \in [0..(BufSz - 1) -> Nat]
  BY <1>3 DEF FifoTyped
<1>5. /\ n \in 0..(BufSz - 1) /\ Len(c) = n /\ \A k \in 1..n : c[k] = f.buffer[at(h, k)]
      /\ p = IF h + n < BufSz THEN h + n ELSE (h + n) - BufSz
  BY <1>2, <1>3, ContentsAre
<1>6. PICK q, i : q = Up(p) /\ i = IF q = h THEN Up(h) ELSE h  OBVIOUS
<1>7. q \in 0..(BufSz - 1) /\ i \in 0..(BufSz - 1) /\ (q = h <=> n = BufSz - 1) /\ q # i
  <2>1. q = IF p + 1 >= BufSz THEN 0 ELSE p + 1  BY <1>6 DEF Up
  <2>2. q \in 0..(BufSz - 1)  BY <2>1, <1>1, <1>4
  <2>3. CASE q = h
    <3>1. i = IF h + 1 >= BufSz THEN 0 ELSE h + 1  BY <2>3, <1>6 DEF Up
    <3>2. i \in 0..(BufSz - 1) /\ i # h  BY <3>1, <1>1, <1>4
    <3>3. n = BufSz - 1
      <4>1. /\ n \in 0..(BufSz - 1) /\ p = IF h + n < BufSz THEN h + n ELSE (h + n) - BufSz  BY <1>5
      <4> HIDE DEF at
      <4> QED  BY <4>1, <2>1, <2>3, <1>1, <1>4
    <3> QED  BY <2>2, <2>3, <3>2, <3>3
  <2>4. CASE q # h
    <3>1. i = h  BY <2>4, <1>6
    <3>2. n # BufSz - 1
      <4>1. /\ n \in 0..(BufSz - 1) /\ p = IF h + n < BufSz THEN h + n ELSE (h + n) - BufSz  BY <1>5
      <4> HIDE DEF at
      <4> QED  BY <4>1, <2>1, <2>4, <1>1, <1>4
    <3> QED  BY <2>2, <2>4, <3>1, <3>2, <1>4
  <2> QED  BY <2>3, <2>4
<1>8. g.buffer = [f.buffer EXCEPT ![p] = b] /\ g.put = q /\ g.get = i
  BY <1>3, <1>6 DEF Store
<1>9. FifoTyped(g)
  <2>1. [f.buffer EXCEPT ![p] = b] \in [0..(BufSz - 1) -> Nat]  BY <1>4
  <2>2. g = [buffer |-> [f.buffer EXCEPT ![p] = b], put |-> q, get |-> i, is_full |-> f.is_full \/ q = h]
    BY <1>3, <1>6 DEF Store
  <2>3. (f.is_full \/ q = h) \in BOOLEAN  BY DEF FifoTyped
  <2>4. g \in [buffer : [0..(BufSz - 1) -> Nat], put : 0..(BufSz - 1), get : 0..(BufSz - 1),
               is_full : BOOLEAN]
    BY <2>1, <2>2, <2>3, <1>7
  <2> QED  BY <2>4, <1>7, <1>8 DEF FifoTyped
<1>10. PICK m : m = RxLength(g)  OBVIOUS
<1>11. /\ m \in 0..(BufSz - 1) /\ e \in Seq(Nat) /\ Len(e) = m
       /\ \A k \in 1..m : e[k] = g.buffer[at(i, k)]
  <2>1. /\ m \in 0..(BufSz - 1) /\ e \in Seq(Nat) /\ Len(e) = m
        /\ \A k \in 1..m : e[k] = g.buffer[at(g.get, k)]
    BY <1>9, <1>10, ContentsAre
  <2> QED  BY <2>1, <1>8
<1>12. m = IF n = BufSz - 1 THEN n ELSE n + 1
  <2>1. q = IF p + 1 >= BufSz THEN 0 ELSE p + 1  BY <1>6 DEF Up
  <2>2. m = IF q >= i THEN q - i ELSE BufSz - (i - q)  BY <1>8, <1>10 DEF RxLength
  <2>3. CASE n = BufSz - 1
    <3>1. q = h /\ i = IF h + 1 >= BufSz THEN 0 ELSE h + 1  BY <2>3, <1>6, <1>7 DEF Up
    <3>2. m = BufSz - 1  BY <2>2, <3>1, <1>1, <1>4
    <3> QED  BY <2>3, <3>2
  <2>4. CASE n # BufSz - 1
    <3>1. i = h /\ q # h  BY <2>4, <1>6, <1>7
    <3>2. m = n + 1  BY <2>1, <2>2, <2>4, <3>1, <1>1, <1>4, <1>5
    <3> QED  BY <2>4, <3>2
  <2> QED  BY <2>3, <2>4
<1>13. ASSUME NEW k \in 1..n PROVE at(h, k) \in 0..(BufSz - 1) /\ at(h, k) # p
  BY <1>1, <1>4, <1>5
<1>14. ASSUME NEW k \in 1..n PROVE g.buffer[at(h, k)] = c[k]
  BY <1>4, <1>5, <1>8, <1>13
<1>15. g.buffer[p] = b  BY <1>4, <1>8
<1>16. CASE n < BufSz - 1
  <2>0. n # BufSz - 1  BY <1>1, <1>5, <1>16
  <2>1. i = h /\ m = n + 1  BY <1>6, <1>7, <1>12, <2>0
  <2>2. at(h, n + 1) = p  BY <1>1, <1>4, <1>5
  <2>3. \A k \in 1..n : k \in 1..m  BY <1>5, <2>1
  <2>4. n + 1 \in 1..m  BY <1>5, <2>1
  <2>5. e[n + 1] = b  BY <1>11, <1>15, <2>1, <2>2, <2>4
  <2>6. \A k \in 1..n : e[k] = c[k]  BY <1>11, <1>14, <2>1, <2>3
  <2>7. n # BufSz - 1  BY <1>1, <1>5, <1>16
  <2> QED  BY <1>5, <1>9, <1>11, <2>1, <2>5, <2>6, <2>7
<1>17. CASE n = BufSz - 1
  <2>1. i = Up(h) /\ m = n /\ q = h  BY <1>6, <1>7, <1>12, <1>17
  <2>2. at(i, n) = p /\ n \in 1..m  BY <1>1, <1>4, <1>5, <1>17, <2>1 DEF Up
  <2>3. \A k \in 1..(n - 1) : at(i, k) = at(h, k + 1) /\ k + 1 \in 1..n /\ k \in 1..m
    BY <1>1, <1>4, <1>5, <1>17, <2>1 DEF Up
  <2>4. e[n] = b  BY <1>11, <1>15, <2>2
  <2>5. ASSUME NEW k \in 1..(n - 1) PROVE e[k] = c[k + 1]
    <3>1. PICK j \in 1..n : j = k + 1  BY <2>3
    <3>2. e[k] = g.buffer[at(i, k)]  BY <1>11, <2>3
    <3>3. at(i, k) = at(h, j)  BY <2>3, <3>1
    <3>4. g.buffer[at(h, j)] = c[j]  BY <1>14
    <3> HIDE DEF at
    <3> QED  BY <3>1, <3>2, <3>3, <3>4
  <2>6. ~(n < BufSz - 1)  BY <1>1, <1>5, <1>17
  <2> QED  BY <1>5, <1>9, <1>11, <2>1, <2>4, <2>5, <2>6
<1> QED  BY <1>1, <1>5, <1>16, <1>17

\* The fifo once _serial_int_rx has taken a byte.
Fetched(f) == [f EXCEPT !.get = Up(f.get), !.is_full = FALSE]

\* The byte _serial_int_rx reads is the first.
LEMMA FetchIs ==
    ASSUME NEW f, FifoTyped(f), ~Empty(f),
           NEW g, g = Fetched(f),
           NEW c, c = Contents(f), NEW e, e = Contents(g)
    PROVE  /\ FifoTyped(g) /\ c \in Seq(Nat) /\ e \in Seq(Nat)
           /\ Len(c) >= 1 /\ Len(e) = Len(c) - 1 /\ f.buffer[f.get] = c[1]
           /\ \A k \in 1..(Len(c) - 1) : e[k] = c[k + 1]
<1>1. BufSz \in Nat /\ BufSz >= 2  BY SizesAssumption
<1> DEFINE at(h, k) == IF h + k - 1 < BufSz THEN h + k - 1 ELSE (h + k - 1) - BufSz
<1>2. PICK n : n = RxLength(f)  OBVIOUS
<1>3. PICK p, h, i : p = f.put /\ h = f.get /\ i = Up(h)  OBVIOUS
<1>4. p \in 0..(BufSz - 1) /\ h \in 0..(BufSz - 1) /\ f.buffer \in [0..(BufSz - 1) -> Nat]
  BY <1>3 DEF FifoTyped
<1>5. /\ n \in 1..(BufSz - 1) /\ c \in Seq(Nat) /\ Len(c) = n
      /\ \A k \in 1..n : c[k] = f.buffer[at(h, k)]
  <2>1. /\ n \in 0..(BufSz - 1) /\ c \in Seq(Nat) /\ Len(c) = n /\ n # 0
        /\ \A k \in 1..n : c[k] = f.buffer[at(h, k)]
    BY <1>2, <1>3, ContentsAre
  <2> QED  BY <2>1, <1>1
<1>6. i \in 0..(BufSz - 1)  BY <1>1, <1>3, <1>4 DEF Up
<1>7. g.buffer = f.buffer /\ g.put = p /\ g.get = i /\ g.is_full = FALSE  BY <1>3 DEF FifoTyped, Fetched
<1>8. FifoTyped(g)
  <2>1. g \in [buffer : [0..(BufSz - 1) -> Nat], put : 0..(BufSz - 1), get : 0..(BufSz - 1),
               is_full : BOOLEAN]
    BY <1>3, <1>6 DEF FifoTyped, Fetched
  <2> QED  BY <2>1, <1>7 DEF FifoTyped
<1>9. PICK m : m = RxLength(g)  OBVIOUS
<1>10. /\ e \in Seq(Nat) /\ Len(e) = m /\ \A k \in 1..m : e[k] = f.buffer[at(i, k)]
  <2>1. /\ m \in 0..(BufSz - 1) /\ e \in Seq(Nat) /\ Len(e) = m
        /\ \A k \in 1..m : e[k] = g.buffer[at(g.get, k)]
    BY ONLY <1>8, <1>9, e = Contents(g), ContentsAre
  <2> QED  BY <2>1, <1>7
<1>11. m = n - 1
  <2>1. i = IF h + 1 >= BufSz THEN 0 ELSE h + 1  BY <1>3 DEF Up
  <2>2. m = IF p >= i THEN p - i ELSE BufSz - (i - p)  BY <1>7, <1>9 DEF RxLength
  <2>3. n = IF p >= h THEN p - h ELSE BufSz - (h - p)  BY <1>2, <1>3 DEF RxLength
  <2>4. p # h  BY <2>3, <1>1, <1>4, <1>5
  <2> QED  BY <2>1, <2>2, <2>3, <2>4, <1>1, <1>4
<1>12. at(h, 1) = h /\ 1 \in 1..n  BY <1>1, <1>4, <1>5
<1>13. ASSUME NEW k \in 1..(n - 1) PROVE at(i, k) = at(h, k + 1) /\ k + 1 \in 1..n
  <2>1. i = IF h + 1 >= BufSz THEN 0 ELSE h + 1  BY <1>3 DEF Up
  <2>2. n \in Nat /\ k \in Nat /\ k >= 1 /\ k < n /\ n < BufSz  BY <1>1, <1>5
  <2>3. k + 1 \in 1..n  BY <2>2, <1>5
  <2>4. CASE h + 1 >= BufSz
    <3>1. i = 0 /\ h = BufSz - 1  BY <2>1, <2>4, <1>1, <1>4
    <3>2. i + k - 1 = k - 1 /\ k - 1 < BufSz  BY <3>1, <2>2, <1>1
    <3>3. h + (k + 1) - 1 = BufSz + (k - 1)  BY <3>1, <2>2, <1>1
    <3>4. at(h, k + 1) = k - 1  BY <3>3, <2>2, <1>1
    <3> QED  BY <3>2, <3>4, <2>3
  <2>5. CASE ~(h + 1 >= BufSz)
    <3>1. i = h + 1 /\ h \in Nat  BY <2>1, <2>5, <1>1, <1>4
    <3>2. i + k - 1 = h + (k + 1) - 1  BY <3>1, <2>2
    <3> QED  BY <3>2, <2>3
  <2> QED  BY <2>4, <2>5
<1>14. f.buffer[f.get] = c[1]  BY <1>3, <1>5, <1>12
<1>15. ASSUME NEW k \in 1..(n - 1) PROVE e[k] = c[k + 1]
  <2>1. PICK j \in 1..n : j = k + 1  BY <1>13
  <2>2. e[k] = f.buffer[at(i, k)]  BY <1>10, <1>11
  <2>3. at(i, k) = at(h, j)  BY <1>13, <2>1
  <2>4. c[j] = f.buffer[at(h, j)]  BY <1>5
  <2> HIDE DEF at
  <2> QED  BY <2>1, <2>2, <2>3, <2>4
<1>16. n >= 1  BY <1>1, <1>5
<1> QED  BY <1>5, <1>8, <1>10, <1>11, <1>14, <1>15, <1>16

-----------------------------------------------------------------------------
(* The trail of the bytes: read (g), in the fifo (h), in the data register *)
(* (d), of n that arrived.                                                 *)

Rising(l) == \A j, k \in 1..Len(l) : j < k => l[j] < l[k]

Ordered(g, h, d, n) ==
    /\ g \in Seq(Nat) /\ h \in Seq(Nat) /\ n \in Nat /\ d \in 0..n
    /\ Rising(g) /\ Rising(h)
    /\ \A j \in 1..Len(g) : g[j] \in 1..n
    /\ \A k \in 1..Len(h) : h[k] \in 1..n
    /\ \A j \in 1..Len(g), k \in 1..Len(h) : g[j] < h[k]
    /\ d # 0 => /\ \A j \in 1..Len(g) : g[j] < d
                /\ \A k \in 1..Len(h) : h[k] < d

Whole(g, h, d, n) ==
    /\ \A j \in 1..Len(g) : g[j] = j
    /\ \A k \in 1..Len(h) : h[k] = Len(g) + k
    /\ d # 0 => d = n
    /\ Len(g) + Len(h) + (IF d = 0 THEN 0 ELSE 1) = n

\* A byte arrives.
LEMMA TrailGrows ==
    ASSUME NEW g, NEW h, NEW d, NEW n, Ordered(g, h, d, n)
    PROVE  /\ Ordered(g, h, d, n + 1)
           /\ d = 0 => Ordered(g, h, n + 1, n + 1)
           /\ d = 0 /\ Whole(g, h, d, n) => Whole(g, h, n + 1, n + 1)
<1>1. n \in Nat /\ d \in 0..n /\ Len(g) \in Nat /\ Len(h) \in Nat  BY LenProperties DEF Ordered
<1>2. /\ \A j \in 1..Len(g) : g[j] \in 1..(n + 1) /\ g[j] < n + 1
      /\ \A k \in 1..Len(h) : h[k] \in 1..(n + 1) /\ h[k] < n + 1
  BY <1>1 DEF Ordered
<1>3. d \in 0..(n + 1) /\ n + 1 \in 0..(n + 1) /\ n + 1 \in Nat  BY <1>1
<1>4. Ordered(g, h, d, n + 1)  BY <1>2, <1>3 DEF Ordered
<1>5. Ordered(g, h, n + 1, n + 1)  BY <1>2, <1>3 DEF Ordered
<1>6. d = 0 /\ Whole(g, h, d, n) => Whole(g, h, n + 1, n + 1)  BY <1>1 DEF Whole
<1> QED  BY <1>4, <1>5, <1>6

\* The byte in the data register is stored, or goes.
LEMMA TrailStores ==
    ASSUME NEW g, NEW h, NEW d, NEW n, Ordered(g, h, d, n), d # 0,
           NEW e \in Seq(Nat), Len(e) = Len(h) + 1, e[Len(h) + 1] = d, \A k \in 1..Len(h) : e[k] = h[k]
    PROVE  Ordered(g, e, 0, n) /\ (Whole(g, h, d, n) => Whole(g, e, 0, n))
<1>1. n \in Nat /\ d \in 1..n /\ Len(g) \in Nat /\ Len(h) \in Nat  BY LenProperties DEF Ordered
<1>2. \A k \in 1..Len(e) : k = Len(h) + 1 \/ k \in 1..Len(h)  BY <1>1
<1>3. \A k \in 1..Len(e) : e[k] \in 1..n  BY <1>1, <1>2 DEF Ordered
<1>4. \A j \in 1..Len(g), k \in 1..Len(e) : g[j] < e[k]  BY <1>2 DEF Ordered
<1>5. Rising(e)
  <2>1. SUFFICES ASSUME NEW j \in 1..Len(e), NEW k \in 1..Len(e), j < k PROVE e[j] < e[k]
    BY DEF Rising
  <2>2. j \in 1..Len(h)  BY <2>1, <1>1
  <2>3. CASE k \in 1..Len(h)  BY <2>1, <2>2, <2>3 DEF Ordered, Rising
  <2>4. CASE k = Len(h) + 1  BY <2>2, <2>4 DEF Ordered
  <2> QED  BY <2>3, <2>4, <1>2
<1>6. Ordered(g, e, 0, n)  BY <1>1, <1>3, <1>4, <1>5 DEF Ordered
<1>7. ASSUME Whole(g, h, d, n) PROVE Whole(g, e, 0, n)
  <2>1. Len(g) + Len(h) + 1 = n /\ d = n  BY <1>7, <1>1 DEF Whole
  <2>2. Len(g) + Len(e) = n  BY <2>1, <1>1
  <2>3. \A k \in 1..Len(e) : e[k] = Len(g) + k  BY <1>7, <1>1, <1>2, <2>1, SMTT(30) DEF Whole
  <2> QED  BY <1>7, <2>2, <2>3, <1>1 DEF Whole
<1> QED  BY <1>6, <1>7

LEMMA TrailClears ==
    ASSUME NEW g, NEW h, NEW d, NEW n, Ordered(g, h, d, n)
    PROVE  Ordered(g, h, 0, n)
<1>1. 0 \in 0..n  BY DEF Ordered
<1> QED  BY <1>1 DEF Ordered

\* The first byte of the fifo goes.
LEMMA TrailDrops ==
    ASSUME NEW g, NEW h, NEW d, NEW n, Ordered(g, h, d, n), Len(h) >= 1,
           NEW e \in Seq(Nat), Len(e) = Len(h) - 1, \A k \in 1..(Len(h) - 1) : e[k] = h[k + 1]
    PROVE  Ordered(g, e, d, n)
<1>1. Len(g) \in Nat /\ Len(h) \in Nat  BY LenProperties DEF Ordered
<1>2. \A k \in 1..Len(e) : k + 1 \in 1..Len(h) /\ e[k] = h[k + 1]  BY <1>1
<1>3. Rising(e)
  <2>1. SUFFICES ASSUME NEW j \in 1..Len(e), NEW k \in 1..Len(e), j < k PROVE e[j] < e[k]
    BY DEF Rising
  <2>2. PICK a, b \in 1..Len(h) : a = j + 1 /\ b = k + 1  BY <1>2
  <2>3. a < b  BY <2>1, <2>2, <1>1
  <2>4. h[a] < h[b]  BY <2>3 DEF Ordered, Rising
  <2> QED  BY <2>2, <2>4, <1>2
<1>4. \A k \in 1..Len(e) : /\ e[k] \in 1..n /\ (d # 0 => e[k] < d)
                           /\ \A j \in 1..Len(g) : g[j] < e[k]
  BY <1>2 DEF Ordered
<1> QED  BY <1>3, <1>4 DEF Ordered

Taking(g, h) == Append(g, h[1])

\* The first byte of the fifo is read.
LEMMA TrailReads ==
    ASSUME NEW g, NEW h, NEW d, NEW n, Ordered(g, h, d, n), Len(h) >= 1,
           NEW e \in Seq(Nat), Len(e) = Len(h) - 1, \A k \in 1..(Len(h) - 1) : e[k] = h[k + 1],
           NEW r, r = Taking(g, h)
    PROVE  Ordered(r, e, d, n) /\ (Whole(g, h, d, n) => Whole(r, e, d, n))
<1>1. n \in Nat /\ Len(g) \in Nat /\ Len(h) \in Nat  BY LenProperties DEF Ordered
<1>2. PICK x \in 1..n : x = h[1]  BY <1>1 DEF Ordered
<1>3. /\ r \in Seq(Nat) /\ Len(r) = Len(g) + 1 /\ r[Len(g) + 1] = x
      /\ \A j \in 1..Len(g) : r[j] = g[j]
  <2>1. g \in Seq(Nat) /\ x \in Nat /\ r = Append(g, x)  BY <1>1, <1>2 DEF Ordered, Taking
  <2> QED  BY <2>1, AppendProperties
<1>4. \A j \in 1..Len(r) : j = Len(g) + 1 \/ j \in 1..Len(g)  BY <1>1, <1>3
<1>5. \A k \in 1..Len(e) : k + 1 \in 1..Len(h) /\ e[k] = h[k + 1]  BY <1>1
<1>6. Ordered(g, e, d, n)  BY TrailDrops
<1>7. 1 \in 1..Len(h) /\ \A j \in 1..Len(g) : g[j] < x  BY <1>1, <1>2 DEF Ordered
<1>8. \A k \in 1..Len(e) : x < e[k]
  <2>1. ASSUME NEW k \in 1..Len(e) PROVE x < e[k]
    <3>1. k + 1 \in 1..Len(h) /\ 1 < k + 1  BY <1>1, <1>5
    <3> QED  BY <3>1, <1>2, <1>5, <1>7 DEF Ordered, Rising
  <2> QED  BY <2>1
<1>9. Rising(r)
  <2>1. SUFFICES ASSUME NEW j \in 1..Len(r), NEW k \in 1..Len(r), j < k PROVE r[j] < r[k]
    BY DEF Rising
  <2>2. j \in 1..Len(g)  BY <2>1, <1>1, <1>3
  <2>3. CASE k \in 1..Len(g)  BY <2>1, <2>2, <2>3, <1>3 DEF Ordered, Rising
  <2>4. CASE k = Len(g) + 1  BY <2>2, <2>4, <1>3, <1>7
  <2> QED  BY <2>3, <2>4, <1>4
<1>10. \A j \in 1..Len(r) : /\ r[j] \in 1..n /\ (d # 0 => r[j] < d)
                            /\ \A k \in 1..Len(e) : r[j] < e[k]
  <2>1. \A j \in 1..Len(g) : /\ g[j] \in 1..n /\ (d # 0 => g[j] < d)
                             /\ \A k \in 1..Len(e) : g[j] < e[k]
    BY <1>6 DEF Ordered
  <2>2. d # 0 => x < d  BY <1>2, <1>7 DEF Ordered
  <2> QED  BY <2>1, <2>2, <1>3, <1>4, <1>8
<1>11. Ordered(r, e, d, n)  BY <1>3, <1>6, <1>9, <1>10 DEF Ordered
<1>12. ASSUME Whole(g, h, d, n) PROVE Whole(r, e, d, n)
  <2>1. x = Len(g) + 1  BY <1>12, <1>2, <1>7 DEF Whole
  <2>2. \A j \in 1..Len(r) : r[j] = j  BY <1>12, <1>3, <1>4, <2>1 DEF Whole
  <2>3. ASSUME NEW k \in 1..Len(e) PROVE e[k] = Len(r) + k
    <3>1. e[k] = Len(g) + (k + 1)  BY <1>5, <1>12 DEF Whole
    <3> QED  BY <3>1, <1>1, <1>3
  <2>4. Len(r) + Len(e) = Len(g) + Len(h)  BY <1>1, <1>3
  <2> QED  BY <1>12, <2>2, <2>3, <2>4 DEF Whole
<1> QED  BY <1>11, <1>12

-----------------------------------------------------------------------------
(* Where the bytes are.                                                    *)

Held == IF rx THEN Contents(fifo) ELSE <<>>

Clean == hist \cap Losses = {}

TrailInv == FifoTyped(fifo) /\ Ordered(got, Held, dr, arrived)

WholeInv == Clean => Whole(got, Held, dr, arrived) /\ (todo = Shut3 => Empty(fifo))

LEMMA SameTrail ==
    ASSUME TrailInv, UNCHANGED <<got, fifo, rx, dr, arrived>>
    PROVE  /\ TrailInv' /\ Held' = Held
           /\ WholeInv /\ (Clean' => Clean) /\ (todo' = Shut3 => todo = Shut3) => WholeInv'
<1>1. PICK f, h : f = fifo /\ h = Held  OBVIOUS
<1>2. fifo' = f  BY <1>1
<1>3. Held' = h /\ (Empty(fifo)' <=> Empty(fifo))  BY <1>1, <1>2 DEF Held, Contents, RxLength, Empty
<1>4. TrailInv'  BY <1>1, <1>2, <1>3 DEF TrailInv
<1>5. ASSUME WholeInv, Clean' => Clean, todo' = Shut3 => todo = Shut3 PROVE WholeInv'
  <2>1. SUFFICES ASSUME Clean' PROVE Whole(got', h, dr', arrived') /\ (todo' = Shut3 => Empty(fifo)')
    BY <1>3 DEF WholeInv
  <2>2. Whole(got, h, dr, arrived) /\ (todo = Shut3 => Empty(fifo))  BY <2>1, <1>1, <1>5 DEF WholeInv
  <2> QED  BY <2>2, <1>3, <1>5
<1> QED  BY <1>1, <1>3, <1>4, <1>5

LEMMA TrailInit ==
    ASSUME Init
    PROVE  TrailInv /\ WholeInv
<1>1. BufSz \in Nat /\ BufSz >= 2  BY SizesAssumption
<1>2. FifoTyped(EmptyFifo) /\ RxLength(EmptyFifo) = 0
  BY <1>1 DEF FifoTyped, EmptyFifo, RxLength, None
<1>3. Contents(EmptyFifo) = <<>>
  <2>1. Contents(EmptyFifo) \in Seq(Nat) /\ Len(Contents(EmptyFifo)) = 0  BY <1>2, ContentsAre
  <2> QED  BY <2>1, EmptySeq
<1>4. Held = <<>> /\ FifoTyped(fifo)  BY <1>2, <1>3 DEF Init, Held
<1>5. Ordered(<<>>, <<>>, 0, 0) /\ Whole(<<>>, <<>>, 0, 0)
  BY EmptySeq DEF Ordered, Whole, Rising
<1>6. todo # Shut3  BY ProgramSteps, ZenonT(60) DEF Init
<1> QED  BY <1>4, <1>5, <1>6 DEF Init, None, TrailInv, WholeInv

LEMMA Stained ==
    ASSUME NEW l \in Losses, hist' = hist \cup {l}
    PROVE  ~Clean'
BY DEF Clean

\* Every step keeps the bytes in order; while nothing stands in their way it keeps them all.
LEMMA TrailStep ==
    ASSUME StageInv, HandlerInv, TrailInv, Next \/ UNCHANGED vars
    PROVE  TrailInv' /\ (IsrHasFifo /\ QuietInv /\ WholeInv => WholeInv')
<1>1. PICK f, h : f = fifo /\ h = Held  OBVIOUS
<1>2. FifoTyped(f) /\ Ordered(got, h, dr, arrived)  BY <1>1 DEF TrailInv
<1>3. CASE Arrive
  <2>1. /\ UNCHANGED <<got, fifo, rx, todo>> /\ arrived' = arrived + 1
        /\ dr' = IF dr = None THEN arrived + 1 ELSE dr
        /\ hist' = IF dr = None THEN hist ELSE hist \cup {"overrun"}
    BY <1>3 DEF Arrive, rxVars, shellVars
  <2>2. fifo' = f /\ Held' = h /\ (Empty(fifo)' <=> Empty(fifo))
    BY <2>1, <1>1 DEF Held, Contents, RxLength, Empty
  <2>3. CASE dr = None
    <3>1. /\ Ordered(got, h, arrived + 1, arrived + 1)
          /\ Whole(got, h, dr, arrived) => Whole(got, h, arrived + 1, arrived + 1)
      BY <2>3, <1>2, TrailGrows DEF None
    <3>2. TrailInv'  BY <3>1, <2>1, <2>2, <2>3, <1>2 DEF TrailInv
    <3>3. ASSUME WholeInv, Clean' PROVE Whole(got', h, dr', arrived') /\ (todo' = Shut3 => Empty(fifo)')
      <4>1. Clean  BY <3>3, <2>1, <2>3 DEF Clean
      <4>2. Whole(got, h, dr, arrived) /\ (todo = Shut3 => Empty(fifo))
        BY <3>3, <4>1, <1>1 DEF WholeInv
      <4> QED  BY <4>2, <3>1, <2>1, <2>2, <2>3
    <3> QED  BY <3>2, <3>3, <2>2 DEF WholeInv
  <2>4. CASE dr # None
    <3>1. Ordered(got, h, dr, arrived + 1)  BY <1>2, TrailGrows
    <3>2. TrailInv'  BY <3>1, <2>1, <2>2, <2>4, <1>2 DEF TrailInv
    <3>3. ~Clean'  BY <2>1, <2>4, Stained DEF Losses
    <3> QED  BY <3>2, <3>3 DEF WholeInv
  <2> QED  BY <2>3, <2>4
<1>4. CASE Getc
  <2>1. /\ UNCHANGED <<got, rx, todo, arrived>> /\ dr # None /\ isr = "getc" /\ dr' = None
        /\ fifo' = Store(fifo, dr)
        /\ hist' = IF RxLength(fifo) = BufSz - 1 THEN hist \cup {"overflow"} ELSE hist
    BY <1>4 DEF Getc, shellVars
  <2>2. PICK b \in Nat : b = dr /\ b # 0  BY <2>1, <1>2 DEF Ordered, None
  <2>3. PICK g, c, e : g = Store(f, b) /\ c = Contents(f) /\ e = Contents(g)  OBVIOUS
  <2>4. fifo' = g /\ Held' = IF rx THEN e ELSE <<>>
    BY <2>1, <2>2, <2>3, <1>1 DEF Held
  <2>5. h = IF rx THEN c ELSE <<>>  BY <2>3, <1>1 DEF Held
  <2>6. /\ FifoTyped(g) /\ e \in Seq(Nat) /\ Len(c) \in 0..(BufSz - 1)
        /\ Len(c) < BufSz - 1 =>
              Len(e) = Len(c) + 1 /\ e[Len(c) + 1] = b /\ \A k \in 1..Len(c) : e[k] = c[k]
        /\ Len(c) = BufSz - 1 =>
              Len(e) = Len(c) /\ e[Len(c)] = b /\ \A k \in 1..(Len(c) - 1) : e[k] = c[k + 1]
    BY <2>3, <1>2, StoreIs
  <2>7. Len(c) = RxLength(fifo)  BY <2>3, <1>1, <1>2, ContentsAre
  <2>8. BufSz \in Nat /\ BufSz >= 2  BY SizesAssumption
  <2>9. CASE ~rx
    <3>1. Held' = h  BY <2>4, <2>5, <2>9
    <3>2. Ordered(got, h, 0, arrived)  BY <1>2, TrailClears
    <3>3. TrailInv'  BY <3>1, <3>2, <2>1, <2>4, <2>6 DEF TrailInv, None
    <3>4. ~IsrHasFifo  BY <2>1, <2>9 DEF IsrHasFifo
    <3> QED  BY <3>3, <3>4
  <2>10. CASE rx /\ Len(c) = BufSz - 1
    <3>1. h = c /\ Held' = e  BY <2>4, <2>5, <2>10
    <3>2. Len(c) >= 1 /\ c \in Seq(Nat)  BY <2>8, <2>10, <3>1, <1>2 DEF Ordered
    <3>3. PICK t : t = Tail(c)  OBVIOUS
    <3>4. /\ t \in Seq(Nat) /\ Len(t) = Len(c) - 1 /\ \A k \in 1..(Len(c) - 1) : t[k] = c[k + 1]
      <4>1. c # <<>>  BY <3>2, EmptySeq
      <4>2. /\ Tail(c) \in Seq(Nat) /\ Len(Tail(c)) = Len(c) - 1
            /\ \A k \in 1..Len(Tail(c)) : Tail(c)[k] = c[k + 1]
        BY <4>1, <3>2, HeadTailProperties
      <4> QED  BY <4>2, <3>3
    <3>5. Ordered(got, t, b, arrived)  BY <3>1, <3>2, <3>4, <1>2, <2>2, TrailDrops
    <3>6. Len(e) = Len(t) + 1 /\ e[Len(t) + 1] = b /\ \A k \in 1..Len(t) : e[k] = t[k]
      <4>1. Len(t) + 1 = Len(c)  BY <3>4, <2>8, <2>10
      <4> QED  BY <4>1, <3>4, <2>6, <2>10
    <3>7. Ordered(got, e, 0, arrived)  BY <3>5, <3>6, <2>2, <2>6, TrailStores
    <3>8. TrailInv'  BY <3>1, <3>7, <2>1, <2>4, <2>6 DEF TrailInv, None
    <3>9. ~Clean'  BY <2>1, <2>7, <2>10, Stained DEF Losses
    <3> QED  BY <3>8, <3>9 DEF WholeInv
  <2>11. CASE rx /\ Len(c) # BufSz - 1
    <3>1. h = c /\ Held' = e  BY <2>4, <2>5, <2>11
    <3>2. Len(c) < BufSz - 1  BY <2>6, <2>8, <2>11
    <3>3. Ordered(got, e, 0, arrived) /\ (Whole(got, h, b, arrived) => Whole(got, e, 0, arrived))
      BY <3>1, <3>2, <1>2, <2>2, <2>6, TrailStores
    <3>4. TrailInv'  BY <3>1, <3>3, <2>1, <2>4, <2>6 DEF TrailInv, None
    <3>5. ASSUME QuietInv, WholeInv, Clean'
          PROVE  Whole(got, e, 0, arrived) /\ todo # Shut3
      <4>1. Clean  BY <3>5, <2>1, <2>7, <2>11 DEF Clean
      <4>2. Whole(got, h, b, arrived)  BY <3>5, <4>1, <1>1, <2>2 DEF WholeInv
      <4>3. ~Shutting  BY <3>5, <2>1 DEF QuietInv
      <4> QED  BY <4>2, <4>3, <3>3 DEF Shutting
    <3> QED  BY <3>1, <3>4, <3>5, <2>1 DEF WholeInv, None
  <2> QED  BY <2>9, <2>10, <2>11
<1>5. CASE ClearFlag
  <2>1. /\ UNCHANGED <<got, fifo, rx, todo, arrived>> /\ dr' = None
        /\ hist' = IF dr = None THEN hist ELSE hist \cup {"cleared"}
    BY <1>5 DEF ClearFlag, rxVars, shellVars
  <2>2. CASE dr = None
    <3>1. UNCHANGED <<got, fifo, rx, dr, arrived>> /\ (Clean' => Clean)
      BY <2>1, <2>2 DEF Clean
    <3> QED  BY <3>1, <2>1, SameTrail
  <2>3. CASE dr # None
    <3>1. fifo' = f /\ Held' = h  BY <2>1, <1>1 DEF Held, Contents, RxLength
    <3>2. Ordered(got, h, 0, arrived)  BY <1>2, TrailClears
    <3>3. TrailInv'  BY <3>1, <3>2, <2>1, <1>2 DEF TrailInv, None
    <3>4. ~Clean'  BY <2>1, <2>3, Stained DEF Losses
    <3> QED  BY <3>3, <3>4 DEF WholeInv
  <2> QED  BY <2>2, <2>3
<1>6. CASE Read
  <2>1. UNCHANGED <<rx, todo, arrived>> /\ (irq => dr = None)
    BY <1>6 DEF Read, ThreadsRun, Pending
  <2>2. CASE mine /\ "INT_RX" \in dev.flags /\ ~Empty(fifo)
    <3>1. /\ got' = Append(got, fifo.buffer[fifo.get])
          /\ fifo' = [fifo EXCEPT !.get = Up(fifo.get), !.is_full = FALSE]
          /\ UNCHANGED <<dr, hist>>
      BY <1>6, <2>2 DEF Read, IntRx
    <3>2. rx /\ todo # Shut3
      BY <2>2, ProgramSteps, ZenonT(60) DEF StageInv, InUse
    <3>3. PICK g, c, e : /\ g = Fetched(f)
                         /\ c = Contents(f) /\ e = Contents(g)
      OBVIOUS
    <3>4. fifo' = g /\ h = c /\ Held' = e  BY <3>1, <3>2, <3>3, <2>1, <1>1 DEF Held, Fetched
    <3>5. ~Empty(f)  BY <2>2, <1>1
    <3>6. /\ FifoTyped(g) /\ c \in Seq(Nat) /\ e \in Seq(Nat)
          /\ Len(c) >= 1 /\ Len(e) = Len(c) - 1 /\ f.buffer[f.get] = c[1]
          /\ \A k \in 1..(Len(c) - 1) : e[k] = c[k + 1]
      BY <3>3, <3>5, <1>2, FetchIs
    <3>7. PICK r : r = Taking(got, h)  OBVIOUS
    <3>8. got' = r  BY <3>1, <3>4, <3>6, <3>7, <1>1 DEF Taking
    <3>9. Ordered(r, e, dr, arrived) /\ (Whole(got, h, dr, arrived) => Whole(r, e, dr, arrived))
      <4>1. /\ Len(h) >= 1 /\ e \in Seq(Nat) /\ Len(e) = Len(h) - 1
            /\ \A k \in 1..(Len(h) - 1) : e[k] = h[k + 1]
        BY <3>4, <3>6
      <4> QED  BY <4>1, <3>7, <1>2, TrailReads
    <3>10. TrailInv'  BY <3>1, <3>4, <3>6, <3>8, <3>9, <2>1 DEF TrailInv
    <3>11. ASSUME WholeInv, Clean' PROVE Whole(r, e, dr, arrived) /\ todo' # Shut3
      <4>1. Clean  BY <3>1, <3>11 DEF Clean
      <4>2. Whole(got, h, dr, arrived)  BY <3>11, <4>1, <1>1 DEF WholeInv
      <4> QED  BY <4>2, <3>2, <3>9, <2>1
    <3> QED  BY <3>1, <3>4, <3>8, <3>10, <3>11, <2>1 DEF WholeInv
  <2>3. CASE ~(mine /\ "INT_RX" \in dev.flags /\ ~Empty(fifo))
    <3>1. mine => dr = None  BY <2>1 DEF StageInv, InUse
    <3>2. UNCHANGED <<got, fifo, dr>> /\ (hist' = hist \/ hist' = hist \cup {"polled"})
      BY <1>6, <2>3, <3>1 DEF Read, IntRx, PollRx
    <3>3. Clean' => Clean  BY <3>2 DEF Clean
    <3> QED  BY <3>2, <3>3, <2>1, SameTrail
  <2> QED  BY <2>2, <2>3
<1>7. CASE Alloc
  <2>1. /\ UNCHANGED <<got, dr, arrived, hist>> /\ fifo' = EmptyFifo /\ rx' = TRUE
        /\ todo # <<>> /\ Head(todo) = "alloc" /\ todo' = <<>> \o Tail(todo)
    BY <1>7 DEF Alloc, Makes, lineVars, shellVars
  <2>2. ~rx /\ todo' = Back7  BY <2>1, ProgramSteps, ZenonT(60) DEF StageInv, InUse, Left
  <2>3. FifoTyped(EmptyFifo) /\ Contents(EmptyFifo) = <<>>
    <3>1. BufSz \in Nat /\ BufSz >= 2  BY SizesAssumption
    <3>2. FifoTyped(EmptyFifo) /\ RxLength(EmptyFifo) = 0
      BY <3>1 DEF FifoTyped, EmptyFifo, RxLength, None
    <3>3. Contents(EmptyFifo) \in Seq(Nat) /\ Len(Contents(EmptyFifo)) = 0  BY <3>2, ContentsAre
    <3> QED  BY <3>2, <3>3, EmptySeq
  <2>4. h = <<>> /\ Held' = <<>>  BY <2>1, <2>2, <2>3, <1>1 DEF Held
  <2>5. TrailInv'  BY <2>1, <2>3, <2>4, <1>2 DEF TrailInv
  <2>6. todo' # Shut3  BY <2>2, ProgramSteps
  <2>7. ASSUME WholeInv, Clean' PROVE Whole(got', h, dr', arrived')
    BY <2>1, <2>7, <1>1 DEF WholeInv, Clean
  <2> QED  BY <2>4, <2>5, <2>6, <2>7 DEF WholeInv
<1>8. CASE Free
  <2>1. /\ UNCHANGED <<got, fifo, rx, dr, arrived>>
        /\ hist' = IF Empty(fifo) THEN hist ELSE hist \cup {"freed"}
        /\ todo # <<>> /\ Head(todo) = "free"
    BY <1>8 DEF Free, Makes, lineVars, shellVars
  <2>2. TrailInv' /\ Held' = h  BY <2>1, <1>1, SameTrail
  <2>3. ASSUME WholeInv, Clean' PROVE Whole(got', h, dr', arrived') /\ Empty(fifo)'
    <3>1. Empty(fifo)  BY <2>1, <2>3, Stained DEF Losses
    <3>2. Clean  BY <2>1, <2>3, <3>1 DEF Clean
    <3>3. Whole(got, h, dr, arrived)  BY <2>3, <3>2, <1>1 DEF WholeInv
    <3>4. fifo' = f /\ Empty(f)  BY <2>1, <3>1, <1>1
    <3> QED  BY <2>1, <3>3, <3>4 DEF Empty
  <2> QED  BY <2>2, <2>3 DEF WholeInv
<1>9. CASE SetNull
  <2>1. /\ UNCHANGED <<got, fifo, dr, arrived, hist>> /\ rx' = FALSE
        /\ todo # <<>> /\ Head(todo) = "null" /\ todo' = <<>> \o Tail(todo)
    BY <1>9 DEF SetNull, Makes, lineVars, shellVars
  <2>2. rx /\ todo = Shut3 /\ todo' = Shut2  BY <2>1, ProgramSteps, ZenonT(60) DEF StageInv, InUse, Left
  <2>3. todo' # Shut3  BY <2>2, ProgramSteps
  <2>4. Held' = <<>> /\ fifo' = f  BY <2>1, <1>1 DEF Held
  <2>5. Ordered(got, <<>>, dr, arrived)  BY <1>2, EmptySeq DEF Ordered, Rising
  <2>6. TrailInv'  BY <2>1, <2>4, <2>5, <1>2 DEF TrailInv
  <2>7. ASSUME WholeInv, Clean' PROVE Whole(got', <<>>, dr', arrived')
    <3>1. Clean  BY <2>1, <2>7 DEF Clean
    <3>2. Whole(got, h, dr, arrived) /\ Empty(f)  BY <2>2, <2>7, <3>1, <1>1 DEF WholeInv
    <3>3. h = Contents(f)  BY <2>2, <1>1 DEF Held
    <3>4. h \in Seq(Nat) /\ Len(h) = 0  BY <3>2, <3>3, <1>2, ContentsAre
    <3>5. h = <<>>  BY <3>4, EmptySeq
    <3> QED  BY <2>1, <3>2, <3>5
  <2> QED  BY <2>3, <2>4, <2>6, <2>7 DEF WholeInv
<1>10. CASE Enter \/ Indicate \/ Take \/ UNCHANGED vars
  <2>1. UNCHANGED <<got, fifo, rx, dr, arrived, todo>>
    BY <1>10 DEF Enter, Indicate, Take, vars, lineVars, rxVars, shellVars
  <2>2. hist' = hist \/ hist' = hist \cup {"unannounced"}
    BY <1>10 DEF Enter, Indicate, Take, vars
  <2>3. Clean' => Clean  BY <2>2 DEF Clean
  <2> QED  BY <2>1, <2>3, SameTrail
<1>11. CASE HoldKey \/ Open \/ SetInt \/ Opened \/ Close \/ ClrInt \/ Shut \/ Indication \/ ShellDevice
  <2>1. UNCHANGED <<got, fifo, rx, dr, arrived, hist>>
    BY <1>11 DEF HoldKey, Open, SetInt, Opened, Close, ClrInt, Shut, Indication, ShellDevice,
                 lineVars, rxVars, shellVars
  <2>2. live' = live
    BY <1>11 DEF HoldKey, Open, SetInt, Opened, Close, ClrInt, Shut, Indication, ShellDevice, rxVars
  <2>3. StageInv'  BY StageStep
  <2>4. todo' = Shut3 => todo = Shut3
    <3>1. SUFFICES ASSUME todo' = Shut3 PROVE todo = Shut3  OBVIOUS
    <3>2. rx' /\ ~live'  BY <3>1, <2>3, ProgramSteps, ZenonT(60) DEF StageInv, InUse, Left
    <3>3. rx /\ ~live  BY <3>2, <2>1, <2>2
    <3> QED  BY <3>3 DEF StageInv, InUse, Left
  <2>5. Clean' => Clean  BY <2>1 DEF Clean
  <2> QED  BY <2>1, <2>4, <2>5, SameTrail
<1> QED  BY <1>3, <1>4, <1>5, <1>6, <1>7, <1>8, <1>9, <1>10, <1>11 DEF Next, Isr, Shell, Btn

\* The trail in three parts.
Join(g, h, r) == (g \o h) \o r

IsJoin(t, g, h, r) ==
    /\ t \in Seq(Nat) /\ Len(t) = (Len(g) + Len(h)) + Len(r)
    /\ \A k \in 1..Len(g) : t[k] = g[k]
    /\ \A k \in 1..Len(h) : t[Len(g) + k] = h[k]
    /\ \A k \in 1..Len(r) : t[(Len(g) + Len(h)) + k] = r[k]

LEMMA JoinIs ==
    ASSUME NEW g \in Seq(Nat), NEW h \in Seq(Nat), NEW r \in Seq(Nat), NEW t, t = Join(g, h, r)
    PROVE  IsJoin(t, g, h, r)
<1>1. Len(g) \in Nat /\ Len(h) \in Nat /\ Len(r) \in Nat  BY LenProperties
<1>2. PICK a : a = g \o h  OBVIOUS
<1>3. /\ a \in Seq(Nat) /\ Len(a) = Len(g) + Len(h)
      /\ \A k \in 1..(Len(g) + Len(h)) : a[k] = IF k <= Len(g) THEN g[k] ELSE h[k - Len(g)]
  BY <1>2, ConcatProperties
<1>4. /\ t \in Seq(Nat) /\ Len(t) = Len(a) + Len(r)
      /\ \A k \in 1..(Len(a) + Len(r)) : t[k] = IF k <= Len(a) THEN a[k] ELSE r[k - Len(a)]
  <2>1. t = a \o r /\ a \in Seq(Nat)  BY <1>2, <1>3 DEF Join
  <2>2. /\ a \o r \in Seq(Nat) /\ Len(a \o r) = Len(a) + Len(r)
        /\ \A k \in 1..(Len(a) + Len(r)) : (a \o r)[k] = IF k <= Len(a) THEN a[k] ELSE r[k - Len(a)]
    <3>1. PICK c, d \in Seq(Nat) : c = a /\ d = r  BY <2>1
    <3>2. /\ c \o d \in Seq(Nat) /\ Len(c \o d) = Len(c) + Len(d)
          /\ \A k \in 1..(Len(c) + Len(d)) : (c \o d)[k] = IF k <= Len(c) THEN c[k] ELSE d[k - Len(c)]
      BY ConcatProperties
    <3> QED  BY <3>1, <3>2
  <2> QED  BY <2>1, <2>2
<1>5. ASSUME NEW k \in 1..Len(g) PROVE t[k] = g[k]
  <2>1. k \in 1..(Len(g) + Len(h)) /\ k <= Len(g) /\ k \in 1..(Len(a) + Len(r)) /\ k <= Len(a)
    BY <1>1, <1>3
  <2> QED  BY <2>1, <1>3, <1>4
<1>6. ASSUME NEW k \in 1..Len(h) PROVE t[Len(g) + k] = h[k]
  <2>1. PICK j : j = Len(g) + k  OBVIOUS
  <2>2. /\ j \in 1..(Len(g) + Len(h)) /\ ~(j <= Len(g)) /\ j - Len(g) = k
        /\ j \in 1..(Len(a) + Len(r)) /\ j <= Len(a)
    BY <2>1, <1>1, <1>3, SMTT(30)
  <2> QED  BY <2>1, <2>2, <1>3, <1>4
<1>7. ASSUME NEW k \in 1..Len(r) PROVE t[(Len(g) + Len(h)) + k] = r[k]
  <2>1. PICK j : j = (Len(g) + Len(h)) + k  OBVIOUS
  <2>2. j \in 1..(Len(a) + Len(r)) /\ ~(j <= Len(a)) /\ j - Len(a) = k  BY <2>1, <1>1, <1>3
  <2> QED  BY <2>1, <2>2, <1>4
<1> QED  BY <1>3, <1>4, <1>5, <1>6, <1>7 DEF IsJoin

LEMMA TrailIs ==
    ASSUME TrailInv
    PROVE  /\ ReadInOrder
           /\ Whole(got, Held, dr, arrived) => Trail = [k \in 1..arrived |-> k]
<1>1. PICK g, h, d, n : g = got /\ h = Held /\ d = dr /\ n = arrived  OBVIOUS
<1>2. Ordered(g, h, d, n)  BY <1>1 DEF TrailInv
<1>3. g \in Seq(Nat) /\ h \in Seq(Nat) /\ d \in Nat /\ n \in Nat  BY <1>2 DEF Ordered
<1>4. PICK r, t : r = (IF d = 0 THEN <<>> ELSE <<d>>) /\ t = Trail  OBVIOUS
<1>5. r \in Seq(Nat) /\ Len(r) = (IF d = 0 THEN 0 ELSE 1) /\ (d # 0 => r[1] = d)
  BY <1>3, <1>4
<1>6. t = Join(g, h, r)  BY <1>1, <1>4 DEF Trail, Held, None, Join
<1>7. /\ t \in Seq(Nat) /\ Len(t) = (Len(g) + Len(h)) + Len(r)
      /\ \A k \in 1..Len(g) : t[k] = g[k]
      /\ \A k \in 1..Len(h) : t[Len(g) + k] = h[k]
      /\ \A k \in 1..Len(r) : t[(Len(g) + Len(h)) + k] = r[k]
  <2>1. g \in Seq(Nat) /\ h \in Seq(Nat) /\ r \in Seq(Nat)  BY <1>3, <1>5
  <2>2. IsJoin(t, g, h, r)  BY <2>1, <1>6, JoinIs
  <2> QED  BY <2>2 DEF IsJoin
<1>8. Len(g) \in Nat /\ Len(h) \in Nat  BY <1>3, LenProperties
<1>9. ASSUME NEW k \in 1..Len(t)
      PROVE  \/ k \in 1..Len(g) /\ t[k] = g[k]
             \/ \E i \in 1..Len(h) : k = Len(g) + i /\ t[k] = h[i]
             \/ d # 0 /\ k = (Len(g) + Len(h)) + 1 /\ t[k] = d
  <2>1. CASE k <= Len(g)
    <3>1. k \in 1..Len(g)  BY <2>1, <1>8
    <3> QED  BY <3>1, <1>7
  <2>2. CASE ~(k <= Len(g)) /\ k <= Len(g) + Len(h)
    <3>1. PICK i \in 1..Len(h) : i = k - Len(g)  BY <2>2, <1>8
    <3>2. k = Len(g) + i  BY <3>1, <1>8
    <3> QED  BY <3>2, <1>7
  <2>3. CASE ~(k <= Len(g) + Len(h))
    <3>1. d # 0 /\ Len(r) = 1 /\ k = (Len(g) + Len(h)) + 1  BY <2>3, <1>5, <1>7, <1>8
    <3>2. 1 \in 1..Len(r)  BY <3>1
    <3> QED  BY <3>1, <3>2, <1>5, <1>7
  <2> QED  BY <2>1, <2>2, <2>3, <1>8
<1>10. ASSUME NEW j \in 1..Len(t), NEW k \in 1..Len(t), j < k PROVE t[j] < t[k]
  <2>1. CASE k \in 1..Len(g) /\ t[k] = g[k]
    <3>1. j \in 1..Len(g)  BY <1>10, <2>1, <1>8
    <3> QED  BY <3>1, <2>1, <1>2, <1>7, <1>10 DEF Ordered, Rising
  <2>2. CASE \E i \in 1..Len(h) : k = Len(g) + i /\ t[k] = h[i]
    <3>1. PICK i \in 1..Len(h) : k = Len(g) + i /\ t[k] = h[i]  BY <2>2
    <3>2. CASE j \in 1..Len(g) /\ t[j] = g[j]  BY <3>1, <3>2, <1>2 DEF Ordered
    <3>3. CASE \E m \in 1..Len(h) : j = Len(g) + m /\ t[j] = h[m]
      <4>1. PICK m \in 1..Len(h) : j = Len(g) + m /\ t[j] = h[m]  BY <3>3
      <4>2. m < i  BY <4>1, <3>1, <1>8, <1>10
      <4> QED  BY <4>1, <4>2, <3>1, <1>2 DEF Ordered, Rising
    <3>4. ~(j = (Len(g) + Len(h)) + 1)  BY <3>1, <1>8, <1>10
    <3> QED  BY <3>2, <3>3, <3>4, <1>9
  <2>3. CASE d # 0 /\ k = (Len(g) + Len(h)) + 1 /\ t[k] = d
    <3>1. ~(j = (Len(g) + Len(h)) + 1)  BY <2>3, <1>8, <1>10
    <3> QED  BY <2>3, <3>1, <1>2, <1>9 DEF Ordered
  <2> QED  BY <2>1, <2>2, <2>3, <1>9
<1>11. ReadInOrder  BY <1>4, <1>10 DEF ReadInOrder
<1>12. ASSUME Whole(g, h, d, n) PROVE t = [k \in 1..n |-> k]
  <2>1. Len(t) = n  BY <1>12, <1>5, <1>7 DEF Whole
  <2>2. ASSUME NEW k \in 1..Len(t) PROVE t[k] = k
    <3>1. d # 0 => d = (Len(g) + Len(h)) + 1  BY <1>12, <1>8 DEF Whole
    <3> QED  BY <3>1, <1>9, <1>12 DEF Whole
  <2>3. t = [k \in 1..Len(t) |-> t[k]]  BY <1>7, LenProperties
  <2> QED  BY <2>1, <2>2, <2>3
<1> QED  BY <1>1, <1>4, <1>11, <1>12

\* The shell reads the bytes in the order they arrived and none twice, quiet line or not:
\* what is lost is lost, never moved.
THEOREM BytesReadInOrder == Spec => []ReadInOrder
<1>1. Init => StageInv /\ HandlerInv /\ TrailInv  BY StageInit, TrailInit
<1>2. StageInv /\ HandlerInv /\ TrailInv /\ [Next]_vars => (StageInv /\ HandlerInv /\ TrailInv)'
  BY StageStep, HandlerStep, TrailStep
<1>3. TrailInv => ReadInOrder  BY TrailIs
<1> QED  BY <1>1, <1>2, <1>3, PTL DEF Spec

\* On a line that is quiet while the device is closed, a byte that meets no full data
\* register, no full fifo, no clearing of RXNE and no freeing of the fifo is never lost.
THEOREM BytesAllThere ==
    ASSUME Quiet
    PROVE  Spec => []NoByteLost
<1> DEFINE Inv == StageInv /\ HandlerInv /\ QuietInv /\ TrailInv /\ WholeInv
<1>1. Init => Inv  BY StageInit, TrailInit
<1>2. Inv /\ [Next]_vars => Inv'
  BY StageStep, HandlerStep, QuietStep, TrailStep, IsrFifo
<1>3. Inv => NoByteLost  BY TrailIs DEF WholeInv, Clean, NoByteLost
<1> HIDE DEF Inv
<1> QED  BY <1>1, <1>2, <1>3, PTL DEF Spec

-----------------------------------------------------------------------------
(* The shell's semaphore.                                                  *)

\* The shell sleeps on "vcom" with nothing to wake it; on uart1 it sleeps over bytes only
\* while their announcement is under way.
AwakeInv ==
    /\ sem \in Nat /\ shell \in {"read", "take"}
    /\ ~mine => shell = "take" /\ sem = 0
    /\ shell = "take" /\ rx /\ RxLength(fifo) # 0 =>
          sem > 0 \/ isr = "getc" \/ hist \cap {"unannounced", "polled"} # {}

LEMMA AwakeStep ==
    ASSUME StageInv, TrailInv, AwakeInv, Next \/ UNCHANGED vars
    PROVE  AwakeInv'
<1> DEFINE said == hist \cap {"unannounced", "polled"} # {}
<1>1. PICK f, n : f = fifo /\ n = RxLength(fifo)  OBVIOUS
<1>2. fifo' = f => RxLength(fifo)' = n  BY <1>1 DEF RxLength
<1>3. Empty(fifo) <=> n = 0
  <2>1. FifoTyped(f)  BY <1>1 DEF TrailInv
  <2>2. Empty(f) <=> RxLength(f) = 0  BY <2>1, ContentsAre
  <2> QED  BY <2>2, <1>1
<1>4. ~mine => ~dev.ind  BY DEF StageInv, Left, Dev
<1>5. ASSUME UNCHANGED <<sem, shell, mine, fifo>>, rx' => rx, isr = "getc" => isr' = "getc",
             said => said'
      PROVE  AwakeInv'
  BY <1>1, <1>2, <1>5 DEF AwakeInv
<1>6. CASE Arrive \/ Enter \/ HoldKey \/ UNCHANGED vars
  <2>1. UNCHANGED <<sem, shell, mine, fifo, rx>> /\ (isr = "getc" => isr' = "getc")
    BY <1>6 DEF Arrive, Enter, HoldKey, vars, lineVars, rxVars, shellVars
  <2>2. said => said'  BY <1>6 DEF Arrive, Enter, HoldKey, vars
  <2> QED  BY <2>1, <2>2, <1>5
<1>7. CASE Getc
  <2>1. UNCHANGED <<sem, shell, mine, isr>> /\ isr = "getc"  BY <1>7 DEF Getc, shellVars
  <2> QED  BY <2>1 DEF AwakeInv
<1>8. CASE Indicate
  <2>1. /\ UNCHANGED <<shell, mine, fifo, rx>>
        /\ sem' = IF dev.ind /\ n # 0 THEN sem + 1 ELSE sem
        /\ hist' = IF dev.ind THEN hist ELSE hist \cup {"unannounced"}
    BY <1>8, <1>1 DEF Indicate, rxVars
  <2>2. RxLength(fifo)' = n  BY <2>1, <1>1, <1>2
  <2>3. sem' \in Nat /\ (dev.ind /\ n # 0 => sem' > 0)  BY <2>1 DEF AwakeInv
  <2>4. ~dev.ind => said'  BY <2>1
  <2>5. ~mine => sem' = sem  BY <2>1, <1>4
  <2> QED  BY <2>1, <2>2, <2>3, <2>4, <2>5 DEF AwakeInv
<1>9. CASE ClearFlag
  <2>1. UNCHANGED <<sem, shell, mine, fifo, rx>> /\ isr = "clear"
    BY <1>9 DEF ClearFlag, rxVars, shellVars
  <2>2. said => said'  BY <1>9 DEF ClearFlag
  <2> QED  BY <2>1, <2>2, <1>5
<1>10. CASE Read
  <2>1. UNCHANGED <<sem, mine, rx>> /\ shell = "read"  BY <1>10 DEF Read
  <2>2. mine  BY <2>1 DEF AwakeInv
  <2>3. CASE "INT_RX" \in dev.flags
    <3>1. shell' = (IF n = 0 THEN "take" ELSE "read") /\ (n = 0 => fifo' = fifo)
      BY <1>10, <2>2, <2>3, <1>3 DEF Read, IntRx
    <3>2. shell' = "take" => RxLength(fifo)' = 0  BY <3>1, <1>1, <1>2
    <3> QED  BY <2>1, <2>2, <3>1, <3>2 DEF AwakeInv
  <2>4. CASE "INT_RX" \notin dev.flags
    <3>1. shell' \in {"read", "take"} /\ hist' = hist \cup {"polled"}
      BY <1>10, <2>2, <2>4 DEF Read, PollRx
    <3>2. said'  BY <3>1
    <3> QED  BY <2>1, <2>2, <3>1, <3>2 DEF AwakeInv
  <2> QED  BY <2>3, <2>4
<1>11. CASE Take
  <2>1. shell' = "read" /\ sem' = sem - 1 /\ sem > 0 /\ mine' = mine  BY <1>11 DEF Take
  <2>2. sem' \in Nat /\ mine  BY <2>1 DEF AwakeInv
  <2> QED  BY <2>1, <2>2 DEF AwakeInv
<1>12. CASE Alloc
  <2>1. UNCHANGED <<sem, shell, mine>> /\ fifo' = EmptyFifo  BY <1>12 DEF Alloc, shellVars
  <2>2. RxLength(fifo)' = 0  BY <2>1, SizesAssumption DEF EmptyFifo, RxLength
  <2> QED  BY <2>1, <2>2 DEF AwakeInv
<1>13. CASE ShellDevice
  <2>1. UNCHANGED <<sem, shell, fifo, rx, isr, hist>> /\ mine' \in BOOLEAN /\ shell = "take" /\ sem = 0
    BY <1>13 DEF ShellDevice, Makes, BtnRuns, rxVars
  <2>2. RxLength(fifo)' = n  BY <2>1, <1>1, <1>2
  <2> QED  BY <2>1, <2>2, <1>1 DEF AwakeInv
<1>14. CASE Open \/ SetInt \/ Opened \/ Close \/ Free \/ SetNull \/ ClrInt \/ Shut \/ Indication
  <2>1. UNCHANGED <<sem, shell, mine, fifo, isr>> /\ (rx' => rx)
    BY <1>14 DEF Open, SetInt, Opened, Close, Free, SetNull, ClrInt, Shut, Indication, shellVars
  <2>2. said => said'
    BY <1>14 DEF Open, SetInt, Opened, Close, Free, SetNull, ClrInt, Shut, Indication
  <2> QED  BY <2>1, <2>2, <1>5
<1> QED  BY <1>6, <1>7, <1>8, <1>9, <1>10, <1>11, <1>12, <1>13, <1>14 DEF Next, Isr, Shell, Btn

\* The shell never sleeps over bytes of its device unannounced, unless rx_indicate was not
\* set when one came or the device was read while open without INT_RX.
THEOREM ShellIsAwake == Spec => []ShellAwake
<1> DEFINE Inv == StageInv /\ HandlerInv /\ TrailInv /\ AwakeInv
<1>1. Init => Inv
  <2>1. Init => AwakeInv  BY DEF Init, AwakeInv
  <2> QED  BY <2>1, StageInit, TrailInit
<1>2. Inv /\ [Next]_vars => Inv'  BY StageStep, HandlerStep, TrailStep, AwakeStep
<1>3. Inv => ShellAwake
  <2>1. SUFFICES ASSUME Inv, mine, shell = "take", rx, Contents(fifo) # <<>>
                 PROVE  sem > 0 \/ isr = "getc" \/ hist \cap {"unannounced", "polled"} # {}
    BY DEF ShellAwake
  <2>2. RxLength(fifo) # 0
    <3>1. Contents(fifo) \in Seq(Nat) /\ Len(Contents(fifo)) = RxLength(fifo)
      BY <2>1, ContentsAre DEF TrailInv
    <3> QED  BY <2>1, <3>1, EmptySeq
  <2> QED  BY <2>1, <2>2 DEF AwakeInv
<1> HIDE DEF Inv
<1> QED  BY <1>1, <1>2, <1>3, PTL DEF Spec

-----------------------------------------------------------------------------
(* The console: the calls of each thread.                                  *)

FinshOps == {"finsh_open", "finsh_close", "finsh_clear", "finsh_assign", "finsh_indicate"}
ConsoleOps == {"console_close", "console_open", "console_assign"}
OwnOps == {"close", "open"}
PrintOps == {"kprintf_begin", "kprintf_end"}

PrintCalls == [op : PrintOps, dev : {NoDevice}]
SwitchCalls == [op : FinshOps \cup ConsoleOps \cup OwnOps, dev : Devices] \cup PrintCalls
VcomCalls == [op : FinshOps \cup ConsoleOps, dev : {"vcom"}] \cup [op : OwnOps, dev : Devices]
                \cup PrintCalls
BootCalls == [op : FinshOps, dev : {"uart1"}] \cup PrintCalls
MainCalls == {Call("main_open", "vcom")}
LogCalls == [op : {"log_begin", "log_end"}, dev : {NoDevice}]

\* The call at place i of what a thread has to do, an idle one behind the end.
CallAt(s, i) == IF i \in 1..Len(s) THEN s[i] ELSE Call("idle", NoDevice)
First(s) == CallAt(s, 1)

To(b, op, d) == b.op = op /\ b.dev = d

\* b is a call that may come after a.  The callers' own close is of the device that the
\* console moved to, unless free is "any".
Follows(free, a, b) ==
    /\ a.op \in {"finsh_open", "finsh_indicate"} =>
          (a.dev = "uart1" /\ b.op = "kprintf_begin") \/ To(b, "console_close", a.dev)
    /\ a.op = "finsh_close" => To(b, "finsh_clear", a.dev)
    /\ a.op = "finsh_clear" => To(b, "finsh_assign", a.dev)
    /\ a.op = "finsh_assign" => To(b, "finsh_indicate", a.dev)
    /\ a.op = "console_close" => To(b, "console_open", a.dev)
    /\ a.op = "console_open" => To(b, "console_assign", a.dev)
    /\ a.op = "console_assign" => b.op = "close" /\ (free = "any" \/ b.dev = a.dev)
    /\ a.op = "close" => To(b, "open", a.dev)
    /\ a.op = "open" => b.op = "kprintf_begin"
    /\ a.op = "kprintf_begin" => b.op = "kprintf_end"
    /\ a.op = "kprintf_end" => b.op \in {"idle", "kprintf_begin", "finsh_open"}
    /\ a.op \in {"main_open", "log_end"} => b.op = "idle"
    /\ a.op = "log_begin" => b.op = "log_end"

Chain(free, s) == \A i \in 1..Len(s) : Follows(free, s[i], CallAt(s, i + 1))

LEMMA NextCall ==
    ASSUME NEW S, NEW s \in Seq(S), s # <<>>, NEW free, Chain(free, s),
           NEW r, r = <<>> \o Tail(s)
    PROVE  /\ First(s) = Head(s) /\ First(s) \in S
           /\ r \in Seq(S) /\ Chain(free, r) /\ Follows(free, First(s), First(r))
<1>1. Len(s) \in Nat /\ Len(s) >= 1 /\ Head(s) = s[1] /\ s[1] \in S
  OBVIOUS
<1>2. r \in Seq(S) /\ Len(r) = Len(s) - 1 /\ \A i \in 1..Len(r) : r[i] = s[i + 1]
  BY <1>1
<1>3. \A i \in 1..(Len(r) + 1) : CallAt(r, i) = CallAt(s, i + 1)
  BY <1>1, <1>2 DEF CallAt
<1>4. First(s) = s[1] /\ First(r) = CallAt(s, 2)
  BY <1>1, <1>2, <1>3 DEF First, CallAt
<1>5. Follows(free, First(s), First(r))
  BY <1>1, <1>4 DEF Chain
<1>6. ASSUME NEW i \in 1..Len(r) PROVE Follows(free, r[i], CallAt(r, i + 1))
  <2>1. i + 1 \in 1..Len(s)  BY <1>1, <1>2
  <2>2. CallAt(r, i + 1) = CallAt(s, (i + 1) + 1)  BY <1>2, <1>3
  <2> QED  BY <2>1, <2>2, <1>2 DEF Chain
<1> QED  BY <1>1, <1>2, <1>4, <1>5, <1>6 DEF Chain

FourCalls(d) == <<Call("finsh_close", d), Call("finsh_clear", d),
                  Call("finsh_assign", d), Call("finsh_indicate", d)>>

LEMMA JoinFour ==
    ASSUME NEW S, NEW u \in Seq(S), NEW v \in Seq(S), Len(u) = 4
    PROVE  /\ u \o v \in Seq(S) /\ Len(u \o v) = 4 + Len(v)
           /\ \A i \in 1..4 : (u \o v)[i] = u[i]
           /\ \A i \in 1..Len(v) : (u \o v)[4 + i] = v[i]
<1>1. /\ u \o v \in Seq(S) /\ Len(u \o v) = 4 + Len(v) /\ Len(v) \in Nat
      /\ \A k \in 1..(4 + Len(v)) : (u \o v)[k] = IF k <= 4 THEN u[k] ELSE v[k - 4]
  <2>1. /\ u \o v \in Seq(S) /\ Len(u \o v) = Len(u) + Len(v)
        /\ \A k \in 1..(Len(u) + Len(v)) : (u \o v)[k] = IF k <= Len(u) THEN u[k] ELSE v[k - Len(u)]
    BY ConcatProperties
  <2>2. Len(v) \in Nat  OBVIOUS
  <2> QED  BY <2>1, <2>2
<1>2. ASSUME NEW i \in 1..Len(v) PROVE (u \o v)[4 + i] = v[i]
  <2>1. 4 + i \in 1..(4 + Len(v)) /\ ~(4 + i <= 4) /\ (4 + i) - 4 = i  BY <1>1
  <2> QED  BY <2>1, <1>1
<1> QED  BY <1>1, <1>2

LEMMA NextFour ==
    ASSUME NEW S, NEW s \in Seq(S), s # <<>>, NEW free, Chain(free, s), NEW d,
           First(s) = Call("finsh_open", d), FourCalls(d) \in Seq(S),
           NEW r, r = FourCalls(d) \o Tail(s)
    PROVE  r \in Seq(S) /\ Chain(free, r) /\ First(r) = Call("finsh_close", d)
<1> DEFINE q == <<>> \o Tail(s)
<1>1. /\ q \in Seq(S) /\ Chain(free, q) /\ Follows(free, First(s), First(q))
  BY NextCall
<1>2. q = Tail(s) /\ Len(q) \in Nat
  <2>1. Tail(s) \in Seq(S)  OBVIOUS
  <2> QED  BY <2>1
<1>3. /\ Len(FourCalls(d)) = 4
      /\ FourCalls(d)[1] = Call("finsh_close", d) /\ FourCalls(d)[2] = Call("finsh_clear", d)
      /\ FourCalls(d)[3] = Call("finsh_assign", d) /\ FourCalls(d)[4] = Call("finsh_indicate", d)
  BY DEF FourCalls
<1> HIDE DEF q
<1>4. /\ r \in Seq(S) /\ Len(r) = 4 + Len(q)
      /\ \A i \in 1..4 : r[i] = FourCalls(d)[i]
      /\ \A i \in 1..Len(q) : r[4 + i] = q[i]
  <2>2. r = FourCalls(d) \o q  BY <1>2
  <2>3. FourCalls(d) \in Seq(S) /\ Len(FourCalls(d)) = 4  BY <1>3
  <2> QED  BY JoinFour, <2>2, <1>1, <1>3
<1>5. \A i \in 1..(Len(q) + 1) : CallAt(r, 4 + i) = CallAt(q, i)
  BY <1>2, <1>4 DEF CallAt
<1>6. \A i \in 1..4 : CallAt(r, i) = FourCalls(d)[i]
  BY <1>2, <1>4 DEF CallAt
<1>7. ASSUME NEW i \in 1..Len(r) PROVE Follows(free, r[i], CallAt(r, i + 1))
  <2>1. CASE i = 1
    <3>1. r[i] = Call("finsh_close", d) /\ CallAt(r, i + 1) = Call("finsh_clear", d)
      BY <2>1, <1>3, <1>4, <1>6
    <3> QED  BY <3>1 DEF Follows, To, Call
  <2>2. CASE i = 2
    <3>1. r[i] = Call("finsh_clear", d) /\ CallAt(r, i + 1) = Call("finsh_assign", d)
      BY <2>2, <1>3, <1>4, <1>6
    <3> QED  BY <3>1 DEF Follows, To, Call
  <2>3. CASE i = 3
    <3>1. r[i] = Call("finsh_assign", d) /\ CallAt(r, i + 1) = Call("finsh_indicate", d)
      BY <2>3, <1>3, <1>4, <1>6
    <3> QED  BY <3>1 DEF Follows, To, Call
  <2>4. CASE i = 4
    <3>1. r[i] = Call("finsh_indicate", d) /\ CallAt(r, i + 1) = First(q)
      BY <2>4, <1>2, <1>3, <1>4, <1>5 DEF First
    <3> QED  BY <3>1, <1>1 DEF Follows, To, Call
  <2>5. CASE i > 4
    <3>1. PICK j \in 1..Len(q) : i = 4 + j
      <4>1. i - 4 \in 1..Len(q) /\ i = 4 + (i - 4)  BY <2>5, <1>2, <1>4
      <4> QED  BY <4>1
    <3>2. r[i] = q[j]  BY <3>1, <1>4
    <3>3. CallAt(r, 4 + (j + 1)) = CallAt(q, j + 1)  BY <3>1, <1>2, <1>5
    <3>4. i + 1 = 4 + (j + 1)  BY <3>1, <1>2
    <3> QED  BY <3>1, <3>2, <3>3, <3>4, <1>1 DEF Chain
  <2> QED  BY <2>1, <2>2, <2>3, <2>4, <2>5, <1>2, <1>4
<1> QED  BY <1>3, <1>4, <1>6, <1>7 DEF Chain, First

\* A join is known by its places.
LEMMA JoinedIs ==
    ASSUME NEW S, NEW u \in Seq(S), NEW v \in Seq(S), NEW w \in Seq(S),
           Len(w) = Len(u) + Len(v), \A i \in 1..Len(u) : w[i] = u[i],
           \A i \in 1..Len(v) : w[Len(u) + i] = v[i]
    PROVE  u \o v = w
<1>1. /\ u \o v \in Seq(S) /\ Len(u \o v) = Len(u) + Len(v)
      /\ \A k \in 1..(Len(u) + Len(v)) : (u \o v)[k] = IF k <= Len(u) THEN u[k] ELSE v[k - Len(u)]
  BY ConcatProperties
<1> DEFINE z == u \o v
<1>2. Len(z) = Len(w) /\ Len(w) \in Nat  BY <1>1
<1>3. ASSUME NEW k \in 1..Len(z) PROVE z[k] = w[k]
  <2>1. z[k] = IF k <= Len(u) THEN u[k] ELSE v[k - Len(u)]  BY <1>1
  <2>2. CASE k <= Len(u)
    <3>1. k \in 1..Len(u)  BY <2>2, <1>1
    <3> QED  BY <2>1, <2>2, <3>1
  <2>3. CASE ~(k <= Len(u))
    <3>1. k - Len(u) \in 1..Len(v) /\ k = Len(u) + (k - Len(u))  BY <2>3, <1>1, <1>2
    <3>2. w[Len(u) + (k - Len(u))] = v[k - Len(u)]  BY <3>1
    <3> QED  BY <2>1, <2>3, <3>1, <3>2
  <2> QED  BY <2>2, <2>3
<1>4. z \in Seq(S)  BY <1>1
<1> HIDE DEF z
<1>5. z = w
  BY <1>2, <1>3, <1>4, SeqEqual
<1> QED  BY <1>5 DEF z

\* The pieces of a long press.
Pieces(a, b, c, d, e, f, g, h, i, j, k, l) ==
    ((((<<a, b>> \o <<c, d>>) \o <<e>>) \o <<f, g, h>>) \o <<i, j>>) \o <<k, l>>
Twelve(a, b, c, d, e, f, g, h, i, j, k, l) == <<a, b, c, d, e, f, g, h, i, j, k, l>>
LEMMA LongJoins ==
    ASSUME NEW a, NEW b, NEW c, NEW d, NEW e, NEW f, NEW g, NEW h, NEW i, NEW j, NEW k, NEW l
    PROVE  Pieces(a, b, c, d, e, f, g, h, i, j, k, l) = Twelve(a, b, c, d, e, f, g, h, i, j, k, l)
<1> DEFINE S == {a, b, c, d, e, f, g, h, i, j, k, l}
<1> HIDE DEF S
<1>0. a \in S /\ b \in S /\ c \in S /\ d \in S /\ e \in S /\ f \in S /\ g \in S /\ h \in S /\ i \in S /\ j \in S /\ k \in S /\ l \in S
  BY DEF S
<1>1. <<a, b>> \o <<c, d>> = <<a, b, c, d>>
  <2>1. <<a, b>> \in Seq(S) /\ <<c, d>> \in Seq(S)
    BY <1>0
  <2>2. <<a, b, c, d>> \in Seq(S)
    BY <1>0
  <2>3. /\ Len(<<a, b, c, d>>) = Len(<<a, b>>) + Len(<<c, d>>)
        /\ \A n \in 1..Len(<<a, b>>) : <<a, b, c, d>>[n] = <<a, b>>[n]
    OBVIOUS
  <2>4. \A n \in 1..Len(<<c, d>>) : <<a, b, c, d>>[Len(<<a, b>>) + n] = <<c, d>>[n]
    OBVIOUS
  <2> QED  BY <2>1, <2>2, <2>3, <2>4, JoinedIs
<1>2. <<a, b, c, d>> \o <<e>> = <<a, b, c, d, e>>
  <2>1. <<a, b, c, d>> \in Seq(S) /\ <<e>> \in Seq(S)
    BY <1>0
  <2>2. <<a, b, c, d, e>> \in Seq(S)
    BY <1>0
  <2>3. /\ Len(<<a, b, c, d, e>>) = Len(<<a, b, c, d>>) + Len(<<e>>)
        /\ \A n \in 1..Len(<<a, b, c, d>>) : <<a, b, c, d, e>>[n] = <<a, b, c, d>>[n]
    OBVIOUS
  <2>4. \A n \in 1..Len(<<e>>) : <<a, b, c, d, e>>[Len(<<a, b, c, d>>) + n] = <<e>>[n]
    OBVIOUS
  <2> QED  BY <2>1, <2>2, <2>3, <2>4, JoinedIs
<1>3. <<a, b, c, d, e>> \o <<f, g, h>> = <<a, b, c, d, e, f, g, h>>
  <2>1. <<a, b, c, d, e>> \in Seq(S) /\ <<f, g, h>> \in Seq(S)
    BY <1>0
  <2>2. <<a, b, c, d, e, f, g, h>> \in Seq(S)
    BY <1>0
  <2>3. /\ Len(<<a, b, c, d, e, f, g, h>>) = Len(<<a, b, c, d, e>>) + Len(<<f, g, h>>)
        /\ \A n \in 1..Len(<<a, b, c, d, e>>) : <<a, b, c, d, e, f, g, h>>[n] = <<a, b, c, d, e>>[n]
    OBVIOUS
  <2>4. \A n \in 1..Len(<<f, g, h>>) : <<a, b, c, d, e, f, g, h>>[Len(<<a, b, c, d, e>>) + n] = <<f, g, h>>[n]
    OBVIOUS
  <2> QED  BY <2>1, <2>2, <2>3, <2>4, JoinedIs
<1>4. <<a, b, c, d, e, f, g, h>> \o <<i, j>> = <<a, b, c, d, e, f, g, h, i, j>>
  <2>1. <<a, b, c, d, e, f, g, h>> \in Seq(S) /\ <<i, j>> \in Seq(S)
    BY <1>0
  <2>2. <<a, b, c, d, e, f, g, h, i, j>> \in Seq(S)
    BY <1>0
  <2>3. /\ Len(<<a, b, c, d, e, f, g, h, i, j>>) = Len(<<a, b, c, d, e, f, g, h>>) + Len(<<i, j>>)
        /\ \A n \in 1..Len(<<a, b, c, d, e, f, g, h>>) : <<a, b, c, d, e, f, g, h, i, j>>[n] = <<a, b, c, d, e, f, g, h>>[n]
    OBVIOUS
  <2>4. \A n \in 1..Len(<<i, j>>) : <<a, b, c, d, e, f, g, h, i, j>>[Len(<<a, b, c, d, e, f, g, h>>) + n] = <<i, j>>[n]
    OBVIOUS
  <2> QED  BY <2>1, <2>2, <2>3, <2>4, JoinedIs
<1>5. <<a, b, c, d, e, f, g, h, i, j>> \o <<k, l>> = <<a, b, c, d, e, f, g, h, i, j, k, l>>
  <2>1. <<a, b, c, d, e, f, g, h, i, j>> \in Seq(S) /\ <<k, l>> \in Seq(S)
    BY <1>0
  <2>2. <<a, b, c, d, e, f, g, h, i, j, k, l>> \in Seq(S)
    BY <1>0
  <2>3. /\ Len(<<a, b, c, d, e, f, g, h, i, j, k, l>>) = Len(<<a, b, c, d, e, f, g, h, i, j>>) + Len(<<k, l>>)
        /\ \A n \in 1..Len(<<a, b, c, d, e, f, g, h, i, j>>) : <<a, b, c, d, e, f, g, h, i, j, k, l>>[n] = <<a, b, c, d, e, f, g, h, i, j>>[n]
    OBVIOUS
  <2>4. \A n \in 1..Len(<<k, l>>) : <<a, b, c, d, e, f, g, h, i, j, k, l>>[Len(<<a, b, c, d, e, f, g, h, i, j>>) + n] = <<k, l>>[n]
    OBVIOUS
  <2> QED  BY <2>1, <2>2, <2>3, <2>4, JoinedIs
<1> QED  BY <1>1, <1>2, <1>3, <1>4, <1>5 DEF Pieces, Twelve

\* Those of change_print.
LEMMA ChangeJoins ==
    ASSUME NEW a, NEW b, NEW c, NEW d, NEW e, NEW f, NEW g, NEW h
    PROVE  ((<<a>> \o <<b, c, d>>) \o <<e, f>>) \o <<g, h>>
           = <<a, b, c, d, e, f, g, h>>
<1> DEFINE S == {a, b, c, d, e, f, g, h}
<1> HIDE DEF S
<1>0. a \in S /\ b \in S /\ c \in S /\ d \in S /\ e \in S /\ f \in S /\ g \in S /\ h \in S
  BY DEF S
<1>1. <<a>> \o <<b, c, d>> = <<a, b, c, d>>
  <2>1. <<a>> \in Seq(S) /\ <<b, c, d>> \in Seq(S)
    BY <1>0
  <2>2. <<a, b, c, d>> \in Seq(S)
    BY <1>0
  <2>3. /\ Len(<<a, b, c, d>>) = Len(<<a>>) + Len(<<b, c, d>>)
        /\ \A n \in 1..Len(<<a>>) : <<a, b, c, d>>[n] = <<a>>[n]
    OBVIOUS
  <2>4. \A n \in 1..Len(<<b, c, d>>) : <<a, b, c, d>>[Len(<<a>>) + n] = <<b, c, d>>[n]
    OBVIOUS
  <2> QED  BY <2>1, <2>2, <2>3, <2>4, JoinedIs
<1>2. <<a, b, c, d>> \o <<e, f>> = <<a, b, c, d, e, f>>
  <2>1. <<a, b, c, d>> \in Seq(S) /\ <<e, f>> \in Seq(S)
    BY <1>0
  <2>2. <<a, b, c, d, e, f>> \in Seq(S)
    BY <1>0
  <2>3. /\ Len(<<a, b, c, d, e, f>>) = Len(<<a, b, c, d>>) + Len(<<e, f>>)
        /\ \A n \in 1..Len(<<a, b, c, d>>) : <<a, b, c, d, e, f>>[n] = <<a, b, c, d>>[n]
    OBVIOUS
  <2>4. \A n \in 1..Len(<<e, f>>) : <<a, b, c, d, e, f>>[Len(<<a, b, c, d>>) + n] = <<e, f>>[n]
    OBVIOUS
  <2> QED  BY <2>1, <2>2, <2>3, <2>4, JoinedIs
<1>3. <<a, b, c, d, e, f>> \o <<g, h>> = <<a, b, c, d, e, f, g, h>>
  <2>1. <<a, b, c, d, e, f>> \in Seq(S) /\ <<g, h>> \in Seq(S)
    BY <1>0
  <2>2. <<a, b, c, d, e, f, g, h>> \in Seq(S)
    BY <1>0
  <2>3. /\ Len(<<a, b, c, d, e, f, g, h>>) = Len(<<a, b, c, d, e, f>>) + Len(<<g, h>>)
        /\ \A n \in 1..Len(<<a, b, c, d, e, f>>) : <<a, b, c, d, e, f, g, h>>[n] = <<a, b, c, d, e, f>>[n]
    OBVIOUS
  <2>4. \A n \in 1..Len(<<g, h>>) : <<a, b, c, d, e, f, g, h>>[Len(<<a, b, c, d, e, f>>) + n] = <<g, h>>[n]
    OBVIOUS
  <2> QED  BY <2>1, <2>2, <2>3, <2>4, JoinedIs
<1> QED  BY <1>1, <1>2, <1>3

\* Those of the shell's start.
LEMMA BootJoins ==
    ASSUME NEW a, NEW b, NEW c
    PROVE  <<a>> \o <<b, c>>
           = <<a, b, c>>
<1> DEFINE S == {a, b, c}
<1> HIDE DEF S
<1>0. a \in S /\ b \in S /\ c \in S
  BY DEF S
<1>1. <<a>> \o <<b, c>> = <<a, b, c>>
  <2>1. <<a>> \in Seq(S) /\ <<b, c>> \in Seq(S)
    BY <1>0
  <2>2. <<a, b, c>> \in Seq(S)
    BY <1>0
  <2>3. /\ Len(<<a, b, c>>) = Len(<<a>>) + Len(<<b, c>>)
        /\ \A n \in 1..Len(<<a>>) : <<a, b, c>>[n] = <<a>>[n]
    OBVIOUS
  <2>4. \A n \in 1..Len(<<b, c>>) : <<a, b, c>>[Len(<<a>>) + n] = <<b, c>>[n]
    OBVIOUS
  <2> QED  BY <2>1, <2>2, <2>3, <2>4, JoinedIs
<1> QED  BY <1>1

\* The programs of the threads.
Long(d) ==
    <<Call("kprintf_begin", NoDevice), Call("kprintf_end", NoDevice),
      Call("kprintf_begin", NoDevice), Call("kprintf_end", NoDevice),
      Call("finsh_open", d), Call("console_close", d), Call("console_open", d),
      Call("console_assign", d), Call("close", d), Call("open", d),
      Call("kprintf_begin", NoDevice), Call("kprintf_end", NoDevice)>>
Change(d) ==
    <<Call("finsh_open", "vcom"), Call("console_close", "vcom"), Call("console_open", "vcom"),
      Call("console_assign", "vcom"), Call("close", d), Call("open", d),
      Call("kprintf_begin", NoDevice), Call("kprintf_end", NoDevice)>>
Booting ==
    <<Call("finsh_open", "uart1"), Call("kprintf_begin", NoDevice), Call("kprintf_end", NoDevice)>>
Logging == <<Call("log_begin", NoDevice), Call("log_end", NoDevice)>>

LEMMA Programs ==
    ASSUME NEW d \in Devices
    PROVE  /\ LongPress(d) = Long(d) /\ ChangePrint(d) = Change(d)
           /\ FinshSetDevice("uart1") \o Kprintf = Booting
<1> DEFINE kb == Call("kprintf_begin", NoDevice)
           ke == Call("kprintf_end", NoDevice)
           fo(x) == Call("finsh_open", x)
           cc(x) == Call("console_close", x)
           co(x) == Call("console_open", x)
           ca(x) == Call("console_assign", x)
           cl == Call("close", d)
           op == Call("open", d)
<1>2. /\ LongPress(d) = (((((<<kb, ke>> \o <<kb, ke>>) \o <<fo(d)>>) \o <<cc(d), co(d), ca(d)>>)
                             \o <<cl, op>>) \o <<kb, ke>>)
      /\ ChangePrint(d) = ((<<fo("vcom")>> \o <<cc("vcom"), co("vcom"), ca("vcom")>>)
                             \o <<cl, op>>) \o <<kb, ke>>
      /\ FinshSetDevice("uart1") \o Kprintf = <<fo("uart1")>> \o <<kb, ke>>
  BY DEF LongPress, ChangePrint, Kprintf, FinshSetDevice, ConsoleSetDevice
<1>3. /\ Long(d) = <<kb, ke, kb, ke, fo(d), cc(d), co(d), ca(d), cl, op, kb, ke>>
      /\ Change(d) = <<fo("vcom"), cc("vcom"), co("vcom"), ca("vcom"), cl, op, kb, ke>>
      /\ Booting = <<fo("uart1"), kb, ke>>
  BY DEF Long, Change, Booting
<1> HIDE DEF kb, ke, fo, cc, co, ca, cl, op
<1>4. LongPress(d) = Long(d)
  <2>1. Pieces(kb, ke, kb, ke, fo(d), cc(d), co(d), ca(d), cl, op, kb, ke)
           = Twelve(kb, ke, kb, ke, fo(d), cc(d), co(d), ca(d), cl, op, kb, ke)
    BY LongJoins
  <2> QED  BY <1>2, <1>3, <2>1 DEF Pieces, Twelve
<1>5. ChangePrint(d) = Change(d)
  <2>1. ((<<fo("vcom")>> \o <<cc("vcom"), co("vcom"), ca("vcom")>>) \o <<cl, op>>) \o <<kb, ke>>
           = <<fo("vcom"), cc("vcom"), co("vcom"), ca("vcom"), cl, op, kb, ke>>
    BY ChangeJoins
  <2> QED  BY <1>2, <1>3, <2>1
<1>6. FinshSetDevice("uart1") \o Kprintf = Booting
  <2>1. <<fo("uart1")>> \o <<kb, ke>> = <<fo("uart1"), kb, ke>>
    BY BootJoins
  <2> QED  BY <1>2, <1>3, <2>1
<1> QED  BY <1>4, <1>5, <1>6

LEMMA LongIs ==
    ASSUME NEW d \in Devices, NEW free
    PROVE  /\ Long(d) \in Seq(SwitchCalls) /\ Chain(free, Long(d))
           /\ First(Long(d)) = Call("kprintf_begin", NoDevice)
<1>1. Long(d) \in Seq(SwitchCalls)
  BY DEF Long, SwitchCalls, Call, PrintCalls, PrintOps, FinshOps, ConsoleOps, OwnOps
<1>2. Len(Long(d)) = 12
  BY DEF Long
<1>3. ASSUME NEW i \in 1..12 PROVE Follows(free, Long(d)[i], CallAt(Long(d), i + 1))
  <2>1. i < 12 => CallAt(Long(d), i + 1) = Long(d)[i + 1]  BY <1>2 DEF CallAt
  <2>2. i = 12 => CallAt(Long(d), i + 1) = Call("idle", NoDevice)  BY <1>2 DEF CallAt
  <2> QED  BY <2>1, <2>2 DEF Long, Follows, To, Call
<1>4. First(Long(d)) = Long(d)[1]
  BY <1>2 DEF First, CallAt
<1> QED  BY <1>1, <1>2, <1>3, <1>4 DEF Chain, Long

LEMMA ChangeIs ==
    ASSUME NEW d \in Devices, NEW free, free = "any" \/ d = "vcom"
    PROVE  /\ Change(d) \in Seq(VcomCalls) /\ Chain(free, Change(d))
           /\ First(Change(d)) = Call("finsh_open", "vcom")
<1>1. Change(d) \in Seq(VcomCalls)
  BY DEF Change, VcomCalls, Call, PrintCalls, PrintOps, FinshOps, ConsoleOps, OwnOps
<1>2. Len(Change(d)) = 8
  BY DEF Change
<1>3. ASSUME NEW i \in 1..8 PROVE Follows(free, Change(d)[i], CallAt(Change(d), i + 1))
  <2>1. i < 8 => CallAt(Change(d), i + 1) = Change(d)[i + 1]  BY <1>2 DEF CallAt
  <2>2. i = 8 => CallAt(Change(d), i + 1) = Call("idle", NoDevice)  BY <1>2 DEF CallAt
  <2> QED  BY <2>1, <2>2 DEF Change, Follows, To, Call
<1>4. First(Change(d)) = Change(d)[1]
  BY <1>2 DEF First, CallAt
<1> QED  BY <1>1, <1>2, <1>3, <1>4 DEF Chain, Change

LEMMA BootingIs ==
    ASSUME NEW free
    PROVE
    /\ Booting \in Seq(BootCalls) /\ Chain(free, Booting)
    /\ First(Booting) = Call("finsh_open", "uart1")
<1>1. Booting \in Seq(BootCalls)
  BY DEF Booting, BootCalls, Call, PrintCalls, PrintOps, FinshOps
<1>2. /\ Len(Booting) = 3 /\ Booting[1] = Call("finsh_open", "uart1")
      /\ Booting[2] = Call("kprintf_begin", NoDevice) /\ Booting[3] = Call("kprintf_end", NoDevice)
  BY DEF Booting
<1>3. /\ CallAt(Booting, 2) = Call("kprintf_begin", NoDevice)
      /\ CallAt(Booting, 3) = Call("kprintf_end", NoDevice)
      /\ CallAt(Booting, 4) = Call("idle", NoDevice) /\ First(Booting) = Call("finsh_open", "uart1")
  BY <1>2 DEF CallAt, First
<1>4. ASSUME NEW i \in 1..Len(Booting) PROVE Follows(free, Booting[i], CallAt(Booting, i + 1))
  <2>1. CASE i = 1  BY <2>1, <1>2, <1>3 DEF Follows, To, Call
  <2>2. CASE i = 2  BY <2>2, <1>2, <1>3 DEF Follows, To, Call
  <2>3. CASE i = 3  BY <2>3, <1>2, <1>3 DEF Follows, To, Call
  <2> QED  BY <2>1, <2>2, <2>3, <1>2
<1> QED  BY <1>1, <1>3, <1>4 DEF Chain

LEMMA ShortIs ==
    ASSUME NEW free
    PROVE
    /\ Logging \in Seq(LogCalls) /\ Chain(free, Logging)
    /\ First(Logging) = Call("log_begin", NoDevice)
    /\ <<Call("main_open", "vcom")>> \in Seq(MainCalls)
    /\ Chain(free, <<Call("main_open", "vcom")>>)
    /\ First(<<Call("main_open", "vcom")>>) = Call("main_open", "vcom")
    /\ \A S : <<>> \in Seq(S)
    /\ Chain(free, <<>>)
    /\ First(<<>>) = Call("idle", NoDevice)
<1>1. Logging \in Seq(LogCalls)
  BY DEF Logging, LogCalls, Call
<1>2. /\ Len(Logging) = 2 /\ Logging[1] = Call("log_begin", NoDevice)
      /\ Logging[2] = Call("log_end", NoDevice)
  BY DEF Logging
<1>3. /\ CallAt(Logging, 2) = Call("log_end", NoDevice)
      /\ CallAt(Logging, 3) = Call("idle", NoDevice) /\ First(Logging) = Call("log_begin", NoDevice)
  BY <1>2 DEF CallAt, First
<1>4. Chain(free, Logging)
  <2>2. ASSUME NEW i \in 1..Len(Logging) PROVE Follows(free, Logging[i], CallAt(Logging, i + 1))
    <3>1. CASE i = 1  BY <3>1, <1>2, <1>3 DEF Follows, To, Call
    <3>2. CASE i = 2  BY <3>2, <1>2, <1>3 DEF Follows, To, Call
    <3> QED  BY <3>1, <3>2, <1>2
  <2> QED  BY <2>2 DEF Chain
<1>5. /\ <<Call("main_open", "vcom")>> \in Seq(MainCalls)
      /\ Chain(free, <<Call("main_open", "vcom")>>)
      /\ First(<<Call("main_open", "vcom")>>) = Call("main_open", "vcom")
  BY DEF MainCalls, Chain, Follows, First, CallAt, To, Call
<1>6. (\A S : <<>> \in Seq(S)) /\ Chain(free, <<>>) /\ First(<<>>) = Call("idle", NoDevice)
  BY DEF Chain, First, CallAt
<1> QED  BY <1>1, <1>3, <1>4, <1>5, <1>6

-----------------------------------------------------------------------------
(* Where the threads are.                                                  *)

At(t) == First(calls[t])
Does(t, op) == At(t).op = op

CallsOf == [main |-> MainCalls, tshell |-> SwitchCalls, tBtn |-> SwitchCalls, ulog |-> LogCalls]

\* change_print may have been given any device.
Freedom(t) == IF t = "tshell" /\ misnamed THEN "any" ELSE "same"

CallsInv ==
    /\ DOMAIN calls = Threads /\ calls = [t \in Threads |-> calls[t]]
    /\ misnamed \in BOOLEAN /\ overlap \in BOOLEAN
    /\ \A t \in Threads : calls[t] \in Seq(CallsOf[t]) /\ Chain(Freedom(t), calls[t])

\* Thread t has made its call op, and has more to do before the others.
Stepped(t, op) ==
    /\ At(t).op = op /\ Arg(t) = At(t).dev /\ At(t) \in CallsOf[t]
    /\ \A u \in Threads \ {t} : calls'[u] = calls[u]
    /\ \A u \in Threads : Priority[u] < Priority[t] => Does(u, "idle")

LEMMA IdleIs ==
    ASSUME CallsInv, NEW t \in Threads
    PROVE  /\ calls[t] = <<>> <=> Does(t, "idle")
           /\ ~Does(t, "idle") => At(t) \in CallsOf[t]
<1>1. calls[t] \in Seq(CallsOf[t])
  BY DEF CallsInv
<1>2. \A c \in CallsOf[t] : c.op # "idle"
  <2>1. /\ (\A c \in MainCalls : c.op # "idle") /\ \A c \in LogCalls : c.op # "idle"
        /\ \A c \in SwitchCalls : c.op # "idle"
    BY DEF MainCalls, SwitchCalls, LogCalls, Call, FinshOps, ConsoleOps, OwnOps, PrintCalls,
       PrintOps
  <2>2. CallsOf[t] \in {MainCalls, LogCalls, SwitchCalls}
    BY DEF CallsOf, Threads
  <2> QED  BY <2>1, <2>2
<1>3. CASE calls[t] = <<>>
  BY <1>3 DEF Does, At, First, CallAt, Call
<1>4. CASE calls[t] # <<>>
  <2>1. At(t) = calls[t][1] /\ calls[t][1] \in CallsOf[t]
    BY <1>1, <1>4 DEF At, First, CallAt
  <2> QED  BY <1>2, <1>4, <2>1 DEF Does
<1> QED  BY <1>3, <1>4

LEMMA RunsIs ==
    ASSUME CallsInv, NEW t \in Threads, Runs(t)
    PROVE  \A u \in Threads : Priority[u] < Priority[t] => Does(u, "idle")
BY IdleIs DEF Runs, Busy

LEMMA CallMade ==
    ASSUME CallsInv, misnamed' = misnamed, overlap' = overlap, NEW t \in Threads, NEW op,
           MakesCall(t, op, <<>>)
    PROVE  /\ CallsInv' /\ Stepped(t, op) /\ Follows(Freedom(t), At(t), First(calls'[t]))
           /\ calls[t] \in Seq(VcomCalls) => calls'[t] \in Seq(VcomCalls)
           /\ calls[t] \in Seq(BootCalls) => calls'[t] \in Seq(BootCalls)
<1>1. /\ calls[t] \in Seq(CallsOf[t]) /\ Chain(Freedom(t), calls[t]) /\ calls[t] # <<>>
      /\ Head(calls[t]).op = op
  BY DEF CallsInv, MakesCall
<1>2. /\ calls' = [u \in Threads |-> calls'[u]] /\ DOMAIN calls' = Threads
      /\ calls'[t] = <<>> \o Tail(calls[t]) /\ \A u \in Threads \ {t} : calls'[u] = calls[u]
  BY DEF CallsInv, MakesCall
<1>3. PICK r : r = calls'[t]
  OBVIOUS
<1>4. /\ First(calls[t]) = Head(calls[t]) /\ First(calls[t]) \in CallsOf[t]
      /\ r \in Seq(CallsOf[t]) /\ Chain(Freedom(t), r)
      /\ Follows(Freedom(t), First(calls[t]), First(r))
  BY <1>1, <1>2, <1>3, NextCall
<1>5. /\ calls[t] \in Seq(VcomCalls) => r \in Seq(VcomCalls)
      /\ calls[t] \in Seq(BootCalls) => r \in Seq(BootCalls)
  BY <1>1, <1>2, <1>3, NextCall
<1>6. \A u \in Threads : Freedom(u)' = Freedom(u)
  BY DEF Freedom
<1>7. CallsInv'
  <2>1. ASSUME NEW u \in Threads PROVE calls'[u] \in Seq(CallsOf[u]) /\ Chain(Freedom(u)', calls'[u])
    <3>1. CASE u = t  BY <3>1, <1>3, <1>4, <1>6
    <3>2. CASE u # t  BY <3>2, <1>2, <1>6 DEF CallsInv
    <3> QED  BY <3>1, <3>2
  <2> QED  BY <2>1, <1>2 DEF CallsInv
<1>8. Stepped(t, op)
  BY <1>1, <1>2, <1>4, RunsIs DEF Stepped, At, Arg, MakesCall
<1> QED  BY <1>3, <1>4, <1>5, <1>7, <1>8 DEF At

LEMMA FourMade ==
    ASSUME CallsInv, misnamed' = misnamed, overlap' = overlap, NEW t \in {"tshell", "tBtn"},
           MakesCall(t, "finsh_open", FourCalls(Arg(t)))
    PROVE  /\ CallsInv' /\ Stepped(t, "finsh_open") /\ First(calls'[t]) = Call("finsh_close", Arg(t))
           /\ calls[t] \in Seq(VcomCalls) => calls'[t] \in Seq(VcomCalls)
           /\ calls[t] \in Seq(BootCalls) => calls'[t] \in Seq(BootCalls)
<1> DEFINE d == Arg(t)
<1>1. /\ calls[t] \in Seq(CallsOf[t]) /\ Chain(Freedom(t), calls[t]) /\ calls[t] # <<>>
      /\ Head(calls[t]).op = "finsh_open" /\ t \in Threads /\ CallsOf[t] = SwitchCalls
  BY DEF CallsInv, MakesCall, Threads, CallsOf
<1>2. /\ calls' = [u \in Threads |-> calls'[u]] /\ DOMAIN calls' = Threads
      /\ calls'[t] = FourCalls(d) \o Tail(calls[t]) /\ \A u \in Threads \ {t} : calls'[u] = calls[u]
  BY <1>1 DEF CallsInv, MakesCall
<1>3. PICK r : r = calls'[t]
  OBVIOUS
<1>4. First(calls[t]) = Head(calls[t]) /\ First(calls[t]) \in SwitchCalls
  BY <1>1, NextCall
<1>5. First(calls[t]) = Call("finsh_open", d) /\ d \in Devices
  BY <1>1, <1>4 DEF Arg, Call, SwitchCalls, PrintCalls, PrintOps
<1>6. ASSUME NEW S, calls[t] \in Seq(S), FourCalls(d) \in Seq(S)
      PROVE  r \in Seq(S) /\ Chain(Freedom(t), r) /\ First(r) = Call("finsh_close", d)
  <2>1. PICK s, free : s = calls[t] /\ free = Freedom(t)
    OBVIOUS
  <2>2. s \in Seq(S) /\ s # <<>> /\ Chain(free, s) /\ r = FourCalls(d) \o Tail(s)
    BY <2>1, <1>1, <1>2, <1>3, <1>6
  <2>3. First(s) = Call("finsh_open", d) /\ FourCalls(d) \in Seq(S)
    BY <2>1, <1>5, <1>6
  <2> HIDE DEF d
  <2>4. r \in Seq(S) /\ Chain(free, r) /\ First(r) = Call("finsh_close", d)
    BY <2>2, <2>3, NextFour
  <2> QED  BY <2>1, <2>4
<1>7. /\ FourCalls(d) \in Seq(SwitchCalls)
      /\ d = "vcom" => FourCalls(d) \in Seq(VcomCalls)
      /\ d = "uart1" => FourCalls(d) \in Seq(BootCalls)
  BY <1>5 DEF FourCalls, SwitchCalls, VcomCalls, BootCalls, Call, FinshOps
<1>8. /\ calls[t] \in Seq(VcomCalls) => d = "vcom"
      /\ calls[t] \in Seq(BootCalls) => d = "uart1"
  <2>1. ASSUME NEW S, calls[t] \in Seq(S) PROVE First(calls[t]) \in S
    BY <1>1, <2>1, NextCall
  <2>2. Call("finsh_open", d) \in VcomCalls => d = "vcom"
    BY DEF VcomCalls, Call, OwnOps, PrintCalls, PrintOps
  <2>3. Call("finsh_open", d) \in BootCalls => d = "uart1"
    BY DEF BootCalls, Call, PrintCalls, PrintOps
  <2> QED  BY <2>1, <2>2, <2>3, <1>5
<1>9. \A u \in Threads : Freedom(u)' = Freedom(u)
  BY DEF Freedom
<1>10. CallsInv'
  <2>1. ASSUME NEW u \in Threads PROVE calls'[u] \in Seq(CallsOf[u]) /\ Chain(Freedom(u)', calls'[u])
    <3>1. CASE u = t  BY <3>1, <1>1, <1>3, <1>6, <1>7, <1>9
    <3>2. CASE u # t  BY <3>2, <1>2, <1>9 DEF CallsInv
    <3> QED  BY <3>1, <3>2
  <2> QED  BY <2>1, <1>2 DEF CallsInv
<1>11. Stepped(t, "finsh_open")
  BY <1>1, <1>2, <1>4, RunsIs DEF Stepped, At, Arg, MakesCall
<1> QED  BY <1>1, <1>3, <1>6, <1>7, <1>8, <1>10, <1>11

-----------------------------------------------------------------------------
(* The devices, once the opens and closes under way are complete.          *)

FlagNames == {"OPEN", "STREAM", "INT_RX"}
DeviceState == [ref : Nat, flags : SUBSET FlagNames, rx : BOOLEAN, ind : BOOLEAN]
DeviceStates == [Devices -> DeviceState]

\* The statements of an open and of a close, in their order.
OpenPcs == {"keep_stream", "set_flags", "alloc", "load_int", "or_int", "load_stream", "or_stream",
            "load_open", "or_open", "load_up", "up"}
CountPcs == {"test", "load_down", "down"}
LastPcs == {"more", "int_rx", "free", "load_mask", "mask_int", "clear"}
ClosePcs == CountPcs \cup {"left"} \cup LastPcs

Locals == [pc : OpenPcs \cup ClosePcs \cup {"none"}, dev : Devices \cup {NoDevice},
           oflag : SUBSET RxStream, stream : SUBSET {"STREAM"}, flags : SUBSET FlagNames, ref : Nat]

SaysInt(s) == "INT_RX" \in s

\* A device x, which is d, that can be used for reception has its receive fifo.
Sound(d, x) ==
    /\ x.ref > 0 /\ SaysInt(x.flags) => x.rx
    /\ d = "vcom" /\ "OPEN" \in x.flags => x.rx

\* What a thread with the locals r has done so far to the device, which is x.  "vcom" has
\* its fifo when it is opened without INT_RX, and a close of it is never the last.
SoFar(r, x) ==
    /\ r.pc # "none" => Sound(r.dev, x)
    /\ r.dev = "vcom" =>
          /\ r.pc \in OpenPcs => x.rx \/ SaysInt(r.oflag)
          /\ r.pc \in CountPcs => x.ref > 1
          /\ r.pc = "left" => x.ref > 0
          /\ r.pc \notin LastPcs
    /\ r.pc \in OpenPcs \ {"keep_stream"} => ("STREAM" \in r.oflag => "STREAM" \in r.stream)
    /\ r.pc \in {"alloc", "load_int", "or_int"} => x.flags = r.oflag \cap {"STREAM"}
    /\ r.pc \in {"load_int", "or_int"} => SaysInt(r.oflag)
    /\ r.pc \in {"load_stream", "or_stream"} => x.flags = r.oflag
    /\ r.pc \in {"load_open", "or_open"} => x.flags = r.oflag \cup r.stream
    /\ r.pc \in {"load_up", "up"} => x.flags = r.oflag \cup r.stream \cup {"OPEN"}
    /\ r.pc \in {"or_int", "or_stream", "or_open", "mask_int"} => r.flags = x.flags
    /\ r.pc \in OpenPcs \ {"keep_stream", "set_flags", "alloc"} /\ SaysInt(r.oflag) => x.rx
    /\ r.pc \in {"load_down", "down"} => x.ref # 0
    /\ r.pc \in {"up", "down"} => r.ref = x.ref
    /\ r.pc \in LastPcs => x.ref = 0
    /\ r.pc = "free" => SaysInt(x.flags)
    /\ r.pc \in {"load_mask", "mask_int"} => ~x.rx

\* What its open or close leaves, if nobody else touches the device.
FinalRef(r, x) ==
    IF r.pc \in OpenPcs THEN x.ref + 1
    ELSE IF r.pc \in CountPcs /\ x.ref # 0 THEN x.ref - 1 ELSE x.ref

FinalFlags(r, x) ==
    IF r.pc = "keep_stream" THEN r.oflag \cup (x.flags \cap {"STREAM"}) \cup {"OPEN"}
    ELSE IF r.pc \in OpenPcs THEN r.oflag \cup r.stream \cup {"OPEN"}
    ELSE IF \/ r.pc \in CountPcs /\ x.ref = 1
            \/ r.pc = "left" /\ x.ref = 0
            \/ r.pc \in LastPcs THEN {}
    ELSE x.flags

FinalRx(r, x) ==
    IF r.pc \in {"keep_stream", "set_flags", "alloc"} THEN x.rx \/ SaysInt(r.oflag)
    ELSE IF \/ r.pc \in CountPcs /\ x.ref = 1
            \/ r.pc = "left" /\ x.ref = 0
            \/ r.pc \in {"more", "int_rx", "free"} THEN x.rx /\ ~SaysInt(x.flags)
    ELSE x.rx

Final(r, x) ==
    [ref |-> FinalRef(r, x), flags |-> FinalFlags(r, x), rx |-> FinalRx(r, x), ind |-> x.ind]

\* A statement leaves what will be left at the end as it is.
Goal(r, x, q, y) ==
    /\ q \in Locals /\ y \in DeviceState /\ (q.pc = "none" \/ q.dev = r.dev)
    /\ SoFar(q, y) /\ Final(q, y) = Final(r, x)

Then(r, next) == IF next = "none" THEN Outside ELSE [r EXCEPT !.pc = next]

\* What one statement makes of the locals r and the device x.
Ran(r, x, q, y) ==
    \/ r.pc = "keep_stream" /\ y = x
       /\ q = Then([r EXCEPT !.stream = (r.oflag \cup x.flags) \cap {"STREAM"}], "set_flags")
    \/ r.pc = "set_flags" /\ y = [x EXCEPT !.flags = r.oflag \cap {"STREAM"}]
       /\ q = Then(r, "alloc")
    \/ r.pc = "alloc" /\ y = [x EXCEPT !.rx = x.rx \/ SaysInt(r.oflag)]
       /\ q = Then(r, IF SaysInt(r.oflag) THEN "load_int" ELSE "load_stream")
    \/ r.pc = "load_int" /\ y = x
       /\ q = Then([r EXCEPT !.flags = x.flags], "or_int")
    \/ r.pc = "load_stream" /\ y = x
       /\ q = Then([r EXCEPT !.flags = x.flags], "or_stream")
    \/ r.pc = "load_open" /\ y = x
       /\ q = Then([r EXCEPT !.flags = x.flags], "or_open")
    \/ r.pc = "load_mask" /\ y = x
       /\ q = Then([r EXCEPT !.flags = x.flags], "mask_int")
    \/ r.pc = "or_int" /\ y = [x EXCEPT !.flags = r.flags \cup {"INT_RX"}]
       /\ q = Then(r, "load_stream")
    \/ r.pc = "or_stream" /\ y = [x EXCEPT !.flags = r.flags \cup r.stream]
       /\ q = Then(r, "load_open")
    \/ r.pc = "or_open" /\ y = [x EXCEPT !.flags = r.flags \cup {"OPEN"}]
       /\ q = Then(r, "load_up")
    \/ r.pc = "load_up" /\ y = x
       /\ q = Then([r EXCEPT !.ref = x.ref], "up")
    \/ r.pc = "load_down" /\ y = x
       /\ q = Then([r EXCEPT !.ref = x.ref], "down")
    \/ r.pc = "up" /\ y = [x EXCEPT !.ref = r.ref + 1]
       /\ q = Outside
    \/ r.pc = "test" /\ y = x
       /\ q = Then(r, IF x.ref = 0 THEN "none" ELSE "load_down")
    \/ r.pc = "down" /\ y = [x EXCEPT !.ref = IF r.ref = 0 THEN 255 ELSE r.ref - 1]
       /\ q = Then(r, "left")
    \/ r.pc = "left" /\ y = x
       /\ q = Then(r, IF x.ref # 0 THEN "none" ELSE "more")
    \/ r.pc = "more" /\ y = x
       /\ q = Then(r, IF x.ref > 1 THEN "clear" ELSE "int_rx")
    \/ r.pc = "int_rx" /\ y = x
       /\ q = Then(r, IF SaysInt(x.flags) THEN "free" ELSE "clear")
    \/ r.pc = "free" /\ y = [x EXCEPT !.rx = FALSE]
       /\ q = Then(r, "load_mask")
    \/ r.pc = "mask_int" /\ y = [x EXCEPT !.flags = r.flags \ {"INT_RX"}]
       /\ q = Then(r, "clear")
    \/ r.pc = "clear" /\ y = [x EXCEPT !.flags = {}]
       /\ q = Outside

LEMMA RanKeeps ==
    ASSUME NEW r \in Locals, NEW x \in DeviceState, SoFar(r, x), NEW q, NEW y, Ran(r, x, q, y)
    PROVE  Goal(r, x, q, y)
<1> USE DEF Then, Outside, Locals, DeviceState, OpenPcs, CountPcs, LastPcs, ClosePcs, SaysInt,
            FlagNames, RxStream, Sound, SoFar
<1>1. ~SaysInt(r.oflag) => r.oflag \cap {"STREAM"} = r.oflag
  OBVIOUS
<1>2. CASE r.pc = "keep_stream"
  <2>1. /\ y = x
        /\ q = Then([r EXCEPT !.stream = (r.oflag \cup x.flags) \cap {"STREAM"}], "set_flags")
    BY <1>2 DEF Ran
  <2> USE <1>2, <2>1
  <2>2. q \in Locals  OBVIOUS
  <2>3. y \in DeviceState /\ y.ind = x.ind /\ (q.pc = "none" \/ q.dev = r.dev)  OBVIOUS
  <2>4. SoFar(q, y)  BY <1>1
  <2>5. FinalRef(q, y) = FinalRef(r, x)  BY DEF FinalRef
  <2>6. FinalFlags(q, y) = FinalFlags(r, x)  BY DEF FinalFlags
  <2>7. FinalRx(q, y) = FinalRx(r, x)  BY DEF FinalRx
  <2> QED  BY <2>2, <2>3, <2>4, <2>5, <2>6, <2>7 DEF Goal, Final
<1>3. CASE r.pc = "set_flags"
  <2>1. /\ y = [x EXCEPT !.flags = r.oflag \cap {"STREAM"}]
        /\ q = Then(r, "alloc")
    BY <1>3 DEF Ran
  <2> USE <1>3, <2>1
  <2>2. q \in Locals  OBVIOUS
  <2>3. y \in DeviceState /\ y.ind = x.ind /\ (q.pc = "none" \/ q.dev = r.dev)  OBVIOUS
  <2>4. SoFar(q, y)  BY <1>1
  <2>5. FinalRef(q, y) = FinalRef(r, x)  BY DEF FinalRef
  <2>6. FinalFlags(q, y) = FinalFlags(r, x)  BY DEF FinalFlags
  <2>7. FinalRx(q, y) = FinalRx(r, x)  BY DEF FinalRx
  <2> QED  BY <2>2, <2>3, <2>4, <2>5, <2>6, <2>7 DEF Goal, Final
<1>4. CASE r.pc = "alloc"
  <2>1. /\ y = [x EXCEPT !.rx = x.rx \/ SaysInt(r.oflag)]
        /\ q = Then(r, IF SaysInt(r.oflag) THEN "load_int" ELSE "load_stream")
    BY <1>4 DEF Ran
  <2> USE <1>4, <2>1
  <2>2. q \in Locals  OBVIOUS
  <2>3. y \in DeviceState /\ y.ind = x.ind /\ (q.pc = "none" \/ q.dev = r.dev)  OBVIOUS
  <2>4. SoFar(q, y)  BY <1>1
  <2>5. FinalRef(q, y) = FinalRef(r, x)  BY DEF FinalRef
  <2>6. FinalFlags(q, y) = FinalFlags(r, x)  BY DEF FinalFlags
  <2>7. FinalRx(q, y) = FinalRx(r, x)  BY DEF FinalRx
  <2> QED  BY <2>2, <2>3, <2>4, <2>5, <2>6, <2>7 DEF Goal, Final
<1>5. CASE r.pc = "load_int"
  <2>1. /\ y = x
        /\ q = Then([r EXCEPT !.flags = x.flags], "or_int")
    BY <1>5 DEF Ran
  <2> USE <1>5, <2>1
  <2>2. q \in Locals  OBVIOUS
  <2>3. y \in DeviceState /\ y.ind = x.ind /\ (q.pc = "none" \/ q.dev = r.dev)  OBVIOUS
  <2>4. SoFar(q, y)  BY <1>1
  <2>5. FinalRef(q, y) = FinalRef(r, x)  BY DEF FinalRef
  <2>6. FinalFlags(q, y) = FinalFlags(r, x)  BY DEF FinalFlags
  <2>7. FinalRx(q, y) = FinalRx(r, x)  BY DEF FinalRx
  <2> QED  BY <2>2, <2>3, <2>4, <2>5, <2>6, <2>7 DEF Goal, Final
<1>6. CASE r.pc = "load_stream"
  <2>1. /\ y = x
        /\ q = Then([r EXCEPT !.flags = x.flags], "or_stream")
    BY <1>6 DEF Ran
  <2> USE <1>6, <2>1
  <2>2. q \in Locals  OBVIOUS
  <2>3. y \in DeviceState /\ y.ind = x.ind /\ (q.pc = "none" \/ q.dev = r.dev)  OBVIOUS
  <2>4. SoFar(q, y)  BY <1>1
  <2>5. FinalRef(q, y) = FinalRef(r, x)  BY DEF FinalRef
  <2>6. FinalFlags(q, y) = FinalFlags(r, x)  BY DEF FinalFlags
  <2>7. FinalRx(q, y) = FinalRx(r, x)  BY DEF FinalRx
  <2> QED  BY <2>2, <2>3, <2>4, <2>5, <2>6, <2>7 DEF Goal, Final
<1>7. CASE r.pc = "load_open"
  <2>1. /\ y = x
        /\ q = Then([r EXCEPT !.flags = x.flags], "or_open")
    BY <1>7 DEF Ran
  <2> USE <1>7, <2>1
  <2>2. q \in Locals  OBVIOUS
  <2>3. y \in DeviceState /\ y.ind = x.ind /\ (q.pc = "none" \/ q.dev = r.dev)  OBVIOUS
  <2>4. SoFar(q, y)  BY <1>1
  <2>5. FinalRef(q, y) = FinalRef(r, x)  BY DEF FinalRef
  <2>6. FinalFlags(q, y) = FinalFlags(r, x)  BY DEF FinalFlags
  <2>7. FinalRx(q, y) = FinalRx(r, x)  BY DEF FinalRx
  <2> QED  BY <2>2, <2>3, <2>4, <2>5, <2>6, <2>7 DEF Goal, Final
<1>8. CASE r.pc = "load_mask"
  <2>1. /\ y = x
        /\ q = Then([r EXCEPT !.flags = x.flags], "mask_int")
    BY <1>8 DEF Ran
  <2> USE <1>8, <2>1
  <2>2. q \in Locals  OBVIOUS
  <2>3. y \in DeviceState /\ y.ind = x.ind /\ (q.pc = "none" \/ q.dev = r.dev)  OBVIOUS
  <2>4. SoFar(q, y)  BY <1>1
  <2>5. FinalRef(q, y) = FinalRef(r, x)  BY DEF FinalRef
  <2>6. FinalFlags(q, y) = FinalFlags(r, x)  BY DEF FinalFlags
  <2>7. FinalRx(q, y) = FinalRx(r, x)  BY DEF FinalRx
  <2> QED  BY <2>2, <2>3, <2>4, <2>5, <2>6, <2>7 DEF Goal, Final
<1>9. CASE r.pc = "or_int"
  <2>1. /\ y = [x EXCEPT !.flags = r.flags \cup {"INT_RX"}]
        /\ q = Then(r, "load_stream")
    BY <1>9 DEF Ran
  <2> USE <1>9, <2>1
  <2>2. q \in Locals  OBVIOUS
  <2>3. y \in DeviceState /\ y.ind = x.ind /\ (q.pc = "none" \/ q.dev = r.dev)  OBVIOUS
  <2>4. SoFar(q, y)  BY <1>1
  <2>5. FinalRef(q, y) = FinalRef(r, x)  BY DEF FinalRef
  <2>6. FinalFlags(q, y) = FinalFlags(r, x)  BY DEF FinalFlags
  <2>7. FinalRx(q, y) = FinalRx(r, x)  BY DEF FinalRx
  <2> QED  BY <2>2, <2>3, <2>4, <2>5, <2>6, <2>7 DEF Goal, Final
<1>10. CASE r.pc = "or_stream"
  <2>1. /\ y = [x EXCEPT !.flags = r.flags \cup r.stream]
        /\ q = Then(r, "load_open")
    BY <1>10 DEF Ran
  <2> USE <1>10, <2>1
  <2>2. q \in Locals  OBVIOUS
  <2>3. y \in DeviceState /\ y.ind = x.ind /\ (q.pc = "none" \/ q.dev = r.dev)  OBVIOUS
  <2>4. SoFar(q, y)  BY <1>1
  <2>5. FinalRef(q, y) = FinalRef(r, x)  BY DEF FinalRef
  <2>6. FinalFlags(q, y) = FinalFlags(r, x)  BY DEF FinalFlags
  <2>7. FinalRx(q, y) = FinalRx(r, x)  BY DEF FinalRx
  <2> QED  BY <2>2, <2>3, <2>4, <2>5, <2>6, <2>7 DEF Goal, Final
<1>11. CASE r.pc = "or_open"
  <2>1. /\ y = [x EXCEPT !.flags = r.flags \cup {"OPEN"}]
        /\ q = Then(r, "load_up")
    BY <1>11 DEF Ran
  <2> USE <1>11, <2>1
  <2>2. q \in Locals  OBVIOUS
  <2>3. y \in DeviceState /\ y.ind = x.ind /\ (q.pc = "none" \/ q.dev = r.dev)  OBVIOUS
  <2>4. SoFar(q, y)  BY <1>1
  <2>5. FinalRef(q, y) = FinalRef(r, x)  BY DEF FinalRef
  <2>6. FinalFlags(q, y) = FinalFlags(r, x)  BY DEF FinalFlags
  <2>7. FinalRx(q, y) = FinalRx(r, x)  BY DEF FinalRx
  <2> QED  BY <2>2, <2>3, <2>4, <2>5, <2>6, <2>7 DEF Goal, Final
<1>12. CASE r.pc = "load_up"
  <2>1. /\ y = x
        /\ q = Then([r EXCEPT !.ref = x.ref], "up")
    BY <1>12 DEF Ran
  <2> USE <1>12, <2>1
  <2>2. q \in Locals  OBVIOUS
  <2>3. y \in DeviceState /\ y.ind = x.ind /\ (q.pc = "none" \/ q.dev = r.dev)  OBVIOUS
  <2>4. SoFar(q, y)  BY <1>1
  <2>5. FinalRef(q, y) = FinalRef(r, x)  BY DEF FinalRef
  <2>6. FinalFlags(q, y) = FinalFlags(r, x)  BY DEF FinalFlags
  <2>7. FinalRx(q, y) = FinalRx(r, x)  BY DEF FinalRx
  <2> QED  BY <2>2, <2>3, <2>4, <2>5, <2>6, <2>7 DEF Goal, Final
<1>13. CASE r.pc = "load_down"
  <2>1. /\ y = x
        /\ q = Then([r EXCEPT !.ref = x.ref], "down")
    BY <1>13 DEF Ran
  <2> USE <1>13, <2>1
  <2>2. q \in Locals  OBVIOUS
  <2>3. y \in DeviceState /\ y.ind = x.ind /\ (q.pc = "none" \/ q.dev = r.dev)  OBVIOUS
  <2>4. SoFar(q, y)  BY <1>1
  <2>5. FinalRef(q, y) = FinalRef(r, x)  BY DEF FinalRef
  <2>6. FinalFlags(q, y) = FinalFlags(r, x)  BY DEF FinalFlags
  <2>7. FinalRx(q, y) = FinalRx(r, x)  BY DEF FinalRx
  <2> QED  BY <2>2, <2>3, <2>4, <2>5, <2>6, <2>7 DEF Goal, Final
<1>14. CASE r.pc = "up"
  <2>1. /\ y = [x EXCEPT !.ref = r.ref + 1]
        /\ q = Outside
    BY <1>14 DEF Ran
  <2> USE <1>14, <2>1
  <2>2. q \in Locals  OBVIOUS
  <2>3. y \in DeviceState /\ y.ind = x.ind /\ (q.pc = "none" \/ q.dev = r.dev)  OBVIOUS
  <2>4. SoFar(q, y)  BY <1>1
  <2>5. FinalRef(q, y) = FinalRef(r, x)  BY DEF FinalRef
  <2>6. FinalFlags(q, y) = FinalFlags(r, x)  BY DEF FinalFlags
  <2>7. FinalRx(q, y) = FinalRx(r, x)  BY DEF FinalRx
  <2> QED  BY <2>2, <2>3, <2>4, <2>5, <2>6, <2>7 DEF Goal, Final
<1>15. CASE r.pc = "test"
  <2>1. /\ y = x
        /\ q = Then(r, IF x.ref = 0 THEN "none" ELSE "load_down")
    BY <1>15 DEF Ran
  <2> USE <1>15, <2>1
  <2>2. q \in Locals  OBVIOUS
  <2>3. y \in DeviceState /\ y.ind = x.ind /\ (q.pc = "none" \/ q.dev = r.dev)  OBVIOUS
  <2>4. SoFar(q, y)  BY <1>1
  <2>5. FinalRef(q, y) = FinalRef(r, x)  BY DEF FinalRef
  <2>6. FinalFlags(q, y) = FinalFlags(r, x)  BY DEF FinalFlags
  <2>7. FinalRx(q, y) = FinalRx(r, x)  BY DEF FinalRx
  <2> QED  BY <2>2, <2>3, <2>4, <2>5, <2>6, <2>7 DEF Goal, Final
<1>16. CASE r.pc = "down"
  <2>1. /\ y = [x EXCEPT !.ref = IF r.ref = 0 THEN 255 ELSE r.ref - 1]
        /\ q = Then(r, "left")
    BY <1>16 DEF Ran
  <2> USE <1>16, <2>1
  <2>2. q \in Locals  OBVIOUS
  <2>3. y \in DeviceState /\ y.ind = x.ind /\ (q.pc = "none" \/ q.dev = r.dev)  OBVIOUS
  <2>4. SoFar(q, y)  BY <1>1
  <2>5. FinalRef(q, y) = FinalRef(r, x)  BY DEF FinalRef
  <2>6. FinalFlags(q, y) = FinalFlags(r, x)  BY DEF FinalFlags
  <2>7. FinalRx(q, y) = FinalRx(r, x)  BY DEF FinalRx
  <2> QED  BY <2>2, <2>3, <2>4, <2>5, <2>6, <2>7 DEF Goal, Final
<1>17. CASE r.pc = "left"
  <2>1. /\ y = x
        /\ q = Then(r, IF x.ref # 0 THEN "none" ELSE "more")
    BY <1>17 DEF Ran
  <2> USE <1>17, <2>1
  <2>2. q \in Locals  OBVIOUS
  <2>3. y \in DeviceState /\ y.ind = x.ind /\ (q.pc = "none" \/ q.dev = r.dev)  OBVIOUS
  <2>4. SoFar(q, y)  BY <1>1
  <2>5. FinalRef(q, y) = FinalRef(r, x)  BY DEF FinalRef
  <2>6. FinalFlags(q, y) = FinalFlags(r, x)  BY DEF FinalFlags
  <2>7. FinalRx(q, y) = FinalRx(r, x)  BY DEF FinalRx
  <2> QED  BY <2>2, <2>3, <2>4, <2>5, <2>6, <2>7 DEF Goal, Final
<1>18. CASE r.pc = "more"
  <2>1. /\ y = x
        /\ q = Then(r, IF x.ref > 1 THEN "clear" ELSE "int_rx")
    BY <1>18 DEF Ran
  <2> USE <1>18, <2>1
  <2>2. q \in Locals  OBVIOUS
  <2>3. y \in DeviceState /\ y.ind = x.ind /\ (q.pc = "none" \/ q.dev = r.dev)  OBVIOUS
  <2>4. SoFar(q, y)  BY <1>1
  <2>5. FinalRef(q, y) = FinalRef(r, x)  BY DEF FinalRef
  <2>6. FinalFlags(q, y) = FinalFlags(r, x)  BY DEF FinalFlags
  <2>7. FinalRx(q, y) = FinalRx(r, x)  BY DEF FinalRx
  <2> QED  BY <2>2, <2>3, <2>4, <2>5, <2>6, <2>7 DEF Goal, Final
<1>19. CASE r.pc = "int_rx"
  <2>1. /\ y = x
        /\ q = Then(r, IF SaysInt(x.flags) THEN "free" ELSE "clear")
    BY <1>19 DEF Ran
  <2> USE <1>19, <2>1
  <2>2. q \in Locals  OBVIOUS
  <2>3. y \in DeviceState /\ y.ind = x.ind /\ (q.pc = "none" \/ q.dev = r.dev)  OBVIOUS
  <2>4. SoFar(q, y)  BY <1>1
  <2>5. FinalRef(q, y) = FinalRef(r, x)  BY DEF FinalRef
  <2>6. FinalFlags(q, y) = FinalFlags(r, x)  BY DEF FinalFlags
  <2>7. FinalRx(q, y) = FinalRx(r, x)  BY DEF FinalRx
  <2> QED  BY <2>2, <2>3, <2>4, <2>5, <2>6, <2>7 DEF Goal, Final
<1>20. CASE r.pc = "free"
  <2>1. /\ y = [x EXCEPT !.rx = FALSE]
        /\ q = Then(r, "load_mask")
    BY <1>20 DEF Ran
  <2> USE <1>20, <2>1
  <2>2. q \in Locals  OBVIOUS
  <2>3. y \in DeviceState /\ y.ind = x.ind /\ (q.pc = "none" \/ q.dev = r.dev)  OBVIOUS
  <2>4. SoFar(q, y)  BY <1>1
  <2>5. FinalRef(q, y) = FinalRef(r, x)  BY DEF FinalRef
  <2>6. FinalFlags(q, y) = FinalFlags(r, x)  BY DEF FinalFlags
  <2>7. FinalRx(q, y) = FinalRx(r, x)  BY DEF FinalRx
  <2> QED  BY <2>2, <2>3, <2>4, <2>5, <2>6, <2>7 DEF Goal, Final
<1>21. CASE r.pc = "mask_int"
  <2>1. /\ y = [x EXCEPT !.flags = r.flags \ {"INT_RX"}]
        /\ q = Then(r, "clear")
    BY <1>21 DEF Ran
  <2> USE <1>21, <2>1
  <2>2. q \in Locals  OBVIOUS
  <2>3. y \in DeviceState /\ y.ind = x.ind /\ (q.pc = "none" \/ q.dev = r.dev)  OBVIOUS
  <2>4. SoFar(q, y)  BY <1>1
  <2>5. FinalRef(q, y) = FinalRef(r, x)  BY DEF FinalRef
  <2>6. FinalFlags(q, y) = FinalFlags(r, x)  BY DEF FinalFlags
  <2>7. FinalRx(q, y) = FinalRx(r, x)  BY DEF FinalRx
  <2> QED  BY <2>2, <2>3, <2>4, <2>5, <2>6, <2>7 DEF Goal, Final
<1>22. CASE r.pc = "clear"
  <2>1. /\ y = [x EXCEPT !.flags = {}]
        /\ q = Outside
    BY <1>22 DEF Ran
  <2> USE <1>22, <2>1
  <2>2. q \in Locals  OBVIOUS
  <2>3. y \in DeviceState /\ y.ind = x.ind /\ (q.pc = "none" \/ q.dev = r.dev)  OBVIOUS
  <2>4. SoFar(q, y)  BY <1>1
  <2>5. FinalRef(q, y) = FinalRef(r, x)  BY DEF FinalRef
  <2>6. FinalFlags(q, y) = FinalFlags(r, x)  BY DEF FinalFlags
  <2>7. FinalRx(q, y) = FinalRx(r, x)  BY DEF FinalRx
  <2> QED  BY <2>2, <2>3, <2>4, <2>5, <2>6, <2>7 DEF Goal, Final
<1> QED  BY <1>2, <1>3, <1>4, <1>5, <1>6, <1>7, <1>8, <1>9, <1>10, <1>11, <1>12, <1>13, <1>14, <1>15, <1>16, <1>17, <1>18, <1>19, <1>20, <1>21, <1>22 DEF Ran


\* The thread that is inside an open or a close of d.
Completed ==
    [d \in Devices |->
        IF \E u \in Threads : Within(u, d)
          THEN Final(io[CHOOSE u \in Threads : Within(u, d)], devices[d]) ELSE devices[d]]

\* Nobody has met another thread inside an open or a close of the device.
SplitInv ==
    /\ devices \in DeviceStates /\ io \in [Threads -> Locals]
    /\ \A u \in Threads : io[u].pc # "none" => io[u].dev \in Devices /\ SoFar(io[u], devices[io[u].dev])
    /\ \A u, v \in Threads : \A d \in Devices : Within(u, d) /\ Within(v, d) => u = v

LEMMA CompletedIs ==
    ASSUME SplitInv, NEW d \in Devices
    PROVE  /\ \A u \in Threads : Within(u, d) => Completed[d] = Final(io[u], devices[d])
           /\ (\A u \in Threads : ~Within(u, d)) => Completed[d] = devices[d]
<1>1. (\A u \in Threads : ~Within(u, d)) => Completed[d] = devices[d]
  BY DEF Completed
<1>2. ASSUME NEW u \in Threads, Within(u, d) PROVE Completed[d] = Final(io[u], devices[d])
  <2>1. PICK v : v = CHOOSE w \in Threads : Within(w, d)
    OBVIOUS
  <2>2. v \in Threads /\ Within(v, d)
    BY <1>2, <2>1
  <2>3. v = u
    BY <1>2, <2>2 DEF SplitInv
  <2>4. Completed[d] = Final(io[v], devices[d])
    BY <1>2, <2>1 DEF Completed
  <2> QED  BY <2>3, <2>4
<1> QED  BY <1>1, <1>2

LEMMA CompletedNext ==
    ASSUME SplitInv', NEW d \in Devices
    PROVE  /\ \A u \in Threads : Within(u, d)' => Completed'[d] = Final(io'[u], devices'[d])
           /\ (\A u \in Threads : ~Within(u, d)') => Completed'[d] = devices'[d]
<1>1. (\A u \in Threads : ~Within(u, d)') => Completed'[d] = devices'[d]
  BY DEF Completed
<1>2. ASSUME NEW u \in Threads, Within(u, d)' PROVE Completed'[d] = Final(io'[u], devices'[d])
  <2>1. PICK v : v = CHOOSE w \in Threads : Within(w, d)'
    OBVIOUS
  <2>2. v \in Threads /\ Within(v, d)'
    BY <1>2, <2>1
  <2>3. v = u
    BY <1>2, <2>2 DEF SplitInv
  <2>4. Completed'[d] = Final(io'[v], devices'[d])
    BY <1>2, <2>1 DEF Completed
  <2> QED  BY <2>3, <2>4
<1> QED  BY <1>1, <1>2

LEMMA FinalIs ==
    ASSUME NEW r \in Locals, NEW x \in DeviceState
    PROVE  /\ Final(r, x) \in DeviceState
           /\ \A i \in BOOLEAN : Final(r, [x EXCEPT !.ind = i]) = [Final(r, x) EXCEPT !.ind = i]
           /\ \A i \in BOOLEAN : SoFar(r, x) => SoFar(r, [x EXCEPT !.ind = i])
           /\ r.pc = "none" => Final(r, x) = x
<1> USE DEF Locals, DeviceState, FinalRef, FinalFlags, FinalRx, SaysInt, FlagNames, RxStream
<1>1. FinalRef(r, x) \in Nat  OBVIOUS
<1>2. FinalFlags(r, x) \in SUBSET FlagNames  OBVIOUS
<1>3. FinalRx(r, x) \in BOOLEAN  OBVIOUS
<1>4. Final(r, x) \in DeviceState
  BY <1>1, <1>2, <1>3 DEF Final
<1>5. ASSUME NEW i \in BOOLEAN
      PROVE  /\ Final(r, [x EXCEPT !.ind = i]) = [Final(r, x) EXCEPT !.ind = i]
             /\ SoFar(r, x) => SoFar(r, [x EXCEPT !.ind = i])
  <2> DEFINE y == [x EXCEPT !.ind = i]
  <2>1. y.ref = x.ref /\ y.flags = x.flags /\ y.rx = x.rx /\ y.ind = i
    OBVIOUS
  <2> HIDE DEF y
  <2>2. FinalRef(r, y) = FinalRef(r, x) /\ FinalFlags(r, y) = FinalFlags(r, x) /\ FinalRx(r, y) = FinalRx(r, x)
    BY <2>1
  <2>3. Final(r, y) = [Final(r, x) EXCEPT !.ind = i]
    BY <2>1, <2>2 DEF Final
  <2>4. SoFar(r, x) => SoFar(r, y)
    BY <2>1 DEF SoFar, Sound
  <2> QED  BY <2>3, <2>4 DEF y
<1>6. r.pc = "none" => Final(r, x) = x
  BY DEF Final, OpenPcs, CountPcs, LastPcs
<1> QED  BY <1>4, <1>5, <1>6

LEMMA CompletedType ==
    ASSUME SplitInv
    PROVE  Completed \in DeviceStates
<1>1. ASSUME NEW d \in Devices PROVE Completed[d] \in DeviceState
  <2>1. devices[d] \in DeviceState /\ \A u \in Threads : io[u] \in Locals
    BY DEF SplitInv, DeviceStates
  <2>2. CASE \E u \in Threads : Within(u, d)
    <3>1. PICK u \in Threads : Within(u, d)  BY <2>2
    <3> QED  BY <3>1, <2>1, CompletedIs, FinalIs
  <2>3. CASE ~\E u \in Threads : Within(u, d)
    BY <2>3, <2>1, CompletedIs
  <2> QED  BY <2>2, <2>3
<1>2. Completed = [d \in Devices |-> Completed[d]]
  BY DEF Completed
<1> QED  BY <1>1, <1>2 DEF DeviceStates

\* Thread t, and the device d it is inside of, become q and y.
Becomes(t, q, d, y) ==
    /\ io' \in [Threads -> Locals] /\ io'[t] = q /\ \A u \in Threads \ {t} : io'[u] = io[u]
    /\ devices' \in DeviceStates /\ devices'[d] = y
    /\ \A x \in Devices \ {d} : devices'[x] = devices[x]

\* If nobody else is inside of d, the complete devices change at d only.
LEMMA OneMoves ==
    ASSUME SplitInv, NEW t \in Threads, NEW d \in Devices, NEW q \in Locals, NEW y \in DeviceState,
           \A u \in Threads \ {t} : ~Within(u, d), io[t].pc = "none" \/ io[t].dev = d,
           q.pc # "none" => q.dev = d /\ SoFar(q, y), Becomes(t, q, d, y)
    PROVE  /\ SplitInv' /\ Completed' = [Completed EXCEPT ![d] = Completed'[d]]
           /\ Completed'[d] = Final(q, y) /\ Completed[d] = Final(io[t], devices[d])
<1>1. /\ devices \in DeviceStates /\ io \in [Threads -> Locals] /\ io[t] \in Locals
      /\ devices[d] \in DeviceState
  BY DEF SplitInv, DeviceStates
<1>2. devices' \in DeviceStates /\ devices'[d] = y /\ \A x \in Devices \ {d} : devices'[x] = devices[x]
  BY DEF Becomes
<1>3. io' \in [Threads -> Locals] /\ io'[t] = q /\ \A u \in Threads \ {t} : io'[u] = io[u]
  BY DEF Becomes
<1>4. \A u \in Threads \ {t} : \A x : Within(u, x)' <=> Within(u, x)
  BY <1>3 DEF Within
<1>5. \A x : Within(t, x)' <=> q.pc # "none" /\ q.dev = x
  BY <1>3 DEF Within
<1>6. SplitInv'
  <2>1. ASSUME NEW u \in Threads, io'[u].pc # "none"
        PROVE  io'[u].dev \in Devices /\ SoFar(io'[u], devices'[io'[u].dev])
    <3>1. CASE u = t  BY <3>1, <2>1, <1>2, <1>3
    <3>2. CASE u # t
      <4>1. io'[u] = io[u] /\ io[u].dev # d /\ io[u].dev \in Devices /\ SoFar(io[u], devices[io[u].dev])
        BY <2>1, <3>2, <1>3 DEF SplitInv, Within
      <4> QED  BY <4>1, <1>2
    <3> QED  BY <3>1, <3>2
  <2>2. ASSUME NEW u \in Threads, NEW v \in Threads, NEW x \in Devices, Within(u, x)', Within(v, x)'
        PROVE  u = v
    <3>1. CASE u = t /\ v # t  BY <3>1, <2>2, <1>4, <1>5
    <3>2. CASE u # t /\ v = t  BY <3>2, <2>2, <1>4, <1>5
    <3>3. CASE u # t /\ v # t  BY <3>3, <2>2, <1>4 DEF SplitInv
    <3> QED  BY <3>1, <3>2, <3>3
  <2> QED  BY <1>2, <1>3, <2>1, <2>2 DEF SplitInv
<1>7. ASSUME NEW x \in Devices, x # d PROVE Completed'[x] = Completed[x]
  <2>1. ~Within(t, x) /\ ~Within(t, x)'
    BY <1>5, <1>7 DEF Within
  <2>2. CASE \E u \in Threads : Within(u, x)
    <3>1. PICK u \in Threads : Within(u, x)  BY <2>2
    <3>2. u # t /\ Within(u, x)' /\ io'[u] = io[u]
      BY <3>1, <2>1, <1>3, <1>4
    <3>3. Completed'[x] = Final(io'[u], devices'[x])
      BY <3>2, <1>6, CompletedNext
    <3>4. Completed[x] = Final(io[u], devices[x])
      BY <3>1, CompletedIs
    <3> QED  BY <3>2, <3>3, <3>4, <1>2, <1>7
  <2>3. CASE ~\E u \in Threads : Within(u, x)
    <3>1. \A u \in Threads : ~Within(u, x) /\ ~Within(u, x)'
      BY <2>1, <2>3, <1>4
    <3>2. Completed'[x] = devices'[x]  BY <3>1, <1>6, CompletedNext
    <3>3. Completed[x] = devices[x]  BY <3>1, CompletedIs
    <3> QED  BY <3>2, <3>3, <1>2, <1>7
  <2> QED  BY <2>2, <2>3
<1>8. Completed'[d] = Final(q, y)
  <2>1. CASE q.pc # "none"
    <3>1. Within(t, d)'  BY <2>1, <1>5
    <3>2. Completed'[d] = Final(io'[t], devices'[d])  BY <3>1, <1>6, CompletedNext
    <3> QED  BY <3>2, <1>2, <1>3
  <2>2. CASE q.pc = "none"
    <3>1. \A u \in Threads : ~Within(u, d)'  BY <2>2, <1>4, <1>5
    <3>2. Completed'[d] = devices'[d]  BY <3>1, <1>6, CompletedNext
    <3> QED  BY <3>2, <2>2, <1>2, FinalIs
  <2> QED  BY <2>1, <2>2
<1>9. Completed[d] = Final(io[t], devices[d])
  <2>1. CASE io[t].pc # "none"
    <3>1. Within(t, d)  BY <2>1 DEF Within
    <3> QED  BY <3>1, CompletedIs
  <2>2. CASE io[t].pc = "none"
    <3>1. \A u \in Threads : ~Within(u, d)  BY <2>2 DEF Within
    <3>2. Completed[d] = devices[d]  BY <3>1, CompletedIs
    <3> QED  BY <3>2, <2>2, <1>1, FinalIs
  <2> QED  BY <2>1, <2>2
<1>10. Completed' = [Completed EXCEPT ![d] = Completed'[d]]
  <2>1. Completed = [x \in Devices |-> Completed[x]] /\ Completed' = [x \in Devices |-> Completed'[x]]
    BY DEF Completed
  <2> QED  BY <2>1, <1>7
<1> QED  BY <1>6, <1>8, <1>9, <1>10


\* A statement of an open or a close leaves what it will be in the end.
Executed(t) ==
    /\ SplitInv' /\ Completed' = Completed
    /\ Ran(io[t], devices[io[t].dev], io'[t], devices'[io[t].dev])
    /\ Runs(t) /\ io[t].pc # "none" /\ io[t].dev \in Devices
    /\ \A u \in Threads \ {t} : io'[u] = io[u]
    /\ \A x \in Devices \ {io[t].dev} : devices'[x] = devices[x]
    /\ UNCHANGED <<console, shell_dev, calls, saved, torn, bounds>>

LEMMA StatementIs ==
    ASSUME SplitInv, NEW t \in Threads, NEW at, NEW next, NEW y, NEW q, at # "none",
           Statement(t, at, next, y, q), Ran(io[t], devices[io[t].dev], Then(q, next), y)
    PROVE  Executed(t)
<1>1. PICK r, d, x, z : r = io[t] /\ d = io[t].dev /\ x = devices[d] /\ z = Then(q, next)
  OBVIOUS
<1>2. /\ Runs(t) /\ r.pc # "none" /\ devices' = [devices EXCEPT ![d] = y] /\ io' = [io EXCEPT ![t] = z]
      /\ UNCHANGED <<console, shell_dev, calls, saved, torn, bounds>>
  BY <1>1 DEF Statement, Then
<1>3. /\ r \in Locals /\ x \in DeviceState /\ d \in Devices /\ SoFar(r, x)
      /\ \A u \in Threads \ {t} : ~Within(u, d)
  <2>1. r \in Locals /\ d \in Devices /\ SoFar(r, x)  BY <1>1, <1>2 DEF SplitInv
  <2>2. Within(t, d)  BY <1>1, <1>2 DEF Within
  <2>3. \A u \in Threads \ {t} : ~Within(u, d)  BY <2>1, <2>2 DEF SplitInv
  <2> QED  BY <2>1, <2>3, <1>1 DEF SplitInv, DeviceStates
<1>4. Goal(r, x, z, y)
  BY <1>1, <1>3, RanKeeps
<1>5. /\ z \in Locals /\ y \in DeviceState /\ (z.pc = "none" \/ z.dev = d) /\ SoFar(z, y)
      /\ Final(z, y) = Final(r, x)
  BY <1>1, <1>4 DEF Goal
<1>6. /\ SplitInv' /\ Completed' = [Completed EXCEPT ![d] = Completed'[d]]
      /\ Completed'[d] = Final(z, y) /\ Completed[d] = Final(io[t], devices[d])
  <2>1. (io[t].pc = "none" \/ io[t].dev = d) /\ (z.pc # "none" => z.dev = d /\ SoFar(z, y))
    BY <1>1, <1>5
  <2>2. z \in Locals /\ y \in DeviceState /\ d \in Devices /\ \A u \in Threads \ {t} : ~Within(u, d)
    BY <1>3, <1>5
  <2>3. Becomes(t, z, d, y)
    BY <1>2, <2>2 DEF Becomes, SplitInv, DeviceStates
  <2> QED  BY <2>1, <2>2, <2>3, OneMoves, Zenon
<1>7. Completed' = Completed
  <2>1. Completed = [w \in Devices |-> Completed[w]]  BY DEF Completed
  <2>2. Completed'[d] = Completed[d]  BY <1>1, <1>5, <1>6
  <2> QED  BY <2>1, <2>2, <1>6
<1>8. /\ io'[t] = z /\ (\A u \in Threads \ {t} : io'[u] = io[u])
      /\ devices'[d] = y /\ (\A w \in Devices \ {d} : devices'[w] = devices[w])
  BY <1>2, <1>3 DEF SplitInv, DeviceStates
<1> QED  BY <1>1, <1>2, <1>3, <1>6, <1>7, <1>8 DEF Executed

LEMMA StatementKeeps ==
    ASSUME SplitInv, NEW t \in Threads, OpenOrClose(t)
    PROVE  Executed(t)
<1>1. PICK r, x : r = io[t] /\ x = devices[io[t].dev]
  OBVIOUS
<1>2. ASSUME NEW at, NEW next, NEW y, NEW q, Statement(t, at, next, y, q), at # "none",
             r.pc = at => Ran(r, x, Then(q, next), y)
      PROVE  Executed(t)
  <2>1. r.pc = at  BY <1>1, <1>2 DEF Statement
  <2> QED  BY <1>1, <1>2, <2>1, StatementIs
<1> USE <1>1 DEF SaysInt, Local, Device
<1>3. CASE KeepStream(t)
  <2>1. Statement(t, "keep_stream", "set_flags", x, [r EXCEPT !.stream = (r.oflag \cup x.flags) \cap {"STREAM"}])
    BY <1>3 DEF KeepStream
  <2>2. r.pc = "keep_stream" => Ran(r, x, Then([r EXCEPT !.stream = (r.oflag \cup x.flags) \cap {"STREAM"}], "set_flags"), x)
    BY DEF Ran
  <2> QED  BY <1>2, <2>1, <2>2
<1>4. CASE SetFlags(t)
  <2>1. Statement(t, "set_flags", "alloc", [x EXCEPT !.flags = r.oflag \cap {"STREAM"}], r)
    BY <1>4 DEF SetFlags
  <2>2. r.pc = "set_flags" => Ran(r, x, Then(r, "alloc"), [x EXCEPT !.flags = r.oflag \cap {"STREAM"}])
    BY DEF Ran
  <2> QED  BY <1>2, <2>1, <2>2
<1>5. CASE AllocFifo(t)
  <2>1. Statement(t, "alloc", IF SaysInt(r.oflag) THEN "load_int" ELSE "load_stream", [x EXCEPT !.rx = x.rx \/ SaysInt(r.oflag)], r)
    BY <1>5 DEF AllocFifo
  <2>2. r.pc = "alloc" => Ran(r, x, Then(r, IF SaysInt(r.oflag) THEN "load_int" ELSE "load_stream"), [x EXCEPT !.rx = x.rx \/ SaysInt(r.oflag)])
    BY DEF Ran
  <2> QED  BY <1>2, <2>1, <2>2
<1>6. CASE LoadFlags(t)
  <2>1. PICK at \in DOMAIN StoreAfter : Statement(t, at, StoreAfter[at], x, [r EXCEPT !.flags = x.flags])
    BY <1>6 DEF LoadFlags
  <2>2. at \in {"load_int", "load_stream", "load_open", "load_mask"}
    BY DEF StoreAfter
  <2>3. r.pc = at => Ran(r, x, Then([r EXCEPT !.flags = x.flags], StoreAfter[at]), x)
    BY <2>2 DEF Ran, StoreAfter
  <2> QED  BY <1>2, <2>1, <2>2, <2>3
<1>7. CASE OrInt(t)
  <2>1. Statement(t, "or_int", "load_stream", [x EXCEPT !.flags = r.flags \cup {"INT_RX"}], r)
    BY <1>7 DEF OrInt
  <2>2. r.pc = "or_int" => Ran(r, x, Then(r, "load_stream"), [x EXCEPT !.flags = r.flags \cup {"INT_RX"}])
    BY DEF Ran
  <2> QED  BY <1>2, <2>1, <2>2
<1>8. CASE OrStream(t)
  <2>1. Statement(t, "or_stream", "load_open", [x EXCEPT !.flags = r.flags \cup r.stream], r)
    BY <1>8 DEF OrStream
  <2>2. r.pc = "or_stream" => Ran(r, x, Then(r, "load_open"), [x EXCEPT !.flags = r.flags \cup r.stream])
    BY DEF Ran
  <2> QED  BY <1>2, <2>1, <2>2
<1>9. CASE OrOpen(t)
  <2>1. Statement(t, "or_open", "load_up", [x EXCEPT !.flags = r.flags \cup {"OPEN"}], r)
    BY <1>9 DEF OrOpen
  <2>2. r.pc = "or_open" => Ran(r, x, Then(r, "load_up"), [x EXCEPT !.flags = r.flags \cup {"OPEN"}])
    BY DEF Ran
  <2> QED  BY <1>2, <2>1, <2>2
<1>10. CASE LoadRef(t)
  <2>1. \/ Statement(t, "load_up", "up", x, [r EXCEPT !.ref = x.ref])
        \/ Statement(t, "load_down", "down", x, [r EXCEPT !.ref = x.ref])
    BY <1>10 DEF LoadRef
  <2>2. /\ r.pc = "load_up" => Ran(r, x, Then([r EXCEPT !.ref = x.ref], "up"), x)
        /\ r.pc = "load_down" => Ran(r, x, Then([r EXCEPT !.ref = x.ref], "down"), x)
    BY DEF Ran
  <2> QED  BY <1>2, <2>1, <2>2
<1>11. CASE CountUp(t)
  <2>1. Statement(t, "up", "none", [x EXCEPT !.ref = r.ref + 1], r)
    BY <1>11 DEF CountUp
  <2>2. r.pc = "up" => Ran(r, x, Then(r, "none"), [x EXCEPT !.ref = r.ref + 1])
    BY DEF Ran, Then
  <2> QED  BY <1>2, <2>1, <2>2
<1>12. CASE TestRef(t)
  <2>1. Statement(t, "test", IF x.ref = 0 THEN "none" ELSE "load_down", x, r)
    BY <1>12 DEF TestRef
  <2>2. r.pc = "test" => Ran(r, x, Then(r, IF x.ref = 0 THEN "none" ELSE "load_down"), x)
    BY DEF Ran
  <2> QED  BY <1>2, <2>1, <2>2
<1>13. CASE CountDown(t)
  <2>1. Statement(t, "down", "left", [x EXCEPT !.ref = IF r.ref = 0 THEN 255 ELSE r.ref - 1], r)
    BY <1>13 DEF CountDown
  <2>2. r.pc = "down" => Ran(r, x, Then(r, "left"), [x EXCEPT !.ref = IF r.ref = 0 THEN 255 ELSE r.ref - 1])
    BY DEF Ran
  <2> QED  BY <1>2, <2>1, <2>2
<1>14. CASE TestLeft(t)
  <2>1. Statement(t, "left", IF x.ref # 0 THEN "none" ELSE "more", x, r)
    BY <1>14 DEF TestLeft
  <2>2. r.pc = "left" => Ran(r, x, Then(r, IF x.ref # 0 THEN "none" ELSE "more"), x)
    BY DEF Ran
  <2> QED  BY <1>2, <2>1, <2>2
<1>15. CASE TestMore(t)
  <2>1. Statement(t, "more", IF x.ref > 1 THEN "clear" ELSE "int_rx", x, r)
    BY <1>15 DEF TestMore
  <2>2. r.pc = "more" => Ran(r, x, Then(r, IF x.ref > 1 THEN "clear" ELSE "int_rx"), x)
    BY DEF Ran
  <2> QED  BY <1>2, <2>1, <2>2
<1>16. CASE TestInt(t)
  <2>1. Statement(t, "int_rx", IF SaysInt(x.flags) THEN "free" ELSE "clear", x, r)
    BY <1>16 DEF TestInt
  <2>2. r.pc = "int_rx" => Ran(r, x, Then(r, IF SaysInt(x.flags) THEN "free" ELSE "clear"), x)
    BY DEF Ran
  <2> QED  BY <1>2, <2>1, <2>2
<1>17. CASE FreeFifo(t)
  <2>1. Statement(t, "free", "load_mask", [x EXCEPT !.rx = FALSE], r)
    BY <1>17 DEF FreeFifo
  <2>2. r.pc = "free" => Ran(r, x, Then(r, "load_mask"), [x EXCEPT !.rx = FALSE])
    BY DEF Ran
  <2> QED  BY <1>2, <2>1, <2>2
<1>18. CASE MaskInt(t)
  <2>1. Statement(t, "mask_int", "clear", [x EXCEPT !.flags = r.flags \ {"INT_RX"}], r)
    BY <1>18 DEF MaskInt
  <2>2. r.pc = "mask_int" => Ran(r, x, Then(r, "clear"), [x EXCEPT !.flags = r.flags \ {"INT_RX"}])
    BY DEF Ran
  <2> QED  BY <1>2, <2>1, <2>2
<1>19. CASE ClearFlags(t)
  <2>1. Statement(t, "clear", "none", [x EXCEPT !.flags = {}], r)
    BY <1>19 DEF ClearFlags
  <2>2. r.pc = "clear" => Ran(r, x, Then(r, "none"), [x EXCEPT !.flags = {}])
    BY DEF Ran, Then
  <2> QED  BY <1>2, <2>1, <2>2
<1> QED  BY <1>3, <1>4, <1>5, <1>6, <1>7, <1>8, <1>9, <1>10, <1>11, <1>12, <1>13, <1>14, <1>15, <1>16, <1>17, <1>18, <1>19 DEF OpenOrClose


-----------------------------------------------------------------------------
(* What entering an open or a close, and output, do to the complete devices. *)

Unlike(d) == \A x \in Devices : x # d => Completed'[x] = Completed[x]

OpenedFor(d, o) ==
    /\ Unlike(d) /\ Completed'[d].ref = Completed[d].ref + 1
    /\ Completed'[d].flags = o \cup (Completed[d].flags \cap {"STREAM"}) \cup {"OPEN"}
    /\ (Completed'[d].rx <=> Completed[d].rx \/ "INT_RX" \in o)
    /\ (Completed'[d].ind <=> Completed[d].ind)

ClosedOnce(d) ==
    /\ Unlike(d) /\ Completed'[d].ref = IF Completed[d].ref = 0 THEN 0 ELSE Completed[d].ref - 1
    /\ (Completed[d].ref = 1 => Completed'[d].flags = {})
    /\ (Completed[d].ref # 1 => Completed'[d].flags = Completed[d].flags)
    /\ (Completed'[d].rx <=> Completed[d].rx /\ ~(Completed[d].ref = 1 /\ "INT_RX" \in Completed[d].flags))
    /\ (Completed'[d].ind <=> Completed[d].ind)

Flagged(d, f) ==
    /\ Unlike(d) /\ Completed'[d].ref = Completed[d].ref /\ Completed'[d].flags = f
    /\ (Completed'[d].rx <=> Completed[d].rx) /\ (Completed'[d].ind <=> Completed[d].ind)

Indicated(d, i) ==
    /\ Unlike(d) /\ Completed'[d].ref = Completed[d].ref /\ Completed'[d].flags = Completed[d].flags
    /\ (Completed'[d].rx <=> Completed[d].rx) /\ (Completed'[d].ind <=> i)

\* Thread t is outside, the others stay where they are, and no count is changed.
Framed(t) ==
    /\ io[t].pc = "none" /\ \A u \in Threads \ {t} : io'[u] = io[u]
    /\ \A x \in Devices : devices'[x].ref = devices[x].ref

LEMMA OpenIs ==
    ASSUME SplitInv, ~torn', NEW t \in Threads, NEW d \in Devices, NEW o \in SUBSET RxStream,
           Sound(d, Completed[d]), d = "vcom" => Completed[d].rx \/ "INT_RX" \in o,
           io[t].pc = "none", rt_device_open(t, d, o), devices' = devices
    PROVE  /\ SplitInv' /\ Completed' \in DeviceStates /\ OpenedFor(d, o) /\ Framed(t)
           /\ io'[t].pc = "keep_stream" /\ io'[t].dev = d
<1>1. PICK q, y : q = [Outside EXCEPT !.pc = "keep_stream", !.dev = d, !.oflag = o] /\ y = devices[d]
  OBVIOUS
<1>2. /\ q \in Locals /\ q.pc = "keep_stream" /\ q.dev = d /\ q.oflag = o /\ SoFar(q, y)
  <2>1. \A u \in Threads : ~Within(u, d)
    BY DEF rt_device_open, Enters, Touches, Within
  <2>2. Completed[d] = y
    BY <1>1, <2>1, CompletedIs
  <2>3. Sound(d, y) /\ (d = "vcom" => y.rx \/ "INT_RX" \in o)
    BY <2>2
  <2> QED  BY <1>1, <2>3 DEF Outside, Locals, RxStream, OpenPcs, CountPcs, LastPcs, ClosePcs, SoFar, SaysInt
<1>3. y \in DeviceState /\ devices' = [devices EXCEPT ![d] = y] /\ io[t] \in Locals /\ DOMAIN io = Threads
  BY <1>1 DEF SplitInv, DeviceStates
<1>4. io' = [io EXCEPT ![t] = q] /\ \A u \in Threads \ {t} : ~Within(u, d)
  BY <1>1 DEF rt_device_open, Enters, Touches
<1>5. /\ SplitInv' /\ Completed' = [Completed EXCEPT ![d] = Completed'[d]]
      /\ Completed'[d] = Final(q, y) /\ Completed[d] = Final(io[t], devices[d])
  <2>1. (io[t].pc = "none" \/ io[t].dev = d) /\ (q.pc # "none" => q.dev = d /\ SoFar(q, y))
    BY <1>2
  <2>2. q \in Locals /\ y \in DeviceState /\ d \in Devices /\ \A v \in Threads \ {t} : ~Within(v, d)
    BY <1>2, <1>3, <1>4
  <2>3. Becomes(t, q, d, y)
    BY <1>3, <1>4, <2>2 DEF Becomes, SplitInv, DeviceStates
  <2> QED  BY <2>1, <2>2, <2>3, OneMoves, Zenon
<1>6. Completed[d] = y
  BY <1>1, <1>3, <1>5, FinalIs
<1>7. /\ Completed'[d].ref = y.ref + 1 /\ Completed'[d].ind = y.ind
      /\ Completed'[d].flags = o \cup (y.flags \cap {"STREAM"}) \cup {"OPEN"}
      /\ (Completed'[d].rx <=> y.rx \/ "INT_RX" \in o)
  <2>1. FinalRef(q, y) = y.ref + 1  BY <1>2 DEF FinalRef, OpenPcs
  <2>2. FinalFlags(q, y) = o \cup (y.flags \cap {"STREAM"}) \cup {"OPEN"}  BY <1>2 DEF FinalFlags
  <2>3. FinalRx(q, y) <=> y.rx \/ "INT_RX" \in o  BY <1>2 DEF FinalRx, SaysInt
  <2> QED  BY <1>5, <2>1, <2>2, <2>3 DEF Final
<1>8. Completed' \in DeviceStates
  <2>1. Completed \in DeviceStates  BY CompletedType
  <2>2. Final(q, y) \in DeviceState  BY <1>2, <1>3, FinalIs
  <2> QED  BY <2>1, <2>2, <1>5 DEF DeviceStates
<1>9. Unlike(d)
  <2>1. Completed \in [Devices -> DeviceState]  BY CompletedType DEF DeviceStates
  <2> QED  BY <2>1, <1>5 DEF Unlike
<1>10. Framed(t) /\ io'[t] = q
  BY <1>3, <1>4 DEF Framed
<1> QED  BY <1>2, <1>5, <1>6, <1>7, <1>8, <1>9, <1>10 DEF OpenedFor

LEMMA CloseIs ==
    ASSUME SplitInv, ~torn', NEW t \in Threads, NEW d \in Devices,
           Sound(d, Completed[d]), d = "vcom" => Completed[d].ref > 1,
           io[t].pc = "none", rt_device_close(t, d), devices' = devices
    PROVE  /\ SplitInv' /\ Completed' \in DeviceStates /\ ClosedOnce(d) /\ Framed(t)
           /\ io'[t].pc = "test" /\ io'[t].dev = d
<1>1. PICK q, y : q = [Outside EXCEPT !.pc = "test", !.dev = d, !.oflag = {}] /\ y = devices[d]
  OBVIOUS
<1>2. /\ q \in Locals /\ q.pc = "test" /\ q.dev = d /\ SoFar(q, y)
  <2>1. \A u \in Threads : ~Within(u, d)
    BY DEF rt_device_close, Enters, Touches, Within
  <2>2. Completed[d] = y
    BY <1>1, <2>1, CompletedIs
  <2>3. Sound(d, y) /\ (d = "vcom" => y.ref > 1)
    BY <2>2
  <2> QED  BY <1>1, <2>3 DEF Outside, Locals, RxStream, OpenPcs, CountPcs, LastPcs, ClosePcs, SoFar, SaysInt
<1>3. y \in DeviceState /\ devices' = [devices EXCEPT ![d] = y] /\ io[t] \in Locals /\ DOMAIN io = Threads
  BY <1>1 DEF SplitInv, DeviceStates
<1>4. io' = [io EXCEPT ![t] = q] /\ \A u \in Threads \ {t} : ~Within(u, d)
  BY <1>1 DEF rt_device_close, Enters, Touches
<1>5. /\ SplitInv' /\ Completed' = [Completed EXCEPT ![d] = Completed'[d]]
      /\ Completed'[d] = Final(q, y) /\ Completed[d] = Final(io[t], devices[d])
  <2>1. (io[t].pc = "none" \/ io[t].dev = d) /\ (q.pc # "none" => q.dev = d /\ SoFar(q, y))
    BY <1>2
  <2>2. q \in Locals /\ y \in DeviceState /\ d \in Devices /\ \A v \in Threads \ {t} : ~Within(v, d)
    BY <1>2, <1>3, <1>4
  <2>3. Becomes(t, q, d, y)
    BY <1>3, <1>4, <2>2 DEF Becomes, SplitInv, DeviceStates
  <2> QED  BY <2>1, <2>2, <2>3, OneMoves, Zenon
<1>6. Completed[d] = y
  BY <1>1, <1>3, <1>5, FinalIs
<1>7. /\ Completed'[d].ref = IF y.ref = 0 THEN 0 ELSE y.ref - 1
      /\ Completed'[d].ind = y.ind
      /\ (y.ref = 1 => Completed'[d].flags = {}) /\ (y.ref # 1 => Completed'[d].flags = y.flags)
      /\ (Completed'[d].rx <=> y.rx /\ ~(y.ref = 1 /\ "INT_RX" \in y.flags))
  <2> USE <1>2 DEF OpenPcs, CountPcs, LastPcs, SaysInt
  <2>1. FinalRef(q, y) = IF y.ref = 0 THEN 0 ELSE y.ref - 1  BY DEF FinalRef
  <2>2. FinalFlags(q, y) = IF y.ref = 1 THEN {} ELSE y.flags  BY DEF FinalFlags
  <2>3. FinalRx(q, y) <=> y.rx /\ ~(y.ref = 1 /\ "INT_RX" \in y.flags)
    <3>1. y.rx \in BOOLEAN  BY <1>3 DEF DeviceState
    <3> QED  BY <3>1 DEF FinalRx
  <2> QED  BY <1>5, <2>1, <2>2, <2>3 DEF Final
<1>8. Completed' \in DeviceStates
  <2>1. Completed \in DeviceStates  BY CompletedType
  <2>2. Final(q, y) \in DeviceState  BY <1>2, <1>3, FinalIs
  <2> QED  BY <2>1, <2>2, <1>5 DEF DeviceStates
<1>9. Unlike(d)
  <2>1. Completed \in [Devices -> DeviceState]  BY CompletedType DEF DeviceStates
  <2> QED  BY <2>1, <1>5 DEF Unlike
<1>10. Framed(t) /\ io'[t] = q
  BY <1>3, <1>4 DEF Framed
<1> QED  BY <1>2, <1>5, <1>6, <1>7, <1>8, <1>9, <1>10 DEF ClosedOnce

LEMMA FlagIs ==
    ASSUME SplitInv, ~torn', NEW t \in Threads, NEW d \in Devices, NEW f \in SUBSET FlagNames,
           io[t].pc = "none", Touches(t, d), io' = io, devices' = [devices EXCEPT ![d].flags = f]
    PROVE  SplitInv' /\ Completed' \in DeviceStates /\ Flagged(d, f) /\ Framed(t)
           /\ devices[d].flags = Completed[d].flags
<1>1. PICK q, y : q = io[t] /\ y = [devices[d] EXCEPT !.flags = f]
  OBVIOUS
<1>2. q \in Locals /\ q.pc = "none" /\ devices[d] \in DeviceState /\ y \in DeviceState
  BY <1>1 DEF SplitInv, DeviceStates, DeviceState
<1>3. devices' = [devices EXCEPT ![d] = y] /\ io' = [io EXCEPT ![t] = q]
  BY <1>1 DEF SplitInv, DeviceStates
<1>4. \A u \in Threads \ {t} : ~Within(u, d)
  BY DEF Touches
<1>5. /\ SplitInv' /\ Completed' = [Completed EXCEPT ![d] = Completed'[d]]
      /\ Completed'[d] = Final(q, y) /\ Completed[d] = Final(io[t], devices[d])
  <2>1. (io[t].pc = "none" \/ io[t].dev = d) /\ (q.pc # "none" => q.dev = d /\ SoFar(q, y))
    BY <1>2
  <2>2. q \in Locals /\ y \in DeviceState /\ d \in Devices /\ \A v \in Threads \ {t} : ~Within(v, d)
    BY <1>2, <1>3, <1>4
  <2>3. Becomes(t, q, d, y)
    BY <1>3, <1>4, <2>2 DEF Becomes, SplitInv, DeviceStates
  <2> QED  BY <2>1, <2>2, <2>3, OneMoves, Zenon
<1>6. Completed[d] = devices[d] /\ Completed'[d] = y
  BY <1>1, <1>2, <1>5, FinalIs
<1>7. /\ y.ref = devices[d].ref /\ y.flags = f /\ y.rx = devices[d].rx /\ y.ind = devices[d].ind
  BY <1>1, <1>2 DEF DeviceState
<1>8. Completed \in [Devices -> DeviceState]
  BY CompletedType DEF DeviceStates
<1>9. Unlike(d) /\ Completed' \in DeviceStates
  BY <1>2, <1>5, <1>6, <1>8 DEF Unlike, DeviceStates
<1>10. Framed(t)
  <2>1. devices'[d] = y /\ \A x \in Devices \ {d} : devices'[x] = devices[x]
    BY <1>3 DEF SplitInv, DeviceStates
  <2> QED  BY <1>1, <1>2, <1>7, <2>1 DEF Framed
<1> QED  BY <1>5, <1>6, <1>7, <1>9, <1>10 DEF Flagged

LEMMA IndicateIs ==
    ASSUME SplitInv, NEW t \in Threads, NEW d \in Devices, NEW i \in BOOLEAN, io[t].pc = "none",
           io' = io, devices' = [devices EXCEPT ![d].ind = i]
    PROVE  SplitInv' /\ Completed' \in DeviceStates /\ Indicated(d, i) /\ Framed(t)
<1>1. PICK u \in Threads : /\ \A v \in Threads \ {u} : ~Within(v, d)
                           /\ io[u].pc = "none" \/ io[u].dev = d
  <2>1. CASE \E u \in Threads : Within(u, d)
    <3>1. PICK u \in Threads : Within(u, d)  BY <2>1
    <3>2. \A v \in Threads \ {u} : ~Within(v, d)  BY <3>1 DEF SplitInv
    <3> QED  BY <3>1, <3>2 DEF Within
  <2>2. CASE ~\E u \in Threads : Within(u, d)
    BY <2>2
  <2> QED  BY <2>1, <2>2
<1>2. PICK q, y : q = io[u] /\ y = [devices[d] EXCEPT !.ind = i]
  OBVIOUS
<1>3. q \in Locals /\ devices[d] \in DeviceState /\ y \in DeviceState
  BY <1>2 DEF SplitInv, DeviceStates, DeviceState
<1>4. devices' = [devices EXCEPT ![d] = y] /\ io' = [io EXCEPT ![u] = q]
  BY <1>2 DEF SplitInv, DeviceStates
<1>5. /\ Final(q, y) = [Final(q, devices[d]) EXCEPT !.ind = i] /\ Final(q, devices[d]) \in DeviceState
      /\ SoFar(q, devices[d]) => SoFar(q, y)
  BY <1>2, <1>3, FinalIs
<1>6. q.pc # "none" => q.dev = d /\ SoFar(q, y)
  BY <1>1, <1>2, <1>5 DEF SplitInv
<1>7. /\ SplitInv' /\ Completed' = [Completed EXCEPT ![d] = Completed'[d]]
      /\ Completed'[d] = Final(q, y) /\ Completed[d] = Final(io[u], devices[d])
  <2>1. (io[u].pc = "none" \/ io[u].dev = d) /\ (q.pc # "none" => q.dev = d /\ SoFar(q, y))
    BY <1>1, <1>6
  <2>2. q \in Locals /\ y \in DeviceState /\ d \in Devices /\ \A v \in Threads \ {u} : ~Within(v, d)
    BY <1>1, <1>3
  <2>3. Becomes(u, q, d, y)
    BY <1>4, <2>2 DEF Becomes, SplitInv, DeviceStates
  <2> QED  BY <2>1, <2>2, <2>3, OneMoves, Zenon
<1>8. PICK z : z = Completed[d]
  OBVIOUS
<1>9. Completed'[d] = [z EXCEPT !.ind = i] /\ z \in DeviceState
  BY <1>2, <1>5, <1>7, <1>8
<1>10. /\ Completed'[d].ref = z.ref /\ Completed'[d].flags = z.flags
       /\ Completed'[d].rx = z.rx /\ Completed'[d].ind = i /\ Completed'[d] \in DeviceState
  BY <1>9 DEF DeviceState
<1>11. Completed \in [Devices -> DeviceState]
  BY CompletedType DEF DeviceStates
<1>12. Unlike(d) /\ Completed' \in DeviceStates
  BY <1>7, <1>10, <1>11 DEF Unlike, DeviceStates
<1>13. Framed(t)
  <2>1. devices'[d] = y /\ \A x \in Devices \ {d} : devices'[x] = devices[x]
    BY <1>4 DEF SplitInv, DeviceStates
  <2>2. y.ref = devices[d].ref /\ y.flags = devices[d].flags /\ y.rx = devices[d].rx
    BY <1>2, <1>3 DEF DeviceState
  <2> QED  BY <2>1, <2>2 DEF Framed
<1> QED  BY <1>7, <1>8, <1>10, <1>12, <1>13 DEF Indicated

LEMMA SameIs ==
    ASSUME SplitInv, NEW t \in Threads, io[t].pc = "none", io' = io, devices' = devices
    PROVE  SplitInv' /\ Completed' = Completed /\ Completed' \in DeviceStates /\ Framed(t)
<1>1. Completed' = Completed
  BY DEF Completed, Within
<1> QED  BY <1>1, CompletedType DEF SplitInv, Within, Framed

-----------------------------------------------------------------------------
(* The devices and where the threads are with them.                        *)

FinshFrom == {"finsh_close", "finsh_clear", "finsh_assign"}
SwitchThreads == {"tshell", "tBtn"}

\* The shell has its first device to take yet, or has one and moves to "vcom" only.
PhaseInv ==
    \/ calls["tshell"] \in Seq(VcomCalls) /\ shell_dev \in Devices
    \/ /\ calls["tshell"] \in Seq(BootCalls) /\ ~Does("tshell", "idle")
       /\ Does("tBtn", "idle") /\ Does("ulog", "idle")
       /\ console = "uart1" /\ ~overlap /\ ~misnamed
       /\ At("tshell").op = "finsh_open" => shell_dev \in {NoDevice, "uart1"}
       /\ At("tshell").op \in FinshFrom => shell_dev = NoDevice
       /\ At("tshell").op \notin {"finsh_open"} \cup FinshFrom => shell_dev = "uart1"

\* Which device is the console and the shell's in the middle of a switch.
PlaceInv ==
    /\ At("tBtn").op \in FinshFrom /\ At("tBtn").dev = "uart1" => shell_dev = "vcom"
    /\ At("tshell").op \in FinshFrom /\ At("tshell").dev = "vcom" => shell_dev = "uart1"
    /\ Does("tshell", "finsh_indicate") /\ At("tshell").dev = "vcom" => shell_dev = "vcom"
    /\ At("tshell").op \in ConsoleOps \cup OwnOps => shell_dev = "vcom"
    /\ At("tshell").op \in OwnOps => console = "vcom"
    /\ At("tshell").op \in PrintOps => console = "vcom" \/ Does("tBtn", "idle")
    /\ At("tBtn").op \in OwnOps => console = At("tBtn").dev \/ console = "vcom"
    /\ ~overlap /\ At("tBtn").op \in OwnOps => console = At("tBtn").dev
    /\ ~misnamed /\ At("tshell").op \in OwnOps => At("tshell").dev = "vcom"

-----------------------------------------------------------------------------
(* What each step does.                                                    *)

Same == UNCHANGED <<console, shell_dev, saved>>

\* Of the threads only t moves on; tBtn does when neither the shell nor main has to run.
Turn(t, op) ==
    /\ t \in SwitchThreads /\ Does(t, op)
    /\ \A u \in Threads \ {t} : First(calls'[u]) = At(u)
    /\ t = "tBtn" => Does("tshell", "idle") /\ Does("main", "idle")
    /\ overlap' = overlap /\ misnamed' = misnamed
Goes(t, op) == Turn(t, op) /\ Follows(Freedom(t), At(t), First(calls'[t]))

KeepsShell(t) ==
    Goes(t, "finsh_open") /\ At(t).dev = shell_dev /\ Completed' = Completed /\ Same
OpensShell(t) ==
    /\ Turn(t, "finsh_open") /\ At(t).dev \in Devices /\ At(t).dev # shell_dev
    /\ First(calls'[t]) = Call("finsh_close", At(t).dev)
    /\ OpenedFor(At(t).dev, RxStream) /\ Same
ClosesShell(t) ==
    /\ Goes(t, "finsh_close") /\ Same /\ At(t).dev \in Devices
    /\ \/ shell_dev \in Devices /\ ClosedOnce(shell_dev)
       \/ shell_dev = NoDevice /\ Completed' = Completed
ClearsShell(t) ==
    /\ Goes(t, "finsh_clear") /\ Same /\ At(t).dev \in Devices
    /\ \/ shell_dev \in Devices /\ Indicated(shell_dev, FALSE)
       \/ shell_dev = NoDevice /\ Completed' = Completed
AssignsShell(t) ==
    /\ Goes(t, "finsh_assign") /\ At(t).dev \in Devices /\ shell_dev' = At(t).dev
    /\ Completed' = Completed /\ console' = console /\ saved' = saved
IndicatesShell(t) ==
    Goes(t, "finsh_indicate") /\ At(t).dev \in Devices /\ Indicated(At(t).dev, TRUE) /\ Same
ClosesConsole(t) ==
    Goes(t, "console_close") /\ At(t).dev \in Devices /\ ClosedOnce(console) /\ Same
OpensConsole(t) ==
    Goes(t, "console_open") /\ At(t).dev \in Devices /\ OpenedFor(At(t).dev, {"STREAM"}) /\ Same
AssignsConsole(t) ==
    /\ Goes(t, "console_assign") /\ At(t).dev \in Devices /\ console' = At(t).dev
    /\ Completed' = Completed /\ shell_dev' = shell_dev /\ saved' = saved
ClosesOwn(t) == Goes(t, "close") /\ At(t).dev \in Devices /\ ClosedOnce(At(t).dev) /\ Same
OpensOwn(t) == Goes(t, "open") /\ At(t).dev \in Devices /\ OpenedFor(At(t).dev, RxStream) /\ Same
BeginsPrint(t) ==
    /\ Goes(t, "kprintf_begin") /\ Flagged(console, Completed[console].flags \cup {"STREAM"})
    /\ saved' = [saved EXCEPT ![t] = [dev |-> NoDevice, flags |-> Completed[console].flags]]
    /\ console' = console /\ shell_dev' = shell_dev
EndsPrint(t) == Goes(t, "kprintf_end") /\ Flagged(console, saved[t].flags) /\ Same

SwitchMove(t) ==
    \/ KeepsShell(t) \/ OpensShell(t) \/ ClosesShell(t) \/ ClearsShell(t) \/ AssignsShell(t)
    \/ IndicatesShell(t) \/ ClosesConsole(t) \/ OpensConsole(t) \/ AssignsConsole(t)
    \/ ClosesOwn(t) \/ OpensOwn(t) \/ BeginsPrint(t) \/ EndsPrint(t)

Others(t) ==
    /\ \A u \in Threads \ {t} : First(calls'[u]) = At(u)
    /\ \A u \in Threads : Priority[u] < Priority[t] => Does(u, "idle")
MainMoves ==
    /\ Does("main", "main_open") /\ First(calls'["main"]).op = "idle" /\ Others("main")
    /\ OpenedFor("vcom", {"INT_RX"}) /\ Same /\ overlap' = overlap /\ misnamed' = misnamed
LogBegins ==
    /\ Does("ulog", "log_begin") /\ First(calls'["ulog"]).op = "log_end" /\ Others("ulog")
    /\ Flagged(console, Completed[console].flags \cup {"STREAM"})
    /\ saved' = [saved EXCEPT !["ulog"] = [dev |-> console, flags |-> Completed[console].flags]]
    /\ console' = console /\ shell_dev' = shell_dev /\ overlap' = overlap /\ misnamed' = misnamed
LogEnds ==
    /\ Does("ulog", "log_end") /\ First(calls'["ulog"]).op = "idle" /\ Others("ulog")
    /\ Flagged(saved["ulog"].dev, saved["ulog"].flags) /\ Same
    /\ overlap' = overlap /\ misnamed' = misnamed
KeyIsPressed ==
    /\ Does("tBtn", "idle") /\ First(calls'["tBtn"]) = Call("kprintf_begin", NoDevice)
    /\ Others("tBtn") /\ Completed' = Completed /\ Same /\ overlap' = overlap /\ misnamed' = misnamed
ChangeIsTyped ==
    /\ Does("tshell", "idle") /\ First(calls'["tshell"]) = Call("finsh_open", "vcom")
    /\ Others("tshell") /\ Completed' = Completed /\ Same
    /\ (overlap' <=> overlap \/ ~Does("tBtn", "idle")) /\ (misnamed => misnamed')
LogIsWritten ==
    /\ Does("ulog", "idle") /\ First(calls'["ulog"]) = Call("log_begin", NoDevice)
    /\ Others("ulog") /\ Completed' = Completed /\ Same /\ overlap' = overlap /\ misnamed' = misnamed

Move ==
    \/ \E t \in SwitchThreads : SwitchMove(t)
    \/ MainMoves \/ LogBegins \/ LogEnds \/ KeyIsPressed \/ ChangeIsTyped \/ LogIsWritten

SwitchOps == FinshOps \cup ConsoleOps \cup OwnOps \cup PrintOps

LEMMA TurnIs ==
    ASSUME CallsInv, NEW t \in Threads, NEW op \in SwitchOps, Stepped(t, op),
           overlap' = overlap, misnamed' = misnamed
    PROVE  Turn(t, op) /\ Arg(t) = At(t).dev /\ (op \notin PrintOps => At(t).dev \in Devices)
<1>1. At(t).op = op /\ At(t) \in CallsOf[t] /\ Arg(t) = At(t).dev
  BY DEF Stepped
<1>2. t \in SwitchThreads
  <2>1. CASE t = "main"
    BY <1>1, <2>1 DEF CallsOf, MainCalls, Call, SwitchOps, FinshOps, ConsoleOps, OwnOps, PrintOps
  <2>2. CASE t = "ulog"
    BY <1>1, <2>2 DEF CallsOf, LogCalls, SwitchOps, FinshOps, ConsoleOps, OwnOps, PrintOps
  <2> QED  BY <2>1, <2>2 DEF Threads, SwitchThreads
<1>3. At(t) \in SwitchCalls
  BY <1>1, <1>2 DEF CallsOf, SwitchThreads
<1>4. op \notin PrintOps => At(t).dev \in Devices
  BY <1>1, <1>3 DEF SwitchCalls, PrintCalls
<1>5. t = "tBtn" => Does("tshell", "idle") /\ Does("main", "idle")
  BY DEF Stepped, Threads, Priority
<1>6. \A u \in Threads \ {t} : First(calls'[u]) = At(u)
  BY DEF Stepped, At
<1> QED  BY <1>1, <1>2, <1>4, <1>5, <1>6 DEF Turn, Does

TypedInv ==
    /\ CallsInv /\ Completed \in DeviceStates /\ console \in Devices
    /\ shell_dev \in Devices \cup {NoDevice}
    /\ saved \in [Threads -> [dev : Devices \cup {NoDevice}, flags : SUBSET FlagNames]]
    /\ Does("ulog", "log_end") => saved["ulog"].dev \in Devices

\* What tshell has to do stays of the kind it was.
KindKept ==
    /\ calls["tshell"] \in Seq(VcomCalls) => calls'["tshell"] \in Seq(VcomCalls)
    /\ calls["tshell"] \in Seq(BootCalls) => calls'["tshell"] \in Seq(BootCalls)

SwitchAct(t) ==
    \/ FinshOpen(t) \/ FinshClose(t) \/ FinshClear(t) \/ FinshAssign(t) \/ FinshIndicate(t)
    \/ ConsoleClose(t) \/ ConsoleOpen(t) \/ ConsoleAssign(t)
    \/ CloseDevice(t) \/ OpenDevice(t) \/ KprintfBegin(t) \/ KprintfEnd(t)

LEMMA GoesIs ==
    ASSUME CallsInv, NEW t \in Threads, NEW op \in SwitchOps, MakesCall(t, op, <<>>),
           UNCHANGED bounds
    PROVE  /\ CallsInv' /\ KindKept /\ Goes(t, op) /\ Arg(t) = At(t).dev
           /\ op \notin PrintOps => At(t).dev \in Devices
<1>1. overlap' = overlap /\ misnamed' = misnamed
  BY DEF bounds
<1>2. /\ CallsInv' /\ Stepped(t, op) /\ Follows(Freedom(t), At(t), First(calls'[t]))
      /\ calls[t] \in Seq(VcomCalls) => calls'[t] \in Seq(VcomCalls)
      /\ calls[t] \in Seq(BootCalls) => calls'[t] \in Seq(BootCalls)
  BY <1>1, CallMade
<1>3. KindKept
  <2>1. CASE t = "tshell"  BY <2>1, <1>2 DEF KindKept
  <2>2. CASE t # "tshell"  BY <2>2, <1>2 DEF KindKept, Stepped, Threads
  <2> QED  BY <2>1, <2>2
<1> QED  BY <1>1, <1>2, <1>3, TurnIs DEF Goes

\* Nobody of higher priority has anything to do.
Undisturbed(t) == t = "tBtn" => Does("tshell", "idle") /\ Does("main", "idle")

\* What holds of "vcom" when thread t opens or closes it: it has its receive fifo, and the
\* close is not the last.
Fits(t) ==
    /\ Does(t, "console_open") /\ At(t).dev = "vcom" => Completed["vcom"].rx
    /\ Does(t, "finsh_close") /\ shell_dev = "vcom" => Completed["vcom"].ref > 1
    /\ Does(t, "console_close") /\ console = "vcom" => Completed["vcom"].ref > 1
    /\ Does(t, "close") /\ At(t).dev = "vcom" => Completed["vcom"].ref > 1

EntryInv ==
    /\ \A d \in Devices : Sound(d, Completed[d])
    /\ \A t \in SwitchThreads : Undisturbed(t) => Fits(t)

LEMMA SwitchMoves ==
    ASSUME TypedInv, SplitInv, EntryInv, ~torn', NEW t \in Threads, SwitchAct(t)
    PROVE  /\ t \in SwitchThreads /\ SwitchMove(t) /\ CallsInv' /\ KindKept
           /\ Completed' \in DeviceStates
           /\ saved' \in [Threads -> [dev : Devices \cup {NoDevice}, flags : SUBSET FlagNames]]
           /\ saved'["ulog"] = saved["ulog"] /\ SplitInv' /\ Framed(t)
<1>1. /\ CallsInv /\ Completed \in DeviceStates /\ console \in Devices
      /\ shell_dev \in Devices \cup {NoDevice} /\ NoDevice \notin Devices
      /\ saved \in [Threads -> [dev : Devices \cup {NoDevice}, flags : SUBSET FlagNames]]
      /\ RxStream \in SUBSET RxStream /\ {"STREAM"} \in SUBSET RxStream /\ "INT_RX" \in RxStream
      /\ devices[console].flags \in SUBSET FlagNames /\ saved[t].flags \in SUBSET FlagNames
      /\ \A d \in Devices : Sound(d, Completed[d])
  BY DEF TypedInv, SplitInv, EntryInv, RxStream, FlagNames, NoDevice, Devices, DeviceStates, DeviceState
<1>2. \A op \in SwitchOps : Goes(t, op) => t \in SwitchThreads
  BY DEF Goes, Turn
<1>3. /\ FinshOps \subseteq SwitchOps /\ ConsoleOps \subseteq SwitchOps /\ OwnOps \subseteq SwitchOps
      /\ PrintOps \subseteq SwitchOps
      /\ FinshOps \cap PrintOps = {} /\ ConsoleOps \cap PrintOps = {} /\ OwnOps \cap PrintOps = {}
      /\ {"finsh_open", "finsh_close", "finsh_clear", "finsh_assign", "finsh_indicate"} \subseteq FinshOps
      /\ {"console_close", "console_open", "console_assign"} \subseteq ConsoleOps
      /\ {"close", "open"} \subseteq OwnOps /\ {"kprintf_begin", "kprintf_end"} \subseteq PrintOps
  BY DEF SwitchOps, FinshOps, ConsoleOps, OwnOps, PrintOps
<1>4. ASSUME NEW op \in SwitchOps, MakesCall(t, op, <<>>), UNCHANGED bounds
      PROVE  /\ CallsInv' /\ KindKept /\ Goes(t, op) /\ Arg(t) = At(t).dev /\ t \in SwitchThreads
             /\ op \notin PrintOps => At(t).dev \in Devices
             /\ io[t].pc = "none" /\ Fits(t) /\ Does(t, op)
  <2>1. /\ CallsInv' /\ KindKept /\ Goes(t, op) /\ Arg(t) = At(t).dev
        /\ op \notin PrintOps => At(t).dev \in Devices
    BY <1>1, <1>4, GoesIs
  <2>2. t \in SwitchThreads /\ Does(t, op) /\ Undisturbed(t)
    BY <2>1 DEF Goes, Turn, Undisturbed
  <2>3. Fits(t)
    BY <2>2 DEF EntryInv
  <2> QED  BY <1>4, <2>1, <2>2, <2>3 DEF MakesCall
<1>5. CASE FinshOpen(t)
  <2>1. CASE Arg(t) = shell_dev
    <3>1. MakesCall(t, "finsh_open", <<>>) /\ devices' = devices /\ io' = io /\ Same /\ UNCHANGED bounds
      BY <1>5, <2>1 DEF FinshOpen, Same
    <3>2. /\ CallsInv' /\ KindKept /\ Goes(t, "finsh_open") /\ Arg(t) = At(t).dev /\ t \in SwitchThreads
          /\ io[t].pc = "none"
      BY <3>1, <1>3, <1>4
    <3>3. SplitInv' /\ Completed' = Completed /\ Completed' \in DeviceStates /\ Framed(t)
      BY <3>1, <3>2, SameIs
    <3> QED  BY <3>1, <3>2, <3>3, <1>1, <2>1 DEF SwitchMove, KeepsShell, Same
  <2>2. CASE Arg(t) # shell_dev
    <3>1. /\ MakesCall(t, "finsh_open", FourCalls(Arg(t))) /\ Same /\ UNCHANGED bounds
          /\ rt_device_open(t, Arg(t), RxStream) /\ devices' = devices /\ io[t].pc = "none"
      BY <1>5, <2>2 DEF FinshOpen, Same, FourCalls, MakesCall
    <3>2. overlap' = overlap /\ misnamed' = misnamed
      BY <3>1 DEF bounds
    <3>3. t \in SwitchThreads
      <4>1. calls[t] \in Seq(CallsOf[t]) /\ calls[t] # <<>> /\ Head(calls[t]).op = "finsh_open"
        BY <1>1, <3>1 DEF CallsInv, MakesCall
      <4>2. Head(calls[t]) \in CallsOf[t]
        BY <4>1
      <4>3. CASE t = "main"  BY <4>1, <4>2, <4>3 DEF CallsOf, MainCalls, Call
      <4>4. CASE t = "ulog"  BY <4>1, <4>2, <4>4 DEF CallsOf, LogCalls
      <4> QED  BY <4>3, <4>4 DEF Threads, SwitchThreads
    <3>4. /\ CallsInv' /\ Stepped(t, "finsh_open") /\ First(calls'[t]) = Call("finsh_close", Arg(t))
          /\ calls[t] \in Seq(VcomCalls) => calls'[t] \in Seq(VcomCalls)
          /\ calls[t] \in Seq(BootCalls) => calls'[t] \in Seq(BootCalls)
      BY <1>1, <3>1, <3>2, <3>3, FourMade DEF SwitchThreads
    <3>5. Turn(t, "finsh_open") /\ Arg(t) = At(t).dev /\ At(t).dev \in Devices
      BY <1>1, <1>3, <3>2, <3>4, TurnIs
    <3>6. KindKept
      <4>1. CASE t = "tshell"  BY <4>1, <3>4 DEF KindKept
      <4>2. CASE t # "tshell"  BY <4>2, <3>4 DEF KindKept, Stepped, Threads
      <4> QED  BY <4>1, <4>2
    <3>7. SplitInv' /\ Completed' \in DeviceStates /\ OpenedFor(At(t).dev, RxStream) /\ Framed(t)
      BY <1>1, <3>1, <3>5, OpenIs
    <3> QED  BY <1>1, <2>2, <3>1, <3>3, <3>4, <3>5, <3>6, <3>7 DEF SwitchMove, OpensShell, Same
  <2> QED  BY <2>1, <2>2
<1>6. CASE FinshClose(t)
  <2>1. MakesCall(t, "finsh_close", <<>>) /\ UNCHANGED bounds /\ Same /\ devices' = devices
    BY <1>6 DEF FinshClose, Same
  <2>2. /\ CallsInv' /\ KindKept /\ Goes(t, "finsh_close") /\ Arg(t) = At(t).dev /\ t \in SwitchThreads
        /\ At(t).dev \in Devices /\ io[t].pc = "none" /\ Fits(t) /\ Does(t, "finsh_close")
    BY <2>1, <1>3, <1>4
  <2>3. CASE shell_dev = NoDevice
    <3>1. io' = io  BY <1>6, <2>3 DEF FinshClose
    <3>2. SplitInv' /\ Completed' = Completed /\ Completed' \in DeviceStates /\ Framed(t)
      BY <2>1, <2>2, <3>1, SameIs
    <3> QED  BY <1>1, <2>1, <2>2, <2>3, <3>2 DEF SwitchMove, ClosesShell, Same
  <2>4. CASE shell_dev # NoDevice
    <3>1. shell_dev \in Devices /\ rt_device_close(t, shell_dev)
      BY <1>1, <1>6, <2>4 DEF FinshClose
    <3>2. shell_dev = "vcom" => Completed[shell_dev].ref > 1
      BY <2>2 DEF Fits
    <3>3. SplitInv' /\ Completed' \in DeviceStates /\ ClosedOnce(shell_dev) /\ Framed(t)
      BY <1>1, <2>1, <2>2, <3>1, <3>2, CloseIs
    <3> QED  BY <1>1, <2>1, <2>2, <3>1, <3>3 DEF SwitchMove, ClosesShell, Same
  <2> QED  BY <2>3, <2>4
<1>7. CASE FinshClear(t)
  <2>1. MakesCall(t, "finsh_clear", <<>>) /\ UNCHANGED bounds /\ Same /\ io' = io
    BY <1>7 DEF FinshClear, Same
  <2>2. /\ CallsInv' /\ KindKept /\ Goes(t, "finsh_clear") /\ Arg(t) = At(t).dev /\ t \in SwitchThreads
        /\ At(t).dev \in Devices /\ io[t].pc = "none"
    BY <2>1, <1>3, <1>4
  <2>3. CASE shell_dev = NoDevice
    <3>1. devices' = devices  BY <1>7, <2>3 DEF FinshClear
    <3>2. SplitInv' /\ Completed' = Completed /\ Completed' \in DeviceStates /\ Framed(t)
      BY <2>1, <2>2, <3>1, SameIs
    <3> QED  BY <1>1, <2>1, <2>2, <2>3, <3>2 DEF SwitchMove, ClearsShell, Same
  <2>4. CASE shell_dev # NoDevice
    <3>1. shell_dev \in Devices /\ devices' = [devices EXCEPT ![shell_dev].ind = FALSE]
      BY <1>1, <1>7, <2>4 DEF FinshClear
    <3>2. SplitInv' /\ Completed' \in DeviceStates /\ Indicated(shell_dev, FALSE) /\ Framed(t)
      BY <1>1, <2>1, <2>2, <3>1, IndicateIs
    <3> QED  BY <1>1, <2>1, <2>2, <3>1, <3>2 DEF SwitchMove, ClearsShell, Same
  <2> QED  BY <2>3, <2>4
<1>8. CASE FinshAssign(t)
  <2>1. /\ MakesCall(t, "finsh_assign", <<>>) /\ UNCHANGED bounds
        /\ shell_dev' = Arg(t) /\ devices' = devices /\ io' = io /\ console' = console /\ saved' = saved
    BY <1>8 DEF FinshAssign
  <2>2. /\ CallsInv' /\ KindKept /\ Goes(t, "finsh_assign") /\ Arg(t) = At(t).dev /\ t \in SwitchThreads
        /\ io[t].pc = "none" /\ Fits(t) /\ Does(t, "finsh_assign") /\ At(t).dev \in Devices
    BY <2>1, <1>3, <1>4
  <2>3. SplitInv' /\ Completed' \in DeviceStates /\ Completed' = Completed /\ Framed(t)
    BY <1>1, <2>1, <2>2, SameIs
  <2> QED  BY <1>1, <2>1, <2>2, <2>3 DEF SwitchMove, AssignsShell
<1>9. CASE FinshIndicate(t)
  <2>1. /\ MakesCall(t, "finsh_indicate", <<>>) /\ UNCHANGED bounds /\ Same
        /\ devices' = [devices EXCEPT ![Arg(t)].ind = TRUE] /\ io' = io
    BY <1>9 DEF FinshIndicate, Same
  <2>2. /\ CallsInv' /\ KindKept /\ Goes(t, "finsh_indicate") /\ Arg(t) = At(t).dev /\ t \in SwitchThreads
        /\ io[t].pc = "none" /\ Fits(t) /\ Does(t, "finsh_indicate") /\ At(t).dev \in Devices
    BY <2>1, <1>3, <1>4
  <2>3. SplitInv' /\ Completed' \in DeviceStates /\ Indicated(At(t).dev, TRUE) /\ Framed(t)
    BY <1>1, <2>1, <2>2, IndicateIs
  <2> QED  BY <1>1, <2>1, <2>2, <2>3 DEF SwitchMove, IndicatesShell, Same
<1>10. CASE ConsoleClose(t)
  <2>1. /\ MakesCall(t, "console_close", <<>>) /\ UNCHANGED bounds /\ Same
        /\ rt_device_close(t, console) /\ devices' = devices
    BY <1>10 DEF ConsoleClose, Same
  <2>2. /\ CallsInv' /\ KindKept /\ Goes(t, "console_close") /\ Arg(t) = At(t).dev /\ t \in SwitchThreads
        /\ io[t].pc = "none" /\ Fits(t) /\ Does(t, "console_close") /\ At(t).dev \in Devices
    BY <2>1, <1>3, <1>4
  <2>3. console = "vcom" => Completed[console].ref > 1
    BY <2>2 DEF Fits
  <2>4. SplitInv' /\ Completed' \in DeviceStates /\ ClosedOnce(console) /\ Framed(t)
    BY <1>1, <2>1, <2>2, <2>3, CloseIs
  <2> QED  BY <1>1, <2>1, <2>2, <2>4 DEF SwitchMove, ClosesConsole, Same
<1>11. CASE ConsoleOpen(t)
  <2>1. /\ MakesCall(t, "console_open", <<>>) /\ UNCHANGED bounds /\ Same
        /\ rt_device_open(t, Arg(t), {"STREAM"}) /\ devices' = devices
    BY <1>11 DEF ConsoleOpen, Same
  <2>2. /\ CallsInv' /\ KindKept /\ Goes(t, "console_open") /\ Arg(t) = At(t).dev /\ t \in SwitchThreads
        /\ io[t].pc = "none" /\ Fits(t) /\ Does(t, "console_open") /\ At(t).dev \in Devices
    BY <2>1, <1>3, <1>4
  <2>3. At(t).dev = "vcom" => Completed[At(t).dev].rx
    BY <2>2 DEF Fits
  <2>4. SplitInv' /\ Completed' \in DeviceStates /\ OpenedFor(At(t).dev, {"STREAM"}) /\ Framed(t)
    BY <1>1, <2>1, <2>2, <2>3, OpenIs
  <2> QED  BY <1>1, <2>1, <2>2, <2>4 DEF SwitchMove, OpensConsole, Same
<1>12. CASE ConsoleAssign(t)
  <2>1. /\ MakesCall(t, "console_assign", <<>>) /\ UNCHANGED bounds
        /\ console' = Arg(t) /\ devices' = devices /\ io' = io /\ shell_dev' = shell_dev /\ saved' = saved
    BY <1>12 DEF ConsoleAssign
  <2>2. /\ CallsInv' /\ KindKept /\ Goes(t, "console_assign") /\ Arg(t) = At(t).dev /\ t \in SwitchThreads
        /\ io[t].pc = "none" /\ Fits(t) /\ Does(t, "console_assign") /\ At(t).dev \in Devices
    BY <2>1, <1>3, <1>4
  <2>3. SplitInv' /\ Completed' \in DeviceStates /\ Completed' = Completed /\ Framed(t)
    BY <1>1, <2>1, <2>2, SameIs
  <2> QED  BY <1>1, <2>1, <2>2, <2>3 DEF SwitchMove, AssignsConsole
<1>13. CASE CloseDevice(t)
  <2>1. /\ MakesCall(t, "close", <<>>) /\ UNCHANGED bounds /\ Same
        /\ rt_device_close(t, Arg(t)) /\ devices' = devices
    BY <1>13 DEF CloseDevice, Same
  <2>2. /\ CallsInv' /\ KindKept /\ Goes(t, "close") /\ Arg(t) = At(t).dev /\ t \in SwitchThreads
        /\ io[t].pc = "none" /\ Fits(t) /\ Does(t, "close") /\ At(t).dev \in Devices
    BY <2>1, <1>3, <1>4
  <2>3. At(t).dev = "vcom" => Completed[At(t).dev].ref > 1
    BY <2>2 DEF Fits
  <2>4. SplitInv' /\ Completed' \in DeviceStates /\ ClosedOnce(At(t).dev) /\ Framed(t)
    BY <1>1, <2>1, <2>2, <2>3, CloseIs
  <2> QED  BY <1>1, <2>1, <2>2, <2>4 DEF SwitchMove, ClosesOwn, Same
<1>14. CASE OpenDevice(t)
  <2>1. /\ MakesCall(t, "open", <<>>) /\ UNCHANGED bounds /\ Same
        /\ rt_device_open(t, Arg(t), RxStream) /\ devices' = devices
    BY <1>14 DEF OpenDevice, Same
  <2>2. /\ CallsInv' /\ KindKept /\ Goes(t, "open") /\ Arg(t) = At(t).dev /\ t \in SwitchThreads
        /\ io[t].pc = "none" /\ Fits(t) /\ Does(t, "open") /\ At(t).dev \in Devices
    BY <2>1, <1>3, <1>4
  <2>3. SplitInv' /\ Completed' \in DeviceStates /\ OpenedFor(At(t).dev, RxStream) /\ Framed(t)
    BY <1>1, <2>1, <2>2, OpenIs
  <2> QED  BY <1>1, <2>1, <2>2, <2>3 DEF SwitchMove, OpensOwn, Same
<1>15. CASE KprintfBegin(t)
  <2>1. /\ MakesCall(t, "kprintf_begin", <<>>) /\ UNCHANGED bounds /\ io' = io /\ Touches(t, console)
        /\ saved' = [saved EXCEPT ![t] = [dev |-> NoDevice, flags |-> devices[console].flags]]
        /\ devices' = [devices EXCEPT ![console].flags = devices[console].flags \cup {"STREAM"}]
        /\ console' = console /\ shell_dev' = shell_dev
    BY <1>15 DEF KprintfBegin
  <2>2. CallsInv' /\ KindKept /\ Goes(t, "kprintf_begin") /\ t \in SwitchThreads /\ io[t].pc = "none"
    BY <2>1, <1>3, <1>4
  <2>3. PICK f : f = devices[console].flags
    OBVIOUS
  <2>4. /\ SplitInv' /\ Completed' \in DeviceStates /\ Flagged(console, f \cup {"STREAM"}) /\ Framed(t)
        /\ devices[console].flags = Completed[console].flags
    <3>1. f \cup {"STREAM"} \in SUBSET FlagNames  BY <1>1, <2>3 DEF FlagNames
    <3>2. devices' = [devices EXCEPT ![console].flags = f \cup {"STREAM"}]  BY <2>1, <2>3
    <3> QED  BY <1>1, <2>1, <2>2, <3>1, <3>2, FlagIs
  <2>5. /\ saved' \in [Threads -> [dev : Devices \cup {NoDevice}, flags : SUBSET FlagNames]]
        /\ saved'["ulog"] = saved["ulog"]
    BY <1>1, <2>1, <2>2 DEF SwitchThreads, Threads
  <2>6. BeginsPrint(t)
    BY <2>1, <2>2, <2>3, <2>4 DEF BeginsPrint
  <2> QED  BY <2>2, <2>4, <2>5, <2>6 DEF SwitchMove
<1>16. CASE KprintfEnd(t)
  <2>1. /\ MakesCall(t, "kprintf_end", <<>>) /\ UNCHANGED bounds /\ Same
        /\ devices' = [devices EXCEPT ![console].flags = saved[t].flags] /\ io' = io /\ Touches(t, console)
    BY <1>16 DEF KprintfEnd, Same
  <2>2. CallsInv' /\ KindKept /\ Goes(t, "kprintf_end") /\ t \in SwitchThreads /\ io[t].pc = "none"
    BY <2>1, <1>3, <1>4
  <2>3. SplitInv' /\ Completed' \in DeviceStates /\ Flagged(console, saved[t].flags) /\ Framed(t)
    BY <1>1, <2>1, <2>2, FlagIs
  <2> QED  BY <1>1, <2>1, <2>2, <2>3 DEF SwitchMove, EndsPrint, Same
<1> QED  BY <1>5, <1>6, <1>7, <1>8, <1>9, <1>10, <1>11, <1>12, <1>13, <1>14, <1>15, <1>16
         DEF SwitchAct

Kept ==
    /\ CallsInv' /\ KindKept /\ Completed' \in DeviceStates
    /\ saved' \in [Threads -> [dev : Devices \cup {NoDevice}, flags : SUBSET FlagNames]]

LEMMA OthersMove ==
    ASSUME TypedInv, SplitInv, EntryInv, ~torn', NEW t \in Threads,
           MainOpen(t) \/ LogBegin(t) \/ LogEnd(t)
    PROVE  /\ Kept /\ (MainMoves \/ LogBegins \/ LogEnds)
           /\ Does("ulog", "log_end") \/ saved'["ulog"].dev = console \/ MainMoves
           /\ MainMoves => saved'["ulog"] = saved["ulog"]
           /\ SplitInv' /\ Framed(t) /\ (t # "main" \/ (io'[t].pc # "none" /\ io'[t].dev = "vcom"))
           /\ t = "main" \/ First(calls'["main"]) = At("main")
<1>1. /\ CallsInv /\ Completed \in DeviceStates /\ console \in Devices
      /\ saved \in [Threads -> [dev : Devices \cup {NoDevice}, flags : SUBSET FlagNames]]
      /\ {"INT_RX"} \in SUBSET RxStream /\ \A d \in Devices : Sound(d, Completed[d])
      /\ devices[console].flags \in SUBSET FlagNames /\ saved["ulog"].flags \in SUBSET FlagNames
      /\ Does("ulog", "log_end") => saved["ulog"].dev \in Devices
  BY DEF TypedInv, SplitInv, EntryInv, FlagNames, DeviceStates, DeviceState, RxStream, Threads
<1>2. ASSUME NEW op \in {"main_open", "log_begin", "log_end"}, MakesCall(t, op, <<>>), UNCHANGED bounds
      PROVE  /\ CallsInv' /\ KindKept /\ Does(t, op) /\ Others(t) /\ Arg(t) = At(t).dev
             /\ Follows(Freedom(t), At(t), First(calls'[t])) /\ At(t) \in CallsOf[t]
             /\ t = IF op = "main_open" THEN "main" ELSE "ulog"
             /\ overlap' = overlap /\ misnamed' = misnamed /\ io[t].pc = "none"
             /\ t = "main" \/ First(calls'["main"]) = At("main")
  <2>1. overlap' = overlap /\ misnamed' = misnamed
    BY <1>2 DEF bounds
  <2>2. CallsInv' /\ Stepped(t, op) /\ Follows(Freedom(t), At(t), First(calls'[t]))
    BY <1>1, <1>2, <2>1, CallMade
  <2>3. At(t) \in CallsOf[t] /\ At(t).op = op
    BY <2>2 DEF Stepped
  <2>4. t \notin SwitchThreads
    BY <2>3, <1>2 DEF CallsOf, SwitchThreads, SwitchCalls, PrintCalls, FinshOps, ConsoleOps, OwnOps,
                      PrintOps
  <2>5. t = "main" => op = "main_open"
    BY <2>3 DEF CallsOf, MainCalls, Call
  <2>6. t = "ulog" => op # "main_open"
    BY <2>3 DEF CallsOf, LogCalls
  <2>7. KindKept /\ Others(t)
    BY <2>2, <2>4 DEF KindKept, Stepped, Others, At, Threads, SwitchThreads
  <2>8. io[t].pc = "none" /\ (t = "main" \/ First(calls'["main"]) = At("main"))
    BY <1>2, <2>7 DEF MakesCall, Others, Threads
  <2> QED  BY <2>1, <2>2, <2>3, <2>4, <2>5, <2>6, <2>7, <2>8 DEF Threads, SwitchThreads, Does, Stepped
<1>3. CASE MainOpen(t)
  <2>1. /\ MakesCall(t, "main_open", <<>>) /\ UNCHANGED bounds /\ Same
        /\ rt_device_open(t, Arg(t), {"INT_RX"}) /\ devices' = devices
    BY <1>3 DEF MainOpen, Same
  <2>2. /\ CallsInv' /\ KindKept /\ Does("main", "main_open") /\ Others("main") /\ t = "main"
        /\ Follows(Freedom(t), At(t), First(calls'[t])) /\ At(t) \in CallsOf[t] /\ Arg(t) = At(t).dev
        /\ overlap' = overlap /\ misnamed' = misnamed /\ io[t].pc = "none"
    BY <1>2, <2>1
  <2>3. Arg(t) = "vcom" /\ First(calls'["main"]).op = "idle"
    BY <2>2 DEF CallsOf, MainCalls, Call, Follows, Does
  <2>4. /\ SplitInv' /\ Completed' \in DeviceStates /\ OpenedFor("vcom", {"INT_RX"}) /\ Framed(t)
        /\ io'[t].pc = "keep_stream" /\ io'[t].dev = "vcom"
    <3>1. "vcom" \in Devices /\ "INT_RX" \in {"INT_RX"}  BY DEF Devices
    <3> QED  BY <3>1, <2>1, <2>2, <2>3, <1>1, OpenIs
  <2>5. Kept /\ MainMoves
    BY <1>1, <2>1, <2>2, <2>3, <2>4 DEF Kept, MainMoves, Same
  <2> QED  BY <2>1, <2>2, <2>4, <2>5 DEF Same
<1>4. CASE LogBegin(t)
  <2>1. /\ MakesCall(t, "log_begin", <<>>) /\ UNCHANGED bounds /\ io' = io /\ Touches(t, console)
        /\ saved' = [saved EXCEPT ![t] = [dev |-> console, flags |-> devices[console].flags]]
        /\ devices' = [devices EXCEPT ![console].flags = devices[console].flags \cup {"STREAM"}]
        /\ console' = console /\ shell_dev' = shell_dev
    BY <1>4 DEF LogBegin
  <2>2. /\ CallsInv' /\ KindKept /\ Does("ulog", "log_begin") /\ Others("ulog") /\ t = "ulog"
        /\ Follows(Freedom(t), At(t), First(calls'[t])) /\ io[t].pc = "none"
        /\ overlap' = overlap /\ misnamed' = misnamed /\ First(calls'["main"]) = At("main")
    BY <1>2, <2>1
  <2>3. First(calls'["ulog"]).op = "log_end"
    BY <2>2 DEF Follows, Does
  <2>4. PICK f : f = devices[console].flags
    OBVIOUS
  <2>5. /\ SplitInv' /\ Completed' \in DeviceStates /\ Flagged(console, f \cup {"STREAM"}) /\ Framed(t)
        /\ devices[console].flags = Completed[console].flags
    <3>1. f \cup {"STREAM"} \in SUBSET FlagNames  BY <1>1, <2>4 DEF FlagNames
    <3>2. devices' = [devices EXCEPT ![console].flags = f \cup {"STREAM"}]  BY <2>1, <2>4
    <3> QED  BY <1>1, <2>1, <2>2, <3>1, <3>2, FlagIs
  <2>6. /\ saved' \in [Threads -> [dev : Devices \cup {NoDevice}, flags : SUBSET FlagNames]]
        /\ saved'["ulog"].dev = console
    BY <1>1, <2>1, <2>2
  <2>7. Kept /\ LogBegins
    BY <2>1, <2>2, <2>3, <2>4, <2>5, <2>6 DEF Kept, LogBegins
  <2>8. ~MainMoves
    BY <2>2 DEF MainMoves, Does, Others, Threads, Priority
  <2> QED  BY <2>2, <2>5, <2>6, <2>7, <2>8
<1>5. CASE LogEnd(t)
  <2>1. /\ MakesCall(t, "log_end", <<>>) /\ UNCHANGED bounds /\ Same /\ io' = io /\ Touches(t, saved[t].dev)
        /\ devices' = [devices EXCEPT ![saved[t].dev].flags = saved[t].flags]
    BY <1>5 DEF LogEnd, Same
  <2>2. /\ CallsInv' /\ KindKept /\ Does("ulog", "log_end") /\ Others("ulog") /\ t = "ulog"
        /\ Follows(Freedom(t), At(t), First(calls'[t])) /\ io[t].pc = "none"
        /\ overlap' = overlap /\ misnamed' = misnamed /\ First(calls'["main"]) = At("main")
    BY <1>2, <2>1
  <2>3. First(calls'["ulog"]).op = "idle"
    BY <2>2 DEF Follows, Does
  <2>4. /\ SplitInv' /\ Completed' \in DeviceStates /\ Framed(t)
        /\ Flagged(saved["ulog"].dev, saved["ulog"].flags)
    BY <1>1, <2>1, <2>2, FlagIs
  <2>5. Kept /\ LogEnds
    BY <1>1, <2>1, <2>2, <2>3, <2>4 DEF Kept, LogEnds, Same
  <2>6. saved'["ulog"] = saved["ulog"]
    BY <2>1 DEF Same
  <2> QED  BY <2>2, <2>4, <2>5, <2>6
<1> QED  BY <1>3, <1>4, <1>5

\* An idle thread gets a program.
LEMMA Started ==
    ASSUME CallsInv, NEW t \in Threads, Idle(t), misnamed' \in BOOLEAN, overlap' \in BOOLEAN,
           NEW p, p \in Seq(CallsOf[t]), Chain(Freedom(t)', p), calls' = [calls EXCEPT ![t] = p],
           t = "tshell" \/ misnamed' = misnamed
    PROVE  CallsInv' /\ Does(t, "idle") /\ First(calls'[t]) = First(p) /\ Others(t)
<1>1. /\ calls' = [u \in Threads |-> calls'[u]] /\ DOMAIN calls' = Threads
      /\ calls'[t] = p /\ \A u \in Threads \ {t} : calls'[u] = calls[u]
  BY DEF CallsInv
<1>2. \A u \in Threads \ {t} : Freedom(u)' = Freedom(u)
  BY DEF Freedom
<1>3. CallsInv'
  <2>1. ASSUME NEW u \in Threads PROVE calls'[u] \in Seq(CallsOf[u]) /\ Chain(Freedom(u)', calls'[u])
    <3>1. CASE u = t  BY <3>1, <1>1
    <3>2. CASE u # t  BY <3>2, <1>1, <1>2 DEF CallsInv
    <3> QED  BY <3>1, <3>2
  <2> QED  BY <2>1, <1>1 DEF CallsInv
<1>4. Does(t, "idle") /\ \A u \in Threads : Priority[u] < Priority[t] => Does(u, "idle")
  BY IdleIs, RunsIs DEF Idle, Busy
<1> QED  BY <1>1, <1>3, <1>4 DEF Others, At

LEMMA UserMoves ==
    ASSUME TypedInv, SplitInv,
           (\E d \in Devices : PressKey(d) \/ TypeChangePrint(d)) \/ LogOutput
    PROVE  /\ CallsInv' /\ Completed' = Completed /\ Same /\ SplitInv' /\ devices' = devices /\ io' = io
           /\ (KeyIsPressed \/ ChangeIsTyped \/ LogIsWritten)
           /\ KindKept \/ (ChangeIsTyped /\ calls'["tshell"] \in Seq(VcomCalls))
<1>1. CallsInv /\ misnamed \in BOOLEAN /\ overlap \in BOOLEAN
  BY DEF TypedInv, CallsInv
<1>0. ASSUME devices' = devices, io' = io PROVE Completed' = Completed /\ SplitInv'
  BY <1>0 DEF Completed, SplitInv, Within
<1>2. ASSUME NEW d \in Devices, PressKey(d)
      PROVE  CallsInv' /\ devices' = devices /\ io' = io /\ Same /\ KeyIsPressed /\ KindKept
  <2>1. /\ Idle("tBtn") /\ calls' = [calls EXCEPT !["tBtn"] = LongPress(d)] /\ devices' = devices /\ io' = io
        /\ Same /\ overlap' = overlap /\ misnamed' = misnamed
    BY <1>2 DEF PressKey, Same
  <2>2. "tBtn" \in Threads /\ CallsOf["tBtn"] = SwitchCalls
    BY DEF Threads, CallsOf
  <2>3. PICK p : p = LongPress(d)
    OBVIOUS
  <2>4. p \in Seq(SwitchCalls) /\ Chain(Freedom("tBtn")', p) /\ First(p) = Call("kprintf_begin", NoDevice)
    BY <2>3, Programs, LongIs
  <2>5. /\ CallsInv' /\ Does("tBtn", "idle") /\ First(calls'["tBtn"]) = First(p) /\ Others("tBtn")
    BY <1>1, <2>1, <2>2, <2>3, <2>4, Started
  <2>6. KindKept
    <3>1. calls'["tshell"] = calls["tshell"]
      BY <1>1, <2>1 DEF CallsInv, Threads
    <3> QED  BY <3>1 DEF KindKept
  <2> QED  BY <1>0, <2>1, <2>4, <2>5, <2>6 DEF KeyIsPressed
<1>3. ASSUME NEW d \in Devices, TypeChangePrint(d)
      PROVE  /\ CallsInv' /\ devices' = devices /\ io' = io /\ Same /\ ChangeIsTyped
             /\ calls'["tshell"] \in Seq(VcomCalls)
  <2>1. /\ Idle("tshell") /\ calls' = [calls EXCEPT !["tshell"] = ChangePrint(d)] /\ devices' = devices /\ io' = io
        /\ Same /\ overlap' = (overlap \/ calls["tBtn"] # <<>>) /\ misnamed' = (misnamed \/ d # "vcom")
    BY <1>3 DEF TypeChangePrint, Same
  <2>2. "tshell" \in Threads /\ "tBtn" \in Threads /\ CallsOf["tshell"] = SwitchCalls
    BY DEF Threads, CallsOf
  <2>3. PICK p : p = ChangePrint(d)
    OBVIOUS
  <2>4. /\ overlap' \in BOOLEAN /\ misnamed' \in BOOLEAN /\ (misnamed => misnamed')
        /\ (overlap' <=> overlap \/ ~Does("tBtn", "idle"))
    BY <1>1, <2>1, <2>2, IdleIs
  <2>5. Freedom("tshell")' = "any" \/ d = "vcom"
    BY <2>1 DEF Freedom
  <2>6. /\ p \in Seq(VcomCalls) /\ Chain(Freedom("tshell")', p)
        /\ First(p) = Call("finsh_open", "vcom")
    BY <2>3, <2>5, Programs, ChangeIs
  <2>7. p \in Seq(SwitchCalls)
    <3>1. VcomCalls \subseteq SwitchCalls
      BY DEF VcomCalls, SwitchCalls, Devices
    <3> QED  BY <3>1, <2>6
  <2>8. /\ CallsInv' /\ Does("tshell", "idle") /\ First(calls'["tshell"]) = First(p) /\ Others("tshell")
    BY <1>1, <2>1, <2>2, <2>3, <2>4, <2>6, <2>7, Started
  <2>9. calls'["tshell"] = p
    BY <1>1, <2>1, <2>2, <2>3 DEF CallsInv
  <2> QED  BY <1>0, <2>1, <2>4, <2>6, <2>8, <2>9 DEF ChangeIsTyped
<1>4. ASSUME LogOutput
      PROVE  CallsInv' /\ devices' = devices /\ io' = io /\ Same /\ LogIsWritten /\ KindKept
  <2>1. /\ Idle("ulog") /\ calls' = [calls EXCEPT !["ulog"] = Logging] /\ devices' = devices /\ io' = io
        /\ Same /\ overlap' = overlap /\ misnamed' = misnamed
    BY <1>4 DEF LogOutput, Same, Logging
  <2>2. "ulog" \in Threads /\ CallsOf["ulog"] = LogCalls
    BY DEF Threads, CallsOf
  <2>3. PICK p : p = Logging
    OBVIOUS
  <2>4. p \in Seq(LogCalls) /\ Chain(Freedom("ulog")', p) /\ First(p) = Call("log_begin", NoDevice)
    BY <2>3, ShortIs
  <2>5. /\ CallsInv' /\ Does("ulog", "idle") /\ First(calls'["ulog"]) = First(p) /\ Others("ulog")
    BY <1>1, <2>1, <2>2, <2>3, <2>4, Started
  <2>6. KindKept
    <3>1. calls'["tshell"] = calls["tshell"]
      BY <1>1, <2>1 DEF CallsInv, Threads
    <3> QED  BY <3>1 DEF KindKept
  <2> QED  BY <1>0, <2>1, <2>4, <2>5, <2>6 DEF LogIsWritten
<1> QED  BY <1>0, <1>2, <1>3, <1>4

WhereInv ==
    /\ TypedInv /\ PhaseInv /\ PlaceInv
    /\ (Does("tBtn", "idle") /\ Does("ulog", "idle")) \/ Does("main", "idle")
    /\ overlap \/ Does("tshell", "idle") \/ Does("tBtn", "idle")

LEMMA HeadIs ==
    ASSUME NEW S, NEW s \in Seq(S)
    PROVE  /\ s # <<>> => First(s) \in S
           /\ s = <<>> => First(s).op = "idle"
BY DEF First, CallAt, Call

LEMMA HeadOps ==
    ASSUME NEW b
    PROVE  /\ b \in SwitchCalls => b.op \in SwitchOps /\ (b.op \notin PrintOps => b.dev \in Devices)
           /\ b \in VcomCalls => /\ b.op \in FinshOps \cup ConsoleOps => b.dev = "vcom"
                                 /\ b.op \in OwnOps => b.dev \in Devices
           /\ b \in BootCalls => b.op \in FinshOps \cup PrintOps /\ (b.op \in FinshOps => b.dev = "uart1")
<1>1. b \in SwitchCalls => b.op \in SwitchOps /\ (b.op \notin PrintOps => b.dev \in Devices)
  BY DEF SwitchCalls, PrintCalls, SwitchOps
<1>2. b \in VcomCalls => /\ b.op \in FinshOps \cup ConsoleOps => b.dev = "vcom"
                         /\ b.op \in OwnOps => b.dev \in Devices
  BY DEF VcomCalls, PrintCalls, FinshOps, ConsoleOps, OwnOps, PrintOps
<1>3. b \in BootCalls => b.op \in FinshOps \cup PrintOps /\ (b.op \in FinshOps => b.dev = "uart1")
  BY DEF BootCalls, PrintCalls, FinshOps, PrintOps
<1> QED  BY <1>1, <1>2, <1>3

\* The calls the shell and tBtn are at, before and after a step.
Ahead(s, b) ==
    /\ s.op \in SwitchOps \cup {"idle"} /\ b.op \in SwitchOps \cup {"idle"}
    /\ s.op \notin PrintOps \cup {"idle"} => s.dev \in Devices
    /\ b.op \notin PrintOps \cup {"idle"} => b.dev \in Devices
VcomAhead(s) == s.op \in FinshOps \cup ConsoleOps => s.dev = "vcom"
BootAhead(s) ==
    s.op = "idle" \/ (s.op \in FinshOps \cup PrintOps /\ (s.op \in FinshOps => s.dev = "uart1"))

LEMMA AheadIs ==
    ASSUME NEW s \in Seq(SwitchCalls), NEW b \in Seq(SwitchCalls)
    PROVE  /\ Ahead(First(s), First(b))
           /\ s \in Seq(VcomCalls) => VcomAhead(First(s))
           /\ s \in Seq(BootCalls) => BootAhead(First(s))
           /\ First(s).op = "idle" => s = <<>>
<1>1. /\ s # <<>> => First(s) \in SwitchCalls /\ (s \in Seq(VcomCalls) => First(s) \in VcomCalls)
                                             /\ (s \in Seq(BootCalls) => First(s) \in BootCalls)
      /\ s = <<>> => First(s).op = "idle"
      /\ b # <<>> => First(b) \in SwitchCalls
      /\ b = <<>> => First(b).op = "idle"
  BY HeadIs
<1>2. "idle" \notin FinshOps \cup ConsoleOps \cup SwitchOps
  BY DEF FinshOps, ConsoleOps, OwnOps, PrintOps, SwitchOps
<1>3. Ahead(First(s), First(b))
  BY <1>1, HeadOps DEF Ahead
<1>4. s \in Seq(VcomCalls) => VcomAhead(First(s))
  BY <1>1, <1>2, HeadOps DEF VcomAhead
<1>5. s \in Seq(BootCalls) => BootAhead(First(s))
  BY <1>1, HeadOps DEF BootAhead
<1>6. First(s).op = "idle" => s = <<>>
  BY <1>1, <1>2, HeadOps
<1> QED  BY <1>3, <1>4, <1>5, <1>6

LEMMA AheadNow ==
    ASSUME CallsInv
    PROVE  /\ Ahead(At("tshell"), At("tBtn"))
           /\ calls["tshell"] \in Seq(VcomCalls) => VcomAhead(At("tshell"))
           /\ calls["tshell"] \in Seq(BootCalls) => BootAhead(At("tshell"))
<1>1. calls["tshell"] \in Seq(SwitchCalls) /\ calls["tBtn"] \in Seq(SwitchCalls)
  BY DEF CallsInv, CallsOf, Threads
<1> QED  BY <1>1, AheadIs DEF At

LEMMA AheadNext ==
    ASSUME CallsInv'
    PROVE  /\ Ahead(First(calls'["tshell"]), First(calls'["tBtn"]))
           /\ calls'["tshell"] \in Seq(VcomCalls) => VcomAhead(First(calls'["tshell"]))
           /\ calls'["tshell"] \in Seq(BootCalls) => BootAhead(First(calls'["tshell"]))
           /\ First(calls'["tshell"]).op = "idle" => calls'["tshell"] \in Seq(VcomCalls)
<1>1. calls'["tshell"] \in Seq(SwitchCalls) /\ calls'["tBtn"] \in Seq(SwitchCalls)
  BY DEF CallsInv, CallsOf, Threads
<1>2. PICK s, b : s = calls'["tshell"] /\ b = calls'["tBtn"]
  OBVIOUS
<1>3. /\ Ahead(First(s), First(b))
      /\ s \in Seq(VcomCalls) => VcomAhead(First(s))
      /\ s \in Seq(BootCalls) => BootAhead(First(s))
      /\ First(s).op = "idle" => s = <<>>
  BY <1>1, <1>2, AheadIs
<1>4. <<>> \in Seq(VcomCalls)
  OBVIOUS
<1> QED  BY <1>2, <1>3, <1>4

\* The main thread is nowhere but inside its open of "vcom", which it leaves open.
MainInv ==
    /\ io["main"].pc # "none" => io["main"].dev = "vcom"
    /\ Does("main", "idle") /\ io["main"].pc = "none" => devices["vcom"].ref > 0

\* The steps that are not statements of an open or a close.
CallOrUser ==
    \/ \E t \in Threads : SwitchAct(t) \/ MainOpen(t) \/ LogBegin(t) \/ LogEnd(t)
    \/ \E d \in Devices : PressKey(d) \/ TypeChangePrint(d)
    \/ LogOutput

LEMMA Moved ==
    ASSUME TypedInv, SplitInv, EntryInv, MainInv, ~torn', CallOrUser
    PROVE  /\ Move /\ TypedInv' /\ SplitInv' /\ MainInv'
           /\ KindKept \/ (ChangeIsTyped /\ calls'["tshell"] \in Seq(VcomCalls))
<1>0. "main" \in Threads /\ "vcom" \in Devices
  BY DEF Threads, Devices
<1>1. ASSUME NEW t \in Threads, SwitchAct(t)
      PROVE  Move /\ TypedInv' /\ KindKept /\ SplitInv' /\ MainInv'
  <2>1. /\ t \in SwitchThreads /\ SwitchMove(t) /\ CallsInv' /\ KindKept
        /\ Completed' \in DeviceStates
        /\ saved' \in [Threads -> [dev : Devices \cup {NoDevice}, flags : SUBSET FlagNames]]
        /\ saved'["ulog"] = saved["ulog"] /\ SplitInv' /\ Framed(t)
    BY <1>1, SwitchMoves
  <2>2. console' \in Devices /\ shell_dev' \in Devices \cup {NoDevice}
    BY <2>1 DEF TypedInv, SwitchMove, KeepsShell, OpensShell, ClosesShell, ClearsShell,
       AssignsShell,
        IndicatesShell, ClosesConsole, OpensConsole, AssignsConsole, ClosesOwn, OpensOwn,
        BeginsPrint, EndsPrint, Same
  <2>3. First(calls'["ulog"]) = At("ulog") /\ First(calls'["main"]) = At("main")
    BY <2>1 DEF SwitchMove, KeepsShell, OpensShell, ClosesShell, ClearsShell, AssignsShell,
        IndicatesShell, ClosesConsole, OpensConsole, AssignsConsole, ClosesOwn, OpensOwn,
        BeginsPrint, EndsPrint, Goes, Turn, SwitchThreads, Threads
  <2>4. MainInv'
    <3>1. io'["main"] = io["main"] /\ devices'["vcom"].ref = devices["vcom"].ref
      BY <1>0, <2>1 DEF Framed, SwitchThreads
    <3> QED  BY <2>3, <3>1 DEF MainInv, Does, At
  <2> QED  BY <2>1, <2>2, <2>3, <2>4 DEF TypedInv, Move, Does, At
<1>2. ASSUME NEW t \in Threads, MainOpen(t) \/ LogBegin(t) \/ LogEnd(t)
      PROVE  Move /\ TypedInv' /\ KindKept /\ SplitInv' /\ MainInv'
  <2>1. /\ Kept /\ (MainMoves \/ LogBegins \/ LogEnds)
        /\ Does("ulog", "log_end") \/ saved'["ulog"].dev = console \/ MainMoves
        /\ MainMoves => saved'["ulog"] = saved["ulog"]
        /\ SplitInv' /\ Framed(t) /\ (t # "main" \/ (io'[t].pc # "none" /\ io'[t].dev = "vcom"))
        /\ t = "main" \/ First(calls'["main"]) = At("main")
    BY <1>2, OthersMove
  <2>2. console' = console /\ shell_dev' = shell_dev
    BY <2>1 DEF MainMoves, LogBegins, LogEnds, Same
  <2>3. MainMoves => First(calls'["ulog"]) = At("ulog")
    BY DEF MainMoves, Others, Threads
  <2>4. LogEnds => First(calls'["ulog"]).op = "idle"
    BY DEF LogEnds
  <2>5. LogBegins => Does("ulog", "log_begin")
    BY DEF LogBegins
  <2>6. Does("ulog", "log_end")' => saved'["ulog"].dev \in Devices
    BY <2>1, <2>3, <2>4, <2>5 DEF TypedInv, Does, At
  <2>7. MainInv'
    <3>1. CASE t = "main"
      BY <2>1, <3>1 DEF MainInv
    <3>2. CASE t # "main"
      <4>1. io'["main"] = io["main"] /\ devices'["vcom"].ref = devices["vcom"].ref
        BY <1>0, <2>1, <3>2 DEF Framed
      <4> QED  BY <2>1, <3>2, <4>1 DEF MainInv, Does, At
    <3> QED  BY <3>1, <3>2
  <2> QED  BY <2>1, <2>2, <2>6, <2>7 DEF TypedInv, Move, Kept
<1>3. ASSUME (\E d \in Devices : PressKey(d) \/ TypeChangePrint(d)) \/ LogOutput
      PROVE  /\ Move /\ TypedInv' /\ SplitInv' /\ MainInv'
             /\ KindKept \/ (ChangeIsTyped /\ calls'["tshell"] \in Seq(VcomCalls))
  <2>1. /\ CallsInv' /\ Completed' = Completed /\ Same /\ SplitInv' /\ devices' = devices /\ io' = io
        /\ (KeyIsPressed \/ ChangeIsTyped \/ LogIsWritten)
        /\ KindKept \/ (ChangeIsTyped /\ calls'["tshell"] \in Seq(VcomCalls))
    BY <1>3, UserMoves
  <2>2. First(calls'["ulog"]) = At("ulog") \/ First(calls'["ulog"]).op = "log_begin"
    BY <2>1 DEF KeyIsPressed, ChangeIsTyped, LogIsWritten, Others, Threads, Call
  <2>3. First(calls'["main"]) = At("main")
    BY <2>1 DEF KeyIsPressed, ChangeIsTyped, LogIsWritten, Others, Threads
  <2>4. MainInv'
    BY <2>1, <2>3 DEF MainInv, Does, At
  <2> QED  BY <2>1, <2>2, <2>4 DEF TypedInv, Move, Does, At, Same
<1> QED  BY <1>1, <1>2, <1>3 DEF CallOrUser

LEMMA WhereKept ==
    ASSUME WhereInv, Move, TypedInv',
           KindKept \/ (ChangeIsTyped /\ calls'["tshell"] \in Seq(VcomCalls))
    PROVE  WhereInv'
<1>1. /\ Ahead(At("tshell"), At("tBtn"))
      /\ calls["tshell"] \in Seq(VcomCalls) => VcomAhead(At("tshell"))
      /\ calls["tshell"] \in Seq(BootCalls) => BootAhead(At("tshell"))
  BY AheadNow DEF WhereInv, TypedInv
<1>2. /\ Ahead(First(calls'["tshell"]), First(calls'["tBtn"]))
      /\ calls'["tshell"] \in Seq(VcomCalls) => VcomAhead(First(calls'["tshell"]))
      /\ calls'["tshell"] \in Seq(BootCalls) => BootAhead(First(calls'["tshell"]))
      /\ First(calls'["tshell"]).op = "idle" => calls'["tshell"] \in Seq(VcomCalls)
  BY AheadNext DEF TypedInv
<1>3. /\ PhaseInv /\ PlaceInv /\ console \in Devices /\ shell_dev \in Devices \cup {NoDevice}
      /\ (Does("tBtn", "idle") /\ Does("ulog", "idle")) \/ Does("main", "idle")
      /\ overlap \/ Does("tshell", "idle") \/ Does("tBtn", "idle")
  BY DEF WhereInv, TypedInv
<1> USE <1>1, <1>3
    DEF KindKept, ChangeIsTyped, Goes, Turn, Same, Follows, Freedom, To, Call, Does, At, Ahead,
        VcomAhead, BootAhead, SwitchThreads, Threads, Priority, Others, Devices, NoDevice,
        FinshFrom, FinshOps, ConsoleOps, OwnOps, PrintOps, SwitchOps, PhaseInv, PlaceInv
<1> DEFINE Rest == ((Does("tBtn", "idle") /\ Does("ulog", "idle")) \/ Does("main", "idle"))
                   /\ (overlap \/ Does("tshell", "idle") \/ Does("tBtn", "idle"))
<1>4. ASSUME NEW t \in SwitchThreads, KeepsShell(t) PROVE PhaseInv' /\ PlaceInv' /\ Rest'
  <2>1. PhaseInv'  BY <1>2, <1>4 DEF KeepsShell
  <2>2. PlaceInv'
    <3>1. CASE t = "tshell"  BY <3>1, <1>2, <1>4 DEF KeepsShell
    <3>2. CASE t = "tBtn"  BY <3>2, <1>2, <1>4 DEF KeepsShell
    <3> QED  BY <3>1, <3>2
  <2>3. Rest'  BY <1>4 DEF KeepsShell
  <2> QED  BY <2>1, <2>2, <2>3
<1>5. ASSUME NEW t \in SwitchThreads, OpensShell(t) PROVE PhaseInv' /\ PlaceInv' /\ Rest'
  <2>1. PhaseInv'  BY <1>2, <1>5 DEF OpensShell
  <2>2. PlaceInv'
    <3>1. CASE t = "tshell"  BY <3>1, <1>2, <1>5 DEF OpensShell
    <3>2. CASE t = "tBtn"  BY <3>2, <1>2, <1>5 DEF OpensShell
    <3> QED  BY <3>1, <3>2
  <2>3. Rest'  BY <1>5 DEF OpensShell
  <2> QED  BY <2>1, <2>2, <2>3
<1>6. ASSUME NEW t \in SwitchThreads, ClosesShell(t) PROVE PhaseInv' /\ PlaceInv' /\ Rest'
  <2>1. PhaseInv'  BY <1>2, <1>6 DEF ClosesShell
  <2>2. PlaceInv'
    <3>1. CASE t = "tshell"  BY <3>1, <1>2, <1>6 DEF ClosesShell
    <3>2. CASE t = "tBtn"  BY <3>2, <1>2, <1>6 DEF ClosesShell
    <3> QED  BY <3>1, <3>2
  <2>3. Rest'  BY <1>6 DEF ClosesShell
  <2> QED  BY <2>1, <2>2, <2>3
<1>7. ASSUME NEW t \in SwitchThreads, ClearsShell(t) PROVE PhaseInv' /\ PlaceInv' /\ Rest'
  <2>1. PhaseInv'  BY <1>2, <1>7 DEF ClearsShell
  <2>2. PlaceInv'
    <3>1. CASE t = "tshell"  BY <3>1, <1>2, <1>7 DEF ClearsShell
    <3>2. CASE t = "tBtn"  BY <3>2, <1>2, <1>7 DEF ClearsShell
    <3> QED  BY <3>1, <3>2
  <2>3. Rest'  BY <1>7 DEF ClearsShell
  <2> QED  BY <2>1, <2>2, <2>3
<1>8. ASSUME NEW t \in SwitchThreads, AssignsShell(t) PROVE PhaseInv' /\ PlaceInv' /\ Rest'
  <2>1. PhaseInv'  BY <1>2, <1>8 DEF AssignsShell
  <2>2. PlaceInv'
    <3>1. CASE t = "tshell"  BY <3>1, <1>2, <1>8 DEF AssignsShell
    <3>2. CASE t = "tBtn"  BY <3>2, <1>2, <1>8 DEF AssignsShell
    <3> QED  BY <3>1, <3>2
  <2>3. Rest'  BY <1>8 DEF AssignsShell
  <2> QED  BY <2>1, <2>2, <2>3
<1>9. ASSUME NEW t \in SwitchThreads, IndicatesShell(t) PROVE PhaseInv' /\ PlaceInv' /\ Rest'
  <2>1. PhaseInv'  BY <1>2, <1>9 DEF IndicatesShell
  <2>2. PlaceInv'
    <3>1. CASE t = "tshell"  BY <3>1, <1>2, <1>9 DEF IndicatesShell
    <3>2. CASE t = "tBtn"  BY <3>2, <1>2, <1>9 DEF IndicatesShell
    <3> QED  BY <3>1, <3>2
  <2>3. Rest'  BY <1>9 DEF IndicatesShell
  <2> QED  BY <2>1, <2>2, <2>3
<1>10. ASSUME NEW t \in SwitchThreads, ClosesConsole(t) PROVE PhaseInv' /\ PlaceInv' /\ Rest'
  <2>1. PhaseInv'  BY <1>2, <1>10 DEF ClosesConsole
  <2>2. PlaceInv'
    <3>1. CASE t = "tshell"  BY <3>1, <1>2, <1>10 DEF ClosesConsole
    <3>2. CASE t = "tBtn"  BY <3>2, <1>2, <1>10 DEF ClosesConsole
    <3> QED  BY <3>1, <3>2
  <2>3. Rest'  BY <1>10 DEF ClosesConsole
  <2> QED  BY <2>1, <2>2, <2>3
<1>11. ASSUME NEW t \in SwitchThreads, OpensConsole(t) PROVE PhaseInv' /\ PlaceInv' /\ Rest'
  <2>1. PhaseInv'  BY <1>2, <1>11 DEF OpensConsole
  <2>2. PlaceInv'
    <3>1. CASE t = "tshell"  BY <3>1, <1>2, <1>11 DEF OpensConsole
    <3>2. CASE t = "tBtn"  BY <3>2, <1>2, <1>11 DEF OpensConsole
    <3> QED  BY <3>1, <3>2
  <2>3. Rest'  BY <1>11 DEF OpensConsole
  <2> QED  BY <2>1, <2>2, <2>3
<1>12. ASSUME NEW t \in SwitchThreads, AssignsConsole(t) PROVE PhaseInv' /\ PlaceInv' /\ Rest'
  <2>1. PhaseInv'  BY <1>2, <1>12 DEF AssignsConsole
  <2>2. PlaceInv'
    <3>1. CASE t = "tshell"  BY <3>1, <1>2, <1>12 DEF AssignsConsole
    <3>2. CASE t = "tBtn"  BY <3>2, <1>2, <1>12 DEF AssignsConsole
    <3> QED  BY <3>1, <3>2
  <2>3. Rest'  BY <1>12 DEF AssignsConsole
  <2> QED  BY <2>1, <2>2, <2>3
<1>13. ASSUME NEW t \in SwitchThreads, ClosesOwn(t) PROVE PhaseInv' /\ PlaceInv' /\ Rest'
  <2>1. PhaseInv'  BY <1>2, <1>13 DEF ClosesOwn
  <2>2. PlaceInv'
    <3>1. CASE t = "tshell"  BY <3>1, <1>2, <1>13 DEF ClosesOwn
    <3>2. CASE t = "tBtn"  BY <3>2, <1>2, <1>13 DEF ClosesOwn
    <3> QED  BY <3>1, <3>2
  <2>3. Rest'  BY <1>13 DEF ClosesOwn
  <2> QED  BY <2>1, <2>2, <2>3
<1>14. ASSUME NEW t \in SwitchThreads, OpensOwn(t) PROVE PhaseInv' /\ PlaceInv' /\ Rest'
  <2>1. PhaseInv'  BY <1>2, <1>14 DEF OpensOwn
  <2>2. PlaceInv'
    <3>1. CASE t = "tshell"  BY <3>1, <1>2, <1>14 DEF OpensOwn
    <3>2. CASE t = "tBtn"  BY <3>2, <1>2, <1>14 DEF OpensOwn
    <3> QED  BY <3>1, <3>2
  <2>3. Rest'  BY <1>14 DEF OpensOwn
  <2> QED  BY <2>1, <2>2, <2>3
<1>15. ASSUME NEW t \in SwitchThreads, BeginsPrint(t) PROVE PhaseInv' /\ PlaceInv' /\ Rest'
  <2>1. PhaseInv'  BY <1>2, <1>15 DEF BeginsPrint
  <2>2. PlaceInv'
    <3>1. CASE t = "tshell"  BY <3>1, <1>2, <1>15 DEF BeginsPrint
    <3>2. CASE t = "tBtn"  BY <3>2, <1>2, <1>15 DEF BeginsPrint
    <3> QED  BY <3>1, <3>2
  <2>3. Rest'  BY <1>15 DEF BeginsPrint
  <2> QED  BY <2>1, <2>2, <2>3
<1>16. ASSUME NEW t \in SwitchThreads, EndsPrint(t) PROVE PhaseInv' /\ PlaceInv' /\ Rest'
  <2>1. PhaseInv'  BY <1>2, <1>16 DEF EndsPrint
  <2>2. PlaceInv'
    <3>1. CASE t = "tshell"  BY <3>1, <1>2, <1>16 DEF EndsPrint
    <3>2. CASE t = "tBtn"  BY <3>2, <1>2, <1>16 DEF EndsPrint
    <3> QED  BY <3>1, <3>2
  <2>3. Rest'  BY <1>16 DEF EndsPrint
  <2> QED  BY <2>1, <2>2, <2>3
<1>17. ASSUME MainMoves PROVE PhaseInv' /\ PlaceInv' /\ Rest'
  <2>1. PhaseInv'  BY <1>2, <1>17 DEF MainMoves
  <2>2. PlaceInv'  BY <1>2, <1>17 DEF MainMoves
  <2>3. Rest'  BY <1>17 DEF MainMoves
  <2> QED  BY <2>1, <2>2, <2>3
<1>18. ASSUME LogBegins PROVE PhaseInv' /\ PlaceInv' /\ Rest'
  <2>1. PhaseInv'  BY <1>2, <1>18 DEF LogBegins
  <2>2. PlaceInv'  BY <1>2, <1>18 DEF LogBegins
  <2>3. Rest'  BY <1>18 DEF LogBegins
  <2> QED  BY <2>1, <2>2, <2>3
<1>19. ASSUME LogEnds PROVE PhaseInv' /\ PlaceInv' /\ Rest'
  <2>1. PhaseInv'  BY <1>2, <1>19 DEF LogEnds
  <2>2. PlaceInv'  BY <1>2, <1>19 DEF LogEnds
  <2>3. Rest'  BY <1>19 DEF LogEnds
  <2> QED  BY <2>1, <2>2, <2>3
<1>20. ASSUME KeyIsPressed PROVE PhaseInv' /\ PlaceInv' /\ Rest'
  <2>1. PhaseInv'  BY <1>2, <1>20 DEF KeyIsPressed
  <2>2. PlaceInv'  BY <1>2, <1>20 DEF KeyIsPressed
  <2>3. Rest'  BY <1>20 DEF KeyIsPressed
  <2> QED  BY <2>1, <2>2, <2>3
<1>21. ASSUME ChangeIsTyped PROVE PhaseInv' /\ PlaceInv' /\ Rest'
  <2>1. PhaseInv'  BY <1>2, <1>21 DEF ChangeIsTyped
  <2>2. PlaceInv'  BY <1>2, <1>21 DEF ChangeIsTyped
  <2>3. Rest'  BY <1>21 DEF ChangeIsTyped
  <2> QED  BY <2>1, <2>2, <2>3
<1>22. ASSUME LogIsWritten PROVE PhaseInv' /\ PlaceInv' /\ Rest'
  <2>1. PhaseInv'  BY <1>2, <1>22 DEF LogIsWritten
  <2>2. PlaceInv'  BY <1>2, <1>22 DEF LogIsWritten
  <2>3. Rest'  BY <1>22 DEF LogIsWritten
  <2> QED  BY <2>1, <2>2, <2>3
<1> HIDE <1>1, <1>3
    DEF KindKept, ChangeIsTyped, Does, At, SwitchThreads, PhaseInv, PlaceInv
<1> QED
  BY <1>4, <1>5, <1>6, <1>7, <1>8, <1>9, <1>10, <1>11, <1>12, <1>13, <1>14, <1>15, <1>16, <1>17,
     <1>18, <1>19, <1>20, <1>21, <1>22 DEF WhereInv, Move, SwitchMove

-----------------------------------------------------------------------------
(* The reference counts.                                                   *)

One(b) == IF b THEN 1 ELSE 0

\* What the switch of a thread that is at call c adds to the references of x: it has opened
\* a device that is not assigned yet, or closed the one that still is.
Share(c, x) ==
    One(c.op \in FinshFrom \cup {"console_assign"} /\ c.dev = x)
    - One(c.op \in {"finsh_clear", "finsh_assign"} /\ shell_dev = x)
    - One(c.op \in {"console_open", "console_assign"} /\ console = x)
    - One(c.op = "open" /\ c.dev = x)

Account(x) ==
    One(console = x) + One(shell_dev = x) + One(x = "vcom" /\ Does("main", "idle"))
        + Share(At("tshell"), x) + Share(At("tBtn"), x)

\* A switch of the shell in the middle of one of tBtn has closed uart1 once more; the next
\* close or assignment makes up for it.
Loose ==
    /\ shell_dev = "vcom"
    /\ \/ /\ At("tBtn").op \in {"finsh_clear", "finsh_assign"} /\ At("tBtn").dev = "vcom"
          /\ At("tshell").op \in {"finsh_indicate", "console_close"}
       \/ At("tBtn").op \in {"console_assign", "close"} /\ At("tBtn").dev = "uart1"

RefMatch(x) ==
    /\ ~overlap /\ ~misnamed => Completed[x].ref = Account(x)
    /\ Completed[x].ref >= Account(x) \/ (x = "uart1" /\ Loose)

RefInv == \A x \in Devices : RefMatch(x)

\* Where tshell is: at the calls of change_print, or at those of its start.
ShellPhase(s) ==
    \/ VcomAhead(s) /\ shell_dev \in Devices
    \/ /\ BootAhead(s) /\ Does("tBtn", "idle") /\ console = "uart1" /\ ~overlap /\ ~misnamed
       /\ s.op = "finsh_open" => shell_dev \in {NoDevice, "uart1"}
       /\ s.op \in FinshFrom => shell_dev = NoDevice
       /\ s.op \notin {"finsh_open"} \cup FinshFrom => shell_dev = "uart1"

LEMMA WhereIs ==
    ASSUME WhereInv
    PROVE  /\ Ahead(At("tshell"), At("tBtn")) /\ ShellPhase(At("tshell")) /\ PlaceInv
           /\ console \in Devices /\ shell_dev \in Devices \cup {NoDevice}
           /\ (Does("tBtn", "idle") /\ Does("ulog", "idle")) \/ Does("main", "idle")
           /\ overlap \/ Does("tshell", "idle") \/ Does("tBtn", "idle")
           /\ Completed["uart1"].ref \in Nat /\ Completed["vcom"].ref \in Nat
<1>1. ShellPhase(At("tshell"))
  BY AheadNow DEF WhereInv, TypedInv, PhaseInv, ShellPhase
<1> QED  BY <1>1, AheadNow DEF WhereInv, TypedInv, DeviceStates, DeviceState, Devices

LEMMA RefsKept ==
    ASSUME WhereInv, Move, RefInv
    PROVE  RefInv'
<1>1. PICK s, b : s = First(calls'["tshell"]) /\ b = First(calls'["tBtn"])
  OBVIOUS
<1>2. RefMatch("uart1") /\ RefMatch("vcom")
  BY DEF RefInv, Devices
<1> SUFFICES RefMatch("uart1")' /\ RefMatch("vcom")'
  BY DEF RefInv, Devices
<1> USE <1>2, WhereIs
    DEF Goes, Turn, Same, Follows, Freedom, To, Call, Does, At, Ahead, SwitchThreads, Threads, Priority,
        OpenedFor, ClosedOnce, Flagged, Indicated, Unlike, Others, Devices, NoDevice,
        FinshFrom, FinshOps, ConsoleOps, OwnOps, PrintOps, SwitchOps,
        ShellPhase, VcomAhead, BootAhead, PlaceInv, RefMatch, Loose, Account, Share, One
<1>3. ASSUME NEW t \in SwitchThreads, KeepsShell(t) PROVE RefMatch("uart1")' /\ RefMatch("vcom")'
  <2>1. CASE t = "tshell"  BY <2>1, <1>3 DEF KeepsShell
  <2>2. CASE t = "tBtn"  BY <2>2, <1>3 DEF KeepsShell
  <2> QED  BY <2>1, <2>2
<1>4. ASSUME NEW t \in SwitchThreads, OpensShell(t) PROVE RefMatch("uart1")' /\ RefMatch("vcom")'
  <2>1. CASE t = "tshell"  BY <2>1, <1>4 DEF OpensShell
  <2>2. CASE t = "tBtn"  BY <2>2, <1>4 DEF OpensShell
  <2> QED  BY <2>1, <2>2
<1>5. ASSUME NEW t \in SwitchThreads, ClosesShell(t) PROVE RefMatch("uart1")' /\ RefMatch("vcom")'
  <2>1. CASE t = "tshell"  BY <2>1, <1>5 DEF ClosesShell
  <2>2. CASE t = "tBtn"  BY <2>2, <1>5 DEF ClosesShell
  <2> QED  BY <2>1, <2>2
<1>6. ASSUME NEW t \in SwitchThreads, ClearsShell(t) PROVE RefMatch("uart1")' /\ RefMatch("vcom")'
  <2>1. CASE t = "tshell"  BY <2>1, <1>6 DEF ClearsShell
  <2>2. CASE t = "tBtn"  BY <2>2, <1>6 DEF ClearsShell
  <2> QED  BY <2>1, <2>2
<1>7. ASSUME NEW t \in SwitchThreads, AssignsShell(t) PROVE RefMatch("uart1")' /\ RefMatch("vcom")'
  <2>1. CASE t = "tshell"  BY <2>1, <1>7 DEF AssignsShell
  <2>2. CASE t = "tBtn"  BY <2>2, <1>7 DEF AssignsShell
  <2> QED  BY <2>1, <2>2
<1>8. ASSUME NEW t \in SwitchThreads, IndicatesShell(t) PROVE RefMatch("uart1")' /\ RefMatch("vcom")'
  <2>1. CASE t = "tshell"  BY <2>1, <1>8 DEF IndicatesShell
  <2>2. CASE t = "tBtn"  BY <2>2, <1>8 DEF IndicatesShell
  <2> QED  BY <2>1, <2>2
<1>9. ASSUME NEW t \in SwitchThreads, ClosesConsole(t) PROVE RefMatch("uart1")' /\ RefMatch("vcom")'
  <2>1. CASE t = "tshell"  BY <2>1, <1>9 DEF ClosesConsole
  <2>2. CASE t = "tBtn"  BY <2>2, <1>9 DEF ClosesConsole
  <2> QED  BY <2>1, <2>2
<1>10. ASSUME NEW t \in SwitchThreads, OpensConsole(t) PROVE RefMatch("uart1")' /\ RefMatch("vcom")'
  <2>1. CASE t = "tshell"  BY <2>1, <1>10 DEF OpensConsole
  <2>2. CASE t = "tBtn"  BY <2>2, <1>10 DEF OpensConsole
  <2> QED  BY <2>1, <2>2
<1>11. ASSUME NEW t \in SwitchThreads, AssignsConsole(t) PROVE RefMatch("uart1")' /\ RefMatch("vcom")'
  <2>1. CASE t = "tshell"  BY <2>1, <1>11 DEF AssignsConsole
  <2>2. CASE t = "tBtn"  BY <2>2, <1>11 DEF AssignsConsole
  <2> QED  BY <2>1, <2>2
<1>12. ASSUME NEW t \in SwitchThreads, ClosesOwn(t) PROVE RefMatch("uart1")' /\ RefMatch("vcom")'
  <2>1. CASE t = "tshell"  BY <2>1, <1>12 DEF ClosesOwn
  <2>2. CASE t = "tBtn"  BY <2>2, <1>12 DEF ClosesOwn
  <2> QED  BY <2>1, <2>2
<1>13. ASSUME NEW t \in SwitchThreads, OpensOwn(t) PROVE RefMatch("uart1")' /\ RefMatch("vcom")'
  <2>1. CASE t = "tshell"  BY <2>1, <1>13 DEF OpensOwn
  <2>2. CASE t = "tBtn"  BY <2>2, <1>13 DEF OpensOwn
  <2> QED  BY <2>1, <2>2
<1>14. ASSUME NEW t \in SwitchThreads, BeginsPrint(t) PROVE RefMatch("uart1")' /\ RefMatch("vcom")'
  <2>1. CASE t = "tshell"  BY <2>1, <1>14 DEF BeginsPrint
  <2>2. CASE t = "tBtn"  BY <2>2, <1>14 DEF BeginsPrint
  <2> QED  BY <2>1, <2>2
<1>15. ASSUME NEW t \in SwitchThreads, EndsPrint(t) PROVE RefMatch("uart1")' /\ RefMatch("vcom")'
  <2>1. CASE t = "tshell"  BY <2>1, <1>15 DEF EndsPrint
  <2>2. CASE t = "tBtn"  BY <2>2, <1>15 DEF EndsPrint
  <2> QED  BY <2>1, <2>2
<1>16. ASSUME MainMoves PROVE RefMatch("uart1")' /\ RefMatch("vcom")'
  BY <1>16 DEF MainMoves
<1>17. ASSUME LogBegins PROVE RefMatch("uart1")' /\ RefMatch("vcom")'
  BY <1>17 DEF LogBegins
<1>18. ASSUME LogEnds PROVE RefMatch("uart1")' /\ RefMatch("vcom")'
  BY <1>18 DEF LogEnds
<1>19. ASSUME KeyIsPressed PROVE RefMatch("uart1")' /\ RefMatch("vcom")'
  BY <1>19 DEF KeyIsPressed
<1>20. ASSUME ChangeIsTyped PROVE RefMatch("uart1")' /\ RefMatch("vcom")'
  BY <1>20 DEF ChangeIsTyped
<1>21. ASSUME LogIsWritten PROVE RefMatch("uart1")' /\ RefMatch("vcom")'
  BY <1>21 DEF LogIsWritten
<1> HIDE WhereIs
    DEF Goes, Turn, Same, Follows, Freedom, To, Call, Does, At, SwitchThreads, Others, Devices, RefMatch
<1> QED
  BY <1>3, <1>4, <1>5, <1>6, <1>7, <1>8, <1>9, <1>10, <1>11, <1>12, <1>13, <1>14, <1>15, <1>16,
     <1>17, <1>18, <1>19, <1>20, <1>21
  DEF Move, SwitchMove

LEMMA StartIs ==
    ASSUME ConsoleInit
    PROVE  /\ CallsInv /\ calls["tshell"] \in Seq(BootCalls)
           /\ At("tshell") = Call("finsh_open", "uart1") /\ At("main") = Call("main_open", "vcom")
           /\ Does("tBtn", "idle") /\ Does("ulog", "idle")
<1>1. /\ DOMAIN calls = Threads /\ calls = [t \in Threads |-> calls[t]]
      /\ calls["main"] = <<Call("main_open", "vcom")>> /\ calls["tBtn"] = <<>> /\ calls["ulog"] = <<>>
      /\ calls["tshell"] = FinshSetDevice("uart1") \o Kprintf
      /\ misnamed = FALSE /\ overlap = FALSE
  BY DEF ConsoleInit, Threads
<1>2. calls["tshell"] = Booting
  BY <1>1, Programs DEF Devices
<1>3. BootCalls \subseteq SwitchCalls
  BY DEF BootCalls, SwitchCalls, Devices
<1>4. PICK boot, m : boot = Booting /\ m = <<Call("main_open", "vcom")>>
  OBVIOUS
<1>5. ASSUME NEW t \in Threads PROVE calls[t] \in Seq(CallsOf[t]) /\ Chain(Freedom(t), calls[t])
  <2>1. CASE t = "tshell"
    <3>1. boot \in Seq(BootCalls) /\ Chain(Freedom(t), boot)  BY <1>4, BootingIs
    <3> QED  BY <2>1, <3>1, <1>2, <1>3, <1>4 DEF CallsOf
  <2>2. CASE t = "main"
    <3>1. m \in Seq(MainCalls) /\ Chain(Freedom(t), m)  BY <1>4, ShortIs
    <3> QED  BY <2>2, <3>1, <1>1, <1>4 DEF CallsOf
  <2>3. CASE t \in {"tBtn", "ulog"}
    <3>1. calls[t] = <<>> /\ Chain(Freedom(t), calls[t])  BY <2>3, <1>1, ShortIs
    <3> QED  BY <3>1
  <2> QED  BY <2>1, <2>2, <2>3 DEF Threads
<1>6. CallsInv
  BY <1>1, <1>5 DEF CallsInv
<1>7. boot \in Seq(BootCalls) /\ First(boot) = Call("finsh_open", "uart1")
  BY <1>4, BootingIs
<1>8. First(m) = Call("main_open", "vcom") /\ First(<<>>) = Call("idle", NoDevice)
  BY <1>4, ShortIs
<1>9. Does("tBtn", "idle") /\ Does("ulog", "idle")
  BY <1>1, <1>8 DEF Does, At, Call
<1> QED  BY <1>1, <1>2, <1>4, <1>6, <1>7, <1>8, <1>9 DEF At

LEMMA NobodyInside ==
    ASSUME ConsoleInit
    PROVE  SplitInv /\ MainInv /\ Completed = devices
<1>1. devices \in DeviceStates
  BY DEF ConsoleInit, DeviceStates, DeviceState, Devices, FlagNames
<1>2. Outside \in Locals
  BY DEF Outside, Locals, RxStream, FlagNames
<1>3. io \in [Threads -> Locals] /\ \A u \in Threads : io[u].pc = "none"
  BY <1>2 DEF ConsoleInit, Outside
<1>4. SplitInv
  BY <1>1, <1>3 DEF SplitInv, Within
<1>5. Completed = devices
  <2>1. Completed = [d \in Devices |-> devices[d]]  BY <1>3 DEF Completed, Within
  <2> QED  BY <2>1, <1>1 DEF DeviceStates
<1>6. MainInv
  BY <1>3, StartIs DEF MainInv, Does, Call, Threads
<1> QED  BY <1>4, <1>5, <1>6

LEMMA WhereStarts ==
    ASSUME ConsoleInit
    PROVE  WhereInv /\ RefInv
<1>1. /\ console = "uart1" /\ shell_dev = NoDevice /\ overlap = FALSE /\ misnamed = FALSE
      /\ Completed \in DeviceStates /\ Completed["uart1"].ref = 1 /\ Completed["vcom"].ref = 0
  <2>1. SplitInv /\ Completed = devices  BY NobodyInside
  <2>2. devices["uart1"].ref = 1 /\ devices["vcom"].ref = 0
    BY DEF ConsoleInit, Devices
  <2>3. console = "uart1" /\ shell_dev = NoDevice /\ overlap = FALSE /\ misnamed = FALSE
    BY DEF ConsoleInit
  <2> QED  BY <2>1, <2>2, <2>3 DEF SplitInv
<1>2. saved \in [Threads -> [dev : Devices \cup {NoDevice}, flags : SUBSET FlagNames]]
  BY DEF ConsoleInit
<1>3. At("tshell").op = "finsh_open" /\ At("tshell").dev = "uart1" /\ ~Does("main", "idle")
      /\ At("tBtn").op = "idle" /\ At("ulog").op = "idle"
  BY StartIs DEF Call, Does
<1>4. TypedInv
  BY <1>1, <1>2, <1>3, StartIs DEF TypedInv, Does, Devices
<1>5. PhaseInv
  BY <1>1, <1>3, StartIs DEF PhaseInv, FinshFrom, Does
<1>6. PlaceInv
  BY <1>3 DEF PlaceInv, FinshFrom, ConsoleOps, OwnOps, PrintOps, Does
<1>7. RefMatch("uart1") /\ RefMatch("vcom")
  BY <1>1, <1>3 DEF RefMatch, Account, Share, One, FinshFrom, NoDevice
<1> QED  BY <1>4, <1>5, <1>6, <1>7, StartIs DEF WhereInv, RefInv, Devices

\* When no thread has anything to do, the reference counts are those of the holders.
LEMMA SettledNow ==
    ASSUME SplitInv, Settled
    PROVE  \A d \in Devices : Completed[d] = devices[d]
BY CompletedIs DEF Settled, Busy, Within

LEMMA SettledRefs ==
    ASSUME SplitInv, WhereInv, RefInv, Settled, ~overlap, ~misnamed, NEW d \in Devices
    PROVE  devices[d].ref = Holders(d)
<1>1. \A t \in Threads : Does(t, "idle")
  BY IdleIs DEF Settled, Busy, WhereInv, TypedInv
<1>2. At("main").op = "idle" /\ At("tshell").op = "idle" /\ At("tBtn").op = "idle"
  BY <1>1 DEF Threads, Does
<1>3. Completed[d].ref = Account(d)
  BY DEF RefInv, RefMatch
<1>4. Completed[d] = devices[d]
  BY SettledNow
<1> QED  BY <1>2, <1>3, <1>4 DEF Account, Share, One, Holders, Does, FinshFrom

-----------------------------------------------------------------------------
(* The console: the devices in use are open and heard.                     *)

\* The device a call of the switch is about to assign, close or open again.
Reopens(t, x) == At(t).op \in {"console_assign", "close", "open"} /\ At(t).dev = x

\* The shell has not opened uart1 for the first time.
Unheard == Does("tshell", "finsh_open") /\ At("tshell").dev = "uart1" /\ shell_dev = NoDevice

FifoInv ==
    /\ Completed["vcom"].ref > 0 \/ "OPEN" \in Completed["vcom"].flags => Completed["vcom"].rx
    /\ ~Completed["uart1"].rx =>
         \/ Completed["uart1"].ref = 0
         \/ /\ Completed["uart1"].ref = 1 /\ "INT_RX" \notin Completed["uart1"].flags
            /\ \/ At("tBtn").op \in {"console_assign", "close"} /\ At("tBtn").dev = "uart1"
               \/ Unheard

OpenInv ==
    /\ \A x \in Devices : Completed[x].ref > 0 => "OPEN" \in Completed[x].flags
    /\ \A t \in SwitchThreads \cup {"ulog"} :
          At(t).op \in {"kprintf_end", "log_end"} => "OPEN" \in saved[t].flags

IntInv ==
    ~misnamed =>
        /\ \A x \in Devices : \/ "INT_RX" \in Completed[x].flags \/ Completed[x].ref = 0
                              \/ Reopens("tBtn", x) \/ Reopens("tshell", x) \/ (x = "uart1" /\ Unheard)
        /\ \A t \in SwitchThreads \cup {"ulog"} :
              At(t).op \in {"kprintf_end", "log_end"} => "INT_RX" \in saved[t].flags
        /\ At("tshell").op = "kprintf_begin" => "INT_RX" \in Completed[console].flags

IndInv ==
    shell_dev \in Devices =>
        \/ Completed[shell_dev].ind
        \/ \E t \in SwitchThreads : \/ Does(t, "finsh_assign")
                                    \/ Does(t, "finsh_indicate") /\ At(t).dev = shell_dev

LEMMA HeldIs ==
    ASSUME WhereInv, RefInv
    PROVE  /\ Does("main", "idle") => Completed["vcom"].ref > 0
           /\ At("tshell").op \in ConsoleOps \cup OwnOps => Completed["vcom"].ref > 0
           /\ At("tshell").op \in PrintOps => Completed[console].ref > 0
           /\ Does("tshell", "idle") /\ At("tBtn").op \in PrintOps \cup {"idle"} =>
                 Completed[console].ref > 0 /\ (shell_dev \in Devices => Completed[shell_dev].ref > 0)
           /\ At("tshell").op \in {"finsh_open", "finsh_indicate"} /\ At("tshell").dev = "uart1" =>
                 shell_dev = NoDevice \/ Completed["uart1"].ref > 0
<1>1. RefMatch("uart1") /\ RefMatch("vcom")
  BY DEF RefInv, Devices
<1> USE <1>1, WhereIs
    DEF Does, At, Ahead, Devices, NoDevice, FinshFrom, FinshOps, ConsoleOps, OwnOps, PrintOps, SwitchOps,
        ShellPhase, VcomAhead, BootAhead, PlaceInv, RefMatch, Loose, Account, Share, One
<1>2. Does("main", "idle") => Completed["vcom"].ref > 0
  OBVIOUS
<1>3. At("tshell").op \in ConsoleOps \cup OwnOps => Completed["vcom"].ref > 0
  OBVIOUS
<1>4. At("tshell").op \in PrintOps => Completed[console].ref > 0
  <2>1. CASE console = "uart1"  BY <2>1
  <2>2. CASE console = "vcom"  BY <2>2
  <2> QED  BY <2>1, <2>2
<1>5. Does("tshell", "idle") /\ At("tBtn").op \in PrintOps \cup {"idle"} => Completed[console].ref > 0
  <2>1. CASE console = "uart1"  BY <2>1
  <2>2. CASE console = "vcom"  BY <2>2
  <2> QED  BY <2>1, <2>2
<1>6. Does("tshell", "idle") /\ At("tBtn").op \in PrintOps \cup {"idle"} =>
         (shell_dev \in Devices => Completed[shell_dev].ref > 0)
  <2>1. CASE shell_dev = "uart1"  BY <2>1
  <2>2. CASE shell_dev = "vcom"  BY <2>2
  <2> QED  BY <2>1, <2>2
<1>7. At("tshell").op \in {"finsh_open", "finsh_indicate"} /\ At("tshell").dev = "uart1" =>
         shell_dev = NoDevice \/ Completed["uart1"].ref > 0
  OBVIOUS
<1> QED  BY <1>2, <1>3, <1>4, <1>5, <1>6, <1>7

LEMMA DevicesAre ==
    ASSUME WhereInv
    PROVE  /\ saved \in [Threads -> [dev : Devices \cup {NoDevice}, flags : SUBSET FlagNames]]
           /\ \A x \in Devices : Completed[x].ref \in Nat
           /\ Does("ulog", "log_end") => saved["ulog"].dev \in Devices
BY DEF WhereInv, TypedInv, DeviceStates, DeviceState

\* Every open and close of "vcom" by the switches finds it held by someone else.
LEMMA EntryIs ==
    ASSUME WhereInv, RefInv, FifoInv
    PROVE  EntryInv
<1>1. \A d \in Devices : Sound(d, Completed[d])
  BY DEF FifoInv, Sound, SaysInt, Devices
<1>2. RefMatch("uart1") /\ RefMatch("vcom")
  BY DEF RefInv, Devices
<1>3. ASSUME NEW t \in SwitchThreads, Undisturbed(t) PROVE Fits(t)
  <2>1. Does(t, "console_open") => Completed["vcom"].ref > 0
    BY <1>3, HeldIs DEF Undisturbed, SwitchThreads, ConsoleOps, Does
  <2>2. Does(t, "console_open") => Completed["vcom"].rx
    BY <2>1 DEF FifoInv
  <2> USE <1>2, <1>3, WhereIs
      DEF Does, At, Ahead, Devices, NoDevice, FinshFrom, FinshOps, ConsoleOps, OwnOps, PrintOps, SwitchOps,
          ShellPhase, VcomAhead, BootAhead, PlaceInv, RefMatch, Loose, Account, Share, One, Undisturbed
  <2>3. Does(t, "finsh_close") /\ shell_dev = "vcom" => Completed["vcom"].ref > 1
    <3>1. CASE t = "tshell"  BY <3>1
    <3>2. CASE t = "tBtn"  BY <3>2
    <3> QED  BY <3>1, <3>2 DEF SwitchThreads
  <2>4. Does(t, "console_close") /\ console = "vcom" => Completed["vcom"].ref > 1
    <3>1. CASE t = "tshell"  BY <3>1
    <3>2. CASE t = "tBtn"  BY <3>2
    <3> QED  BY <3>1, <3>2 DEF SwitchThreads
  <2>5. Does(t, "close") /\ At(t).dev = "vcom" => Completed["vcom"].ref > 1
    <3>1. CASE t = "tshell"  BY <3>1
    <3>2. CASE t = "tBtn"  BY <3>2
    <3> QED  BY <3>1, <3>2 DEF SwitchThreads
  <2> HIDE DEF Does, At
  <2> QED  BY <2>2, <2>3, <2>4, <2>5 DEF Fits
<1> QED  BY <1>1, <1>3 DEF EntryInv

LEMMA FifoKept ==
    ASSUME WhereInv, RefInv, Move, FifoInv
    PROVE  FifoInv'
<1>1. PICK s, b, l, m : /\ s = First(calls'["tshell"]) /\ b = First(calls'["tBtn"])
                        /\ l = First(calls'["ulog"]) /\ m = First(calls'["main"])
  OBVIOUS
<1> USE WhereIs, HeldIs, DevicesAre
    DEF Goes, Turn, Same, Follows, Freedom, To, Call, Does, At, Ahead, SwitchThreads, Threads, Priority,
        OpenedFor, ClosedOnce, Flagged, Indicated, Unlike, Others, Devices, NoDevice, RxStream,
        FinshFrom, FinshOps, ConsoleOps, OwnOps, PrintOps, SwitchOps,
        ShellPhase, VcomAhead, BootAhead, PlaceInv, Unheard, Reopens, FifoInv
<1>2. ASSUME NEW t \in SwitchThreads, KeepsShell(t) PROVE FifoInv'
  <2>1. CASE t = "tshell"  BY <2>1, <1>2 DEF KeepsShell
  <2>2. CASE t = "tBtn"  BY <2>2, <1>2 DEF KeepsShell
  <2> QED  BY <2>1, <2>2
<1>3. ASSUME NEW t \in SwitchThreads, OpensShell(t) PROVE FifoInv'
  <2>1. CASE t = "tshell"  BY <2>1, <1>3 DEF OpensShell
  <2>2. CASE t = "tBtn"  BY <2>2, <1>3 DEF OpensShell
  <2> QED  BY <2>1, <2>2
<1>4. ASSUME NEW t \in SwitchThreads, ClosesShell(t) PROVE FifoInv'
  <2>1. CASE t = "tshell"  BY <2>1, <1>4 DEF ClosesShell
  <2>2. CASE t = "tBtn"  BY <2>2, <1>4 DEF ClosesShell
  <2> QED  BY <2>1, <2>2
<1>5. ASSUME NEW t \in SwitchThreads, ClearsShell(t) PROVE FifoInv'
  <2>1. CASE t = "tshell"  BY <2>1, <1>5 DEF ClearsShell
  <2>2. CASE t = "tBtn"  BY <2>2, <1>5 DEF ClearsShell
  <2> QED  BY <2>1, <2>2
<1>6. ASSUME NEW t \in SwitchThreads, AssignsShell(t) PROVE FifoInv'
  <2>1. CASE t = "tshell"  BY <2>1, <1>6 DEF AssignsShell
  <2>2. CASE t = "tBtn"  BY <2>2, <1>6 DEF AssignsShell
  <2> QED  BY <2>1, <2>2
<1>7. ASSUME NEW t \in SwitchThreads, IndicatesShell(t) PROVE FifoInv'
  <2>1. CASE t = "tshell"  BY <2>1, <1>7 DEF IndicatesShell
  <2>2. CASE t = "tBtn"  BY <2>2, <1>7 DEF IndicatesShell
  <2> QED  BY <2>1, <2>2
<1>8. ASSUME NEW t \in SwitchThreads, ClosesConsole(t) PROVE FifoInv'
  <2>1. CASE t = "tshell"  BY <2>1, <1>8 DEF ClosesConsole
  <2>2. CASE t = "tBtn"  BY <2>2, <1>8 DEF ClosesConsole
  <2> QED  BY <2>1, <2>2
<1>9. ASSUME NEW t \in SwitchThreads, OpensConsole(t) PROVE FifoInv'
  <2>1. CASE t = "tshell"  BY <2>1, <1>9 DEF OpensConsole
  <2>2. CASE t = "tBtn"  BY <2>2, <1>9 DEF OpensConsole
  <2> QED  BY <2>1, <2>2
<1>10. ASSUME NEW t \in SwitchThreads, AssignsConsole(t) PROVE FifoInv'
  <2>1. CASE t = "tshell"  BY <2>1, <1>10 DEF AssignsConsole
  <2>2. CASE t = "tBtn"  BY <2>2, <1>10 DEF AssignsConsole
  <2> QED  BY <2>1, <2>2
<1>11. ASSUME NEW t \in SwitchThreads, ClosesOwn(t) PROVE FifoInv'
  <2>1. CASE t = "tshell"  BY <2>1, <1>11 DEF ClosesOwn
  <2>2. CASE t = "tBtn"  BY <2>2, <1>11 DEF ClosesOwn
  <2> QED  BY <2>1, <2>2
<1>12. ASSUME NEW t \in SwitchThreads, OpensOwn(t) PROVE FifoInv'
  <2>1. CASE t = "tshell"  BY <2>1, <1>12 DEF OpensOwn
  <2>2. CASE t = "tBtn"  BY <2>2, <1>12 DEF OpensOwn
  <2> QED  BY <2>1, <2>2
<1>13. ASSUME NEW t \in SwitchThreads, BeginsPrint(t) PROVE FifoInv'
  <2>1. CASE t = "tshell"  BY <2>1, <1>13 DEF BeginsPrint
  <2>2. CASE t = "tBtn"  BY <2>2, <1>13 DEF BeginsPrint
  <2> QED  BY <2>1, <2>2
<1>14. ASSUME NEW t \in SwitchThreads, EndsPrint(t) PROVE FifoInv'
  <2>1. CASE t = "tshell"  BY <2>1, <1>14 DEF EndsPrint
  <2>2. CASE t = "tBtn"  BY <2>2, <1>14 DEF EndsPrint
  <2> QED  BY <2>1, <2>2
<1>15. ASSUME MainMoves PROVE FifoInv'
  BY <1>15 DEF MainMoves
<1>16. ASSUME LogBegins PROVE FifoInv'
  BY <1>16 DEF LogBegins
<1>17. ASSUME LogEnds PROVE FifoInv'
  BY <1>17 DEF LogEnds
<1>18. ASSUME KeyIsPressed PROVE FifoInv'
  BY <1>18 DEF KeyIsPressed
<1>19. ASSUME ChangeIsTyped PROVE FifoInv'
  BY <1>19 DEF ChangeIsTyped
<1>20. ASSUME LogIsWritten PROVE FifoInv'
  BY <1>20 DEF LogIsWritten
<1> HIDE DEF SwitchThreads, FifoInv
<1> QED
  BY <1>2, <1>3, <1>4, <1>5, <1>6, <1>7, <1>8, <1>9, <1>10, <1>11, <1>12, <1>13, <1>14, <1>15,
     <1>16, <1>17, <1>18, <1>19, <1>20
  DEF Move, SwitchMove

LEMMA OpenKept ==
    ASSUME WhereInv, RefInv, Move, OpenInv
    PROVE  OpenInv'
<1>1. PICK s, b, l, m : /\ s = First(calls'["tshell"]) /\ b = First(calls'["tBtn"])
                        /\ l = First(calls'["ulog"]) /\ m = First(calls'["main"])
  OBVIOUS
<1> USE WhereIs, HeldIs, DevicesAre
    DEF Goes, Turn, Same, Follows, Freedom, To, Call, Does, At, Ahead, SwitchThreads, Threads, Priority,
        OpenedFor, ClosedOnce, Flagged, Indicated, Unlike, Others, Devices, NoDevice, RxStream,
        FinshFrom, FinshOps, ConsoleOps, OwnOps, PrintOps, SwitchOps,
        ShellPhase, VcomAhead, BootAhead, PlaceInv, Unheard, Reopens, OpenInv
<1>2. ASSUME NEW t \in SwitchThreads, KeepsShell(t) PROVE OpenInv'
  <2>1. CASE t = "tshell"  BY <2>1, <1>2 DEF KeepsShell
  <2>2. CASE t = "tBtn"  BY <2>2, <1>2 DEF KeepsShell
  <2> QED  BY <2>1, <2>2
<1>3. ASSUME NEW t \in SwitchThreads, OpensShell(t) PROVE OpenInv'
  <2>1. CASE t = "tshell"  BY <2>1, <1>3 DEF OpensShell
  <2>2. CASE t = "tBtn"  BY <2>2, <1>3 DEF OpensShell
  <2> QED  BY <2>1, <2>2
<1>4. ASSUME NEW t \in SwitchThreads, ClosesShell(t) PROVE OpenInv'
  <2>1. CASE t = "tshell"  BY <2>1, <1>4 DEF ClosesShell
  <2>2. CASE t = "tBtn"  BY <2>2, <1>4 DEF ClosesShell
  <2> QED  BY <2>1, <2>2
<1>5. ASSUME NEW t \in SwitchThreads, ClearsShell(t) PROVE OpenInv'
  <2>1. CASE t = "tshell"  BY <2>1, <1>5 DEF ClearsShell
  <2>2. CASE t = "tBtn"  BY <2>2, <1>5 DEF ClearsShell
  <2> QED  BY <2>1, <2>2
<1>6. ASSUME NEW t \in SwitchThreads, AssignsShell(t) PROVE OpenInv'
  <2>1. CASE t = "tshell"  BY <2>1, <1>6 DEF AssignsShell
  <2>2. CASE t = "tBtn"  BY <2>2, <1>6 DEF AssignsShell
  <2> QED  BY <2>1, <2>2
<1>7. ASSUME NEW t \in SwitchThreads, IndicatesShell(t) PROVE OpenInv'
  <2>1. CASE t = "tshell"  BY <2>1, <1>7 DEF IndicatesShell
  <2>2. CASE t = "tBtn"  BY <2>2, <1>7 DEF IndicatesShell
  <2> QED  BY <2>1, <2>2
<1>8. ASSUME NEW t \in SwitchThreads, ClosesConsole(t) PROVE OpenInv'
  <2>1. CASE t = "tshell"  BY <2>1, <1>8 DEF ClosesConsole
  <2>2. CASE t = "tBtn"  BY <2>2, <1>8 DEF ClosesConsole
  <2> QED  BY <2>1, <2>2
<1>9. ASSUME NEW t \in SwitchThreads, OpensConsole(t) PROVE OpenInv'
  <2>1. CASE t = "tshell"  BY <2>1, <1>9 DEF OpensConsole
  <2>2. CASE t = "tBtn"  BY <2>2, <1>9 DEF OpensConsole
  <2> QED  BY <2>1, <2>2
<1>10. ASSUME NEW t \in SwitchThreads, AssignsConsole(t) PROVE OpenInv'
  <2>1. CASE t = "tshell"  BY <2>1, <1>10 DEF AssignsConsole
  <2>2. CASE t = "tBtn"  BY <2>2, <1>10 DEF AssignsConsole
  <2> QED  BY <2>1, <2>2
<1>11. ASSUME NEW t \in SwitchThreads, ClosesOwn(t) PROVE OpenInv'
  <2>1. CASE t = "tshell"  BY <2>1, <1>11 DEF ClosesOwn
  <2>2. CASE t = "tBtn"  BY <2>2, <1>11 DEF ClosesOwn
  <2> QED  BY <2>1, <2>2
<1>12. ASSUME NEW t \in SwitchThreads, OpensOwn(t) PROVE OpenInv'
  <2>1. CASE t = "tshell"  BY <2>1, <1>12 DEF OpensOwn
  <2>2. CASE t = "tBtn"  BY <2>2, <1>12 DEF OpensOwn
  <2> QED  BY <2>1, <2>2
<1>13. ASSUME NEW t \in SwitchThreads, BeginsPrint(t) PROVE OpenInv'
  <2>1. CASE t = "tshell"  BY <2>1, <1>13 DEF BeginsPrint
  <2>2. CASE t = "tBtn"  BY <2>2, <1>13 DEF BeginsPrint
  <2> QED  BY <2>1, <2>2
<1>14. ASSUME NEW t \in SwitchThreads, EndsPrint(t) PROVE OpenInv'
  <2>1. CASE t = "tshell"  BY <2>1, <1>14 DEF EndsPrint
  <2>2. CASE t = "tBtn"  BY <2>2, <1>14 DEF EndsPrint
  <2> QED  BY <2>1, <2>2
<1>15. ASSUME MainMoves PROVE OpenInv'
  BY <1>15 DEF MainMoves
<1>16. ASSUME LogBegins PROVE OpenInv'
  BY <1>16 DEF LogBegins
<1>17. ASSUME LogEnds PROVE OpenInv'
  BY <1>17 DEF LogEnds
<1>18. ASSUME KeyIsPressed PROVE OpenInv'
  BY <1>18 DEF KeyIsPressed
<1>19. ASSUME ChangeIsTyped PROVE OpenInv'
  BY <1>19 DEF ChangeIsTyped
<1>20. ASSUME LogIsWritten PROVE OpenInv'
  BY <1>20 DEF LogIsWritten
<1> HIDE DEF SwitchThreads, OpenInv
<1> QED
  BY <1>2, <1>3, <1>4, <1>5, <1>6, <1>7, <1>8, <1>9, <1>10, <1>11, <1>12, <1>13, <1>14, <1>15,
     <1>16, <1>17, <1>18, <1>19, <1>20
  DEF Move, SwitchMove

LEMMA IntKept ==
    ASSUME WhereInv, RefInv, Move, IntInv
    PROVE  IntInv'
<1>1. PICK s, b, l, m : /\ s = First(calls'["tshell"]) /\ b = First(calls'["tBtn"])
                        /\ l = First(calls'["ulog"]) /\ m = First(calls'["main"])
  OBVIOUS
<1> USE WhereIs, HeldIs, DevicesAre
    DEF Goes, Turn, Same, Follows, Freedom, To, Call, Does, At, Ahead, SwitchThreads, Threads, Priority,
        OpenedFor, ClosedOnce, Flagged, Indicated, Unlike, Others, Devices, NoDevice, RxStream,
        FinshFrom, FinshOps, ConsoleOps, OwnOps, PrintOps, SwitchOps,
        ShellPhase, VcomAhead, BootAhead, PlaceInv, Unheard, Reopens, IntInv
<1>2. ASSUME NEW t \in SwitchThreads, KeepsShell(t) PROVE IntInv'
  <2>1. CASE t = "tshell"  BY <2>1, <1>2 DEF KeepsShell
  <2>2. CASE t = "tBtn"  BY <2>2, <1>2 DEF KeepsShell
  <2> QED  BY <2>1, <2>2
<1>3. ASSUME NEW t \in SwitchThreads, OpensShell(t) PROVE IntInv'
  <2>1. CASE t = "tshell"  BY <2>1, <1>3 DEF OpensShell
  <2>2. CASE t = "tBtn"  BY <2>2, <1>3 DEF OpensShell
  <2> QED  BY <2>1, <2>2
<1>4. ASSUME NEW t \in SwitchThreads, ClosesShell(t) PROVE IntInv'
  <2>1. CASE t = "tshell"  BY <2>1, <1>4 DEF ClosesShell
  <2>2. CASE t = "tBtn"  BY <2>2, <1>4 DEF ClosesShell
  <2> QED  BY <2>1, <2>2
<1>5. ASSUME NEW t \in SwitchThreads, ClearsShell(t) PROVE IntInv'
  <2>1. CASE t = "tshell"  BY <2>1, <1>5 DEF ClearsShell
  <2>2. CASE t = "tBtn"  BY <2>2, <1>5 DEF ClearsShell
  <2> QED  BY <2>1, <2>2
<1>6. ASSUME NEW t \in SwitchThreads, AssignsShell(t) PROVE IntInv'
  <2>1. CASE t = "tshell"  BY <2>1, <1>6 DEF AssignsShell
  <2>2. CASE t = "tBtn"  BY <2>2, <1>6 DEF AssignsShell
  <2> QED  BY <2>1, <2>2
<1>7. ASSUME NEW t \in SwitchThreads, IndicatesShell(t) PROVE IntInv'
  <2>1. CASE t = "tshell"  BY <2>1, <1>7 DEF IndicatesShell
  <2>2. CASE t = "tBtn"  BY <2>2, <1>7 DEF IndicatesShell
  <2> QED  BY <2>1, <2>2
<1>8. ASSUME NEW t \in SwitchThreads, ClosesConsole(t) PROVE IntInv'
  <2>1. CASE t = "tshell"  BY <2>1, <1>8 DEF ClosesConsole
  <2>2. CASE t = "tBtn"  BY <2>2, <1>8 DEF ClosesConsole
  <2> QED  BY <2>1, <2>2
<1>9. ASSUME NEW t \in SwitchThreads, OpensConsole(t) PROVE IntInv'
  <2>1. CASE t = "tshell"  BY <2>1, <1>9 DEF OpensConsole
  <2>2. CASE t = "tBtn"  BY <2>2, <1>9 DEF OpensConsole
  <2> QED  BY <2>1, <2>2
<1>10. ASSUME NEW t \in SwitchThreads, AssignsConsole(t) PROVE IntInv'
  <2>1. CASE t = "tshell"  BY <2>1, <1>10 DEF AssignsConsole
  <2>2. CASE t = "tBtn"  BY <2>2, <1>10 DEF AssignsConsole
  <2> QED  BY <2>1, <2>2
<1>11. ASSUME NEW t \in SwitchThreads, ClosesOwn(t) PROVE IntInv'
  <2>1. CASE t = "tshell"  BY <2>1, <1>11 DEF ClosesOwn
  <2>2. CASE t = "tBtn"  BY <2>2, <1>11 DEF ClosesOwn
  <2> QED  BY <2>1, <2>2
<1>12. ASSUME NEW t \in SwitchThreads, OpensOwn(t) PROVE IntInv'
  <2>1. CASE t = "tshell"  BY <2>1, <1>12 DEF OpensOwn
  <2>2. CASE t = "tBtn"  BY <2>2, <1>12 DEF OpensOwn
  <2> QED  BY <2>1, <2>2
<1>13. ASSUME NEW t \in SwitchThreads, BeginsPrint(t) PROVE IntInv'
  <2>1. CASE t = "tshell"  BY <2>1, <1>13 DEF BeginsPrint
  <2>2. CASE t = "tBtn"  BY <2>2, <1>13 DEF BeginsPrint
  <2> QED  BY <2>1, <2>2
<1>14. ASSUME NEW t \in SwitchThreads, EndsPrint(t) PROVE IntInv'
  <2>1. CASE t = "tshell"  BY <2>1, <1>14 DEF EndsPrint
  <2>2. CASE t = "tBtn"  BY <2>2, <1>14 DEF EndsPrint
  <2> QED  BY <2>1, <2>2
<1>15. ASSUME MainMoves PROVE IntInv'
  BY <1>15 DEF MainMoves
<1>16. ASSUME LogBegins PROVE IntInv'
  BY <1>16 DEF LogBegins
<1>17. ASSUME LogEnds PROVE IntInv'
  BY <1>17 DEF LogEnds
<1>18. ASSUME KeyIsPressed PROVE IntInv'
  BY <1>18 DEF KeyIsPressed
<1>19. ASSUME ChangeIsTyped PROVE IntInv'
  BY <1>19 DEF ChangeIsTyped
<1>20. ASSUME LogIsWritten PROVE IntInv'
  BY <1>20 DEF LogIsWritten
<1> HIDE DEF SwitchThreads, IntInv
<1> QED
  BY <1>2, <1>3, <1>4, <1>5, <1>6, <1>7, <1>8, <1>9, <1>10, <1>11, <1>12, <1>13, <1>14, <1>15,
     <1>16, <1>17, <1>18, <1>19, <1>20
  DEF Move, SwitchMove

LEMMA IndKept ==
    ASSUME WhereInv, Move, IndInv
    PROVE  IndInv'
<1>1. PICK s, b, l, m : /\ s = First(calls'["tshell"]) /\ b = First(calls'["tBtn"])
                        /\ l = First(calls'["ulog"]) /\ m = First(calls'["main"])
  OBVIOUS
<1> USE WhereIs, DevicesAre
    DEF Goes, Turn, Same, Follows, Freedom, To, Call, Does, At, Ahead, SwitchThreads, Threads, Priority,
        OpenedFor, ClosedOnce, Flagged, Indicated, Unlike, Others, Devices, NoDevice, RxStream,
        FinshFrom, FinshOps, ConsoleOps, OwnOps, PrintOps, SwitchOps,
        ShellPhase, VcomAhead, BootAhead, PlaceInv, Unheard, Reopens, IndInv
<1>2. ASSUME NEW t \in SwitchThreads, KeepsShell(t) PROVE IndInv'
  <2>1. CASE t = "tshell"  BY <2>1, <1>2 DEF KeepsShell
  <2>2. CASE t = "tBtn"  BY <2>2, <1>2 DEF KeepsShell
  <2> QED  BY <2>1, <2>2
<1>3. ASSUME NEW t \in SwitchThreads, OpensShell(t) PROVE IndInv'
  <2>1. CASE t = "tshell"  BY <2>1, <1>3 DEF OpensShell
  <2>2. CASE t = "tBtn"  BY <2>2, <1>3 DEF OpensShell
  <2> QED  BY <2>1, <2>2
<1>4. ASSUME NEW t \in SwitchThreads, ClosesShell(t) PROVE IndInv'
  <2>1. CASE t = "tshell"  BY <2>1, <1>4 DEF ClosesShell
  <2>2. CASE t = "tBtn"  BY <2>2, <1>4 DEF ClosesShell
  <2> QED  BY <2>1, <2>2
<1>5. ASSUME NEW t \in SwitchThreads, ClearsShell(t) PROVE IndInv'
  <2>1. CASE t = "tshell"  BY <2>1, <1>5 DEF ClearsShell
  <2>2. CASE t = "tBtn"  BY <2>2, <1>5 DEF ClearsShell
  <2> QED  BY <2>1, <2>2
<1>6. ASSUME NEW t \in SwitchThreads, AssignsShell(t) PROVE IndInv'
  <2>1. CASE t = "tshell"  BY <2>1, <1>6 DEF AssignsShell
  <2>2. CASE t = "tBtn"  BY <2>2, <1>6 DEF AssignsShell
  <2> QED  BY <2>1, <2>2
<1>7. ASSUME NEW t \in SwitchThreads, IndicatesShell(t) PROVE IndInv'
  <2>1. CASE t = "tshell"  BY <2>1, <1>7 DEF IndicatesShell
  <2>2. CASE t = "tBtn"  BY <2>2, <1>7 DEF IndicatesShell
  <2> QED  BY <2>1, <2>2
<1>8. ASSUME NEW t \in SwitchThreads, ClosesConsole(t) PROVE IndInv'
  <2>1. CASE t = "tshell"  BY <2>1, <1>8 DEF ClosesConsole
  <2>2. CASE t = "tBtn"  BY <2>2, <1>8 DEF ClosesConsole
  <2> QED  BY <2>1, <2>2
<1>9. ASSUME NEW t \in SwitchThreads, OpensConsole(t) PROVE IndInv'
  <2>1. CASE t = "tshell"  BY <2>1, <1>9 DEF OpensConsole
  <2>2. CASE t = "tBtn"  BY <2>2, <1>9 DEF OpensConsole
  <2> QED  BY <2>1, <2>2
<1>10. ASSUME NEW t \in SwitchThreads, AssignsConsole(t) PROVE IndInv'
  <2>1. CASE t = "tshell"  BY <2>1, <1>10 DEF AssignsConsole
  <2>2. CASE t = "tBtn"  BY <2>2, <1>10 DEF AssignsConsole
  <2> QED  BY <2>1, <2>2
<1>11. ASSUME NEW t \in SwitchThreads, ClosesOwn(t) PROVE IndInv'
  <2>1. CASE t = "tshell"  BY <2>1, <1>11 DEF ClosesOwn
  <2>2. CASE t = "tBtn"  BY <2>2, <1>11 DEF ClosesOwn
  <2> QED  BY <2>1, <2>2
<1>12. ASSUME NEW t \in SwitchThreads, OpensOwn(t) PROVE IndInv'
  <2>1. CASE t = "tshell"  BY <2>1, <1>12 DEF OpensOwn
  <2>2. CASE t = "tBtn"  BY <2>2, <1>12 DEF OpensOwn
  <2> QED  BY <2>1, <2>2
<1>13. ASSUME NEW t \in SwitchThreads, BeginsPrint(t) PROVE IndInv'
  <2>1. CASE t = "tshell"  BY <2>1, <1>13 DEF BeginsPrint
  <2>2. CASE t = "tBtn"  BY <2>2, <1>13 DEF BeginsPrint
  <2> QED  BY <2>1, <2>2
<1>14. ASSUME NEW t \in SwitchThreads, EndsPrint(t) PROVE IndInv'
  <2>1. CASE t = "tshell"  BY <2>1, <1>14 DEF EndsPrint
  <2>2. CASE t = "tBtn"  BY <2>2, <1>14 DEF EndsPrint
  <2> QED  BY <2>1, <2>2
<1>15. ASSUME MainMoves PROVE IndInv'
  BY <1>15 DEF MainMoves
<1>16. ASSUME LogBegins PROVE IndInv'
  BY <1>16 DEF LogBegins
<1>17. ASSUME LogEnds PROVE IndInv'
  BY <1>17 DEF LogEnds
<1>18. ASSUME KeyIsPressed PROVE IndInv'
  BY <1>18 DEF KeyIsPressed
<1>19. ASSUME ChangeIsTyped PROVE IndInv'
  BY <1>19 DEF ChangeIsTyped
<1>20. ASSUME LogIsWritten PROVE IndInv'
  BY <1>20 DEF LogIsWritten
<1> HIDE DEF SwitchThreads, IndInv
<1> QED
  BY <1>2, <1>3, <1>4, <1>5, <1>6, <1>7, <1>8, <1>9, <1>10, <1>11, <1>12, <1>13, <1>14, <1>15,
     <1>16, <1>17, <1>18, <1>19, <1>20
  DEF Move, SwitchMove

-----------------------------------------------------------------------------
(* The console: the invariant.                                             *)

SwitchInv ==
    SplitInv /\ MainInv /\ WhereInv /\ RefInv /\ FifoInv /\ OpenInv /\ IntInv /\ IndInv

ConsoleInv == torn \/ SwitchInv

LEMMA ConsoleStarts ==
    ASSUME ConsoleInit
    PROVE  ConsoleInv
<1>1. /\ shell_dev = NoDevice /\ Completed["uart1"].ref = 1 /\ Completed["vcom"].ref = 0
      /\ Completed["uart1"].flags = {"OPEN", "STREAM"} /\ Completed["vcom"].flags = {}
      /\ At("tshell").op = "finsh_open" /\ At("tshell").dev = "uart1"
      /\ At("tBtn").op = "idle" /\ At("ulog").op = "idle"
  <2>1. /\ shell_dev = NoDevice /\ devices["uart1"].ref = 1 /\ devices["vcom"].ref = 0
        /\ devices["uart1"].flags = {"OPEN", "STREAM"} /\ devices["vcom"].flags = {}
    BY DEF ConsoleInit, Devices
  <2>2. /\ At("tshell").op = "finsh_open" /\ At("tshell").dev = "uart1"
        /\ At("tBtn").op = "idle" /\ At("ulog").op = "idle"
    BY StartIs DEF Call, Does
  <2> QED  BY <2>1, <2>2, NobodyInside
<1>2. Unheard
  BY <1>1 DEF Unheard, Does
<1>3. FifoInv
  BY <1>1, <1>2 DEF FifoInv
<1>4. OpenInv
  BY <1>1 DEF OpenInv, SwitchThreads, Devices
<1>5. IntInv
  BY <1>1, <1>2 DEF IntInv, SwitchThreads, Devices
<1>6. IndInv
  BY <1>1 DEF IndInv, NoDevice, Devices
<1> QED  BY <1>3, <1>4, <1>5, <1>6, WhereStarts, NobodyInside DEF ConsoleInv, SwitchInv

\* A statement on "vcom" leaves its count above 0 if it was, and always at the end.
LEMMA RanHolds ==
    ASSUME NEW r \in Locals, NEW x \in DeviceState, SoFar(r, x), NEW q, NEW y, Ran(r, x, q, y),
           r.dev = "vcom", x.ref > 0 \/ q.pc = "none"
    PROVE  y.ref > 0
<1>1. x.ref \in Nat /\ r.pc \notin LastPcs /\ (r.pc \in CountPcs => x.ref > 1) /\ (r.pc = "left" => x.ref > 0)
      /\ (r.pc \in {"up", "down"} => r.ref = x.ref)
  BY DEF DeviceState, SoFar
<1>2. CASE r.pc \in {"up", "down", "test", "load_down", "left"}
  BY <1>1, <1>2 DEF Ran, DeviceState, CountPcs
<1>3. CASE r.pc \notin {"up", "down", "test", "load_down", "left"}
  <2>1. y.ref = x.ref
    BY <1>1, <1>3 DEF Ran, DeviceState, LastPcs
  <2>2. q.pc # "none"
    <3>1. PICK z, next : q = Then(z, next) /\ z \in Locals /\ next # "none"
      BY <1>1, <1>3 DEF Ran, DeviceState, Locals, LastPcs, RxStream, FlagNames
    <3> QED  BY <3>1 DEF Then, Locals
  <2> QED  BY <2>1, <2>2, <1>1
<1> QED  BY <1>2, <1>3

\* Seen from the complete devices a statement does nothing.
LEMMA StatementStep ==
    ASSUME SplitInv, MainInv, NEW t \in Threads, OpenOrClose(t)
    PROVE  /\ SplitInv' /\ MainInv' /\ Completed' = Completed
           /\ UNCHANGED <<console, shell_dev, calls, saved, bounds>>
<1>1. Executed(t)
  BY StatementKeeps
<1>2. PICK r, d : r = io[t] /\ d = io[t].dev
  OBVIOUS
<1>3. /\ SplitInv' /\ Completed' = Completed /\ r.pc # "none" /\ d \in Devices
      /\ Ran(r, devices[d], io'[t], devices'[d])
      /\ \A u \in Threads \ {t} : io'[u] = io[u]
      /\ \A x \in Devices \ {d} : devices'[x] = devices[x]
      /\ UNCHANGED <<console, shell_dev, calls, saved, bounds>>
  BY <1>1, <1>2 DEF Executed
<1>4. r \in Locals /\ devices[d] \in DeviceState /\ SoFar(r, devices[d]) /\ r.dev = d
  BY <1>2, <1>3 DEF SplitInv, DeviceStates
<1>5. "main" \in Threads /\ "vcom" \in Devices
  BY DEF Threads, Devices
<1>6. io'["main"].pc # "none" => io'["main"].dev = "vcom"
  <2>1. CASE t = "main"
    <3>1. Goal(r, devices[d], io'[t], devices'[d])  BY <1>3, <1>4, RanKeeps
    <3> QED  BY <2>1, <3>1, <1>2, <1>3 DEF Goal, MainInv
  <2>2. CASE t # "main"  BY <2>2, <1>3, <1>5 DEF MainInv
  <2> QED  BY <2>1, <2>2
<1>7. ASSUME Does("main", "idle")', io'["main"].pc = "none" PROVE devices'["vcom"].ref > 0
  <2>1. Does("main", "idle")  BY <1>3, <1>7 DEF Does, At
  <2>2. CASE d = "vcom"
    <3>1. devices["vcom"].ref > 0 \/ io'[t].pc = "none"
      <4>1. CASE t = "main"  BY <4>1, <1>7
      <4>2. CASE t # "main"  BY <4>2, <2>1, <1>3, <1>5, <1>7 DEF MainInv
      <4> QED  BY <4>1, <4>2
    <3> QED  BY <3>1, <2>2, <1>3, <1>4, RanHolds
  <2>3. CASE d # "vcom"
    <3>1. t # "main"  BY <2>3, <1>2, <1>3 DEF MainInv
    <3>2. devices["vcom"].ref > 0  BY <3>1, <2>1, <1>3, <1>5, <1>7 DEF MainInv
    <3> QED  BY <3>2, <2>3, <1>3, <1>5
  <2> QED  BY <2>2, <2>3
<1>8. MainInv'
  BY <1>6, <1>7 DEF MainInv
<1> QED  BY <1>3, <1>8

LEMMA TornStays ==
    ASSUME torn, [ConsoleNext]_consoleVars
    PROVE  torn'
<1>1. ASSUME NEW t \in Threads, OpenOrClose(t) PROVE torn'
  BY <1>1 DEF OpenOrClose, KeepStream, SetFlags, AllocFifo, LoadFlags, OrInt, OrStream, OrOpen, LoadRef,
     CountUp, TestRef, CountDown, TestLeft, TestMore, TestInt, FreeFifo, MaskInt, ClearFlags, Statement
<1>2. ASSUME NEW t \in Threads, NEW d, Touches(t, d) PROVE torn'
  BY <1>2 DEF Touches
<1>3. ASSUME NEW t \in Threads, NEW d, NEW o, rt_device_open(t, d, o) \/ rt_device_close(t, d) PROVE torn'
  BY <1>2, <1>3 DEF rt_device_open, rt_device_close, Enters
<1>4. ASSUME NEW t \in Threads, SwitchAct(t) \/ MainOpen(t) \/ LogBegin(t) \/ LogEnd(t) PROVE torn'
  <2>1. CASE FinshOpen(t)  BY <2>1, <1>3 DEF FinshOpen
  <2>2. CASE FinshClose(t)  BY <2>2, <1>3 DEF FinshClose
  <2>3. CASE FinshClear(t) \/ FinshAssign(t) \/ FinshIndicate(t) \/ ConsoleAssign(t)
    BY <2>3 DEF FinshClear, FinshAssign, FinshIndicate, ConsoleAssign
  <2>4. CASE ConsoleClose(t)  BY <2>4, <1>3 DEF ConsoleClose
  <2>5. CASE ConsoleOpen(t)  BY <2>5, <1>3 DEF ConsoleOpen
  <2>6. CASE CloseDevice(t)  BY <2>6, <1>3 DEF CloseDevice
  <2>7. CASE OpenDevice(t)  BY <2>7, <1>3 DEF OpenDevice
  <2>8. CASE MainOpen(t)  BY <2>8, <1>3 DEF MainOpen
  <2>9. CASE KprintfBegin(t)  BY <2>9, <1>2 DEF KprintfBegin
  <2>10. CASE KprintfEnd(t)  BY <2>10, <1>2 DEF KprintfEnd
  <2>11. CASE LogBegin(t)  BY <2>11, <1>2 DEF LogBegin
  <2>12. CASE LogEnd(t)  BY <2>12, <1>2 DEF LogEnd
  <2> QED  BY <1>4, <2>1, <2>2, <2>3, <2>4, <2>5, <2>6, <2>7, <2>8, <2>9, <2>10, <2>11, <2>12
           DEF SwitchAct
<1>5. ASSUME (\E d \in Devices : PressKey(d) \/ TypeChangePrint(d)) \/ LogOutput PROVE torn'
  BY <1>5 DEF PressKey, TypeChangePrint, LogOutput
<1>6. CASE UNCHANGED consoleVars
  BY <1>6 DEF consoleVars
<1>7. CASE ConsoleNext
  BY <1>1, <1>4, <1>5, <1>7 DEF ConsoleNext, Thread, SwitchAct
<1> QED  BY <1>6, <1>7

LEMMA ConsoleKept ==
    ASSUME ConsoleInv, [ConsoleNext]_consoleVars
    PROVE  ConsoleInv'
<1> SUFFICES ASSUME ~torn' PROVE SwitchInv'
  BY DEF ConsoleInv
<1>1. SwitchInv
  BY TornStays DEF ConsoleInv
<1>2. CASE CallOrUser
  <2>1. EntryInv
    BY <1>1, EntryIs DEF SwitchInv
  <2>2. /\ Move /\ TypedInv' /\ SplitInv' /\ MainInv'
        /\ KindKept \/ (ChangeIsTyped /\ calls'["tshell"] \in Seq(VcomCalls))
    BY <1>1, <1>2, <2>1, Moved DEF SwitchInv, WhereInv
  <2> QED  BY <1>1, <2>2, WhereKept, RefsKept, FifoKept, OpenKept, IntKept, IndKept DEF SwitchInv
<1>3. ASSUME Completed' = Completed, UNCHANGED <<console, shell_dev, calls, saved, bounds>>
      PROVE  WhereInv' /\ RefInv' /\ FifoInv' /\ OpenInv' /\ IntInv' /\ IndInv'
  <2>1. FifoInv' /\ OpenInv' /\ IntInv' /\ IndInv'
    BY <1>1, <1>3 DEF SwitchInv, FifoInv, OpenInv, IntInv, IndInv, Unheard, Reopens, At, Does, bounds
  <2>2. RefInv'
    BY <1>1, <1>3 DEF SwitchInv, RefInv, RefMatch, Loose, Account, Share, At, Does, bounds
  <2>3. WhereInv'
    BY <1>1, <1>3 DEF SwitchInv, WhereInv, TypedInv, CallsInv, PhaseInv, PlaceInv, Freedom, At, Does, bounds
  <2> QED  BY <2>1, <2>2, <2>3
<1>4. ASSUME NEW t \in Threads, OpenOrClose(t) PROVE SwitchInv'
  <2>1. /\ SplitInv' /\ MainInv' /\ Completed' = Completed
        /\ UNCHANGED <<console, shell_dev, calls, saved, bounds>>
    BY <1>1, <1>4, StatementStep DEF SwitchInv
  <2> QED  BY <2>1, <1>3 DEF SwitchInv
<1>5. CASE UNCHANGED consoleVars
  <2>1. Completed' = Completed /\ UNCHANGED <<console, shell_dev, calls, saved, bounds>>
    BY <1>5 DEF consoleVars, Completed, Within
  <2>2. SplitInv' /\ MainInv'
    BY <1>1, <1>5 DEF SwitchInv, SplitInv, MainInv, Within, Does, At, consoleVars
  <2> QED  BY <2>1, <2>2, <1>3 DEF SwitchInv
<1>6. ConsoleNext => CallOrUser \/ \E t \in Threads : OpenOrClose(t)
  BY DEF ConsoleNext, Thread, SwitchAct, CallOrUser
<1> QED  BY <1>2, <1>4, <1>5, <1>6

\* What holds of the devices when no thread has anything to do.
LEMMA SettledIs ==
    ASSUME SwitchInv, Settled
    PROVE  /\ \A t \in Threads : Does(t, "idle")
           /\ console \in Devices /\ shell_dev \in Devices /\ \A d \in Devices : Completed[d] = devices[d]
           /\ devices[console].ref > 0 /\ devices[shell_dev].ref > 0 /\ devices["vcom"].ref > 0
<1>1. \A t \in Threads : Does(t, "idle")
  BY IdleIs DEF Settled, Busy, SwitchInv, WhereInv, TypedInv
<1>2. At("tBtn").op = "idle" /\ At("tshell").op = "idle"
  BY <1>1 DEF Does, Threads
<1>3. console \in Devices /\ shell_dev \in Devices /\ "vcom" \in Devices
  BY <1>2, WhereIs DEF SwitchInv, ShellPhase, BootAhead, FinshFrom, Devices
<1>4. Completed[console].ref > 0 /\ Completed[shell_dev].ref > 0 /\ Completed["vcom"].ref > 0
  BY <1>1, <1>2, <1>3, HeldIs DEF SwitchInv, Threads
<1>5. \A d \in Devices : Completed[d] = devices[d]
  BY SettledNow DEF SwitchInv
<1> QED  BY <1>1, <1>3, <1>4, <1>5

\* A device somebody is inside of is sound by SoFar, another one by FifoInv.
LEMMA AllSound ==
    ASSUME SwitchInv, NEW d \in Devices
    PROVE  Sound(d, devices[d])
<1>1. SplitInv /\ Sound(d, Completed[d])
  BY EntryIs DEF SwitchInv, EntryInv
<1>2. CASE \E u \in Threads : Within(u, d)
  <2>1. PICK u \in Threads : Within(u, d)  BY <1>2
  <2> QED  BY <1>1, <2>1 DEF Within, SplitInv, SoFar
<1>3. CASE ~\E u \in Threads : Within(u, d)
  BY <1>1, <1>3, CompletedIs
<1> QED  BY <1>2, <1>3

LEMMA DevicesOpen ==
    ASSUME ConsoleInv
    PROVE  UsedDevicesOpen
<1> SUFFICES ASSUME ~torn, SwitchInv PROVE UsedDevicesOpen
  BY DEF ConsoleInv, UsedDevicesOpen
<1>1. ASSUME Settled, NEW d \in {console, shell_dev, "vcom"}
      PROVE  devices[d].ref > 0 /\ "OPEN" \in devices[d].flags
  BY <1>1, SettledIs DEF SwitchInv, OpenInv, Devices
<1>2. ~Busy("main") => devices["vcom"].ref > 0
  BY IdleIs DEF Busy, SwitchInv, MainInv, WhereInv, TypedInv, Threads
<1>3. \A d \in Devices : devices[d].ref > 0 /\ "INT_RX" \in devices[d].flags => devices[d].rx
  BY AllSound DEF Sound, SaysInt
<1>4. "OPEN" \in devices["vcom"].flags => devices["vcom"].rx
  BY AllSound DEF Sound, Devices
<1> QED  BY <1>1, <1>2, <1>3, <1>4 DEF UsedDevicesOpen

LEMMA ShellIsHeard ==
    ASSUME ConsoleInv
    PROVE  ShellHears
<1> SUFFICES ASSUME Settled, ~misnamed, SwitchInv PROVE Hears(shell_dev)
  BY DEF ConsoleInv, ShellHears
<1>1. /\ At("tshell").op = "idle" /\ At("tBtn").op = "idle" /\ Completed[shell_dev] = devices[shell_dev]
      /\ shell_dev \in Devices /\ devices[shell_dev].ref > 0
  BY SettledIs DEF Does, Threads
<1>2. "INT_RX" \in devices[shell_dev].flags
  BY <1>1 DEF SwitchInv, IntInv, Reopens, Unheard, Does
<1>3. devices[shell_dev].ind
  BY <1>1 DEF SwitchInv, IndInv, SwitchThreads, Does
<1>4. devices[shell_dev].rx
  BY <1>1, <1>2, AllSound DEF Sound, SaysInt
<1> QED  BY <1>2, <1>3, <1>4 DEF Hears

LEMMA ConsoleHolds == ConsoleSpec => []ConsoleInv
<1>1. ConsoleInit => ConsoleInv
  BY ConsoleStarts
<1>2. ConsoleInv /\ [ConsoleNext]_consoleVars => ConsoleInv'
  BY ConsoleKept
<1> QED  BY <1>1, <1>2, PTL DEF ConsoleSpec

\* However often the console is moved, once a switch is over each device is open exactly as
\* often as it has users: no rt_device_open or rt_device_close too many.  (Unless the switch
\* met another inside an rt_device_open or rt_device_close, whose counting is not locked.)
THEOREM OpenAsOftenAsUsed == ConsoleSpec => []RefsMatchHolders
<1>1. ConsoleInv => RefsMatchHolders
  BY SettledRefs DEF ConsoleInv, SwitchInv, RefsMatchHolders
<1> QED  BY <1>1, ConsoleHolds, PTL

\* As long as no thread comes into the middle of another's rt_device_open or rt_device_close
\* of a device and uses it, no device in use is closed by two switches at once, "vcom" is never
\* closed for the last time, and after each statement of an open or a close a device that
\* receives has its serial_rx.
THEOREM UsedStayOpen == ConsoleSpec => []UsedDevicesOpen
<1>1. ConsoleInv => UsedDevicesOpen
  BY DevicesOpen
<1> QED  BY <1>1, ConsoleHolds, PTL

\* The shell is never left without input: the flags that rt_kprintf and the log backend save
\* and restore, and the open without INT_RX of rt_console_set_device, are made up for.  (With
\* the same exception: open_flag |= is not locked.)
THEOREM ShellIsNeverDeaf == ConsoleSpec => []ShellHears
<1>1. ConsoleInv => ShellHears
  BY ShellIsHeard
<1> QED  BY <1>1, ConsoleHolds, PTL

=============================================================================
