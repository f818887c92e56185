--------------------------- MODULE Halter_proofs ---------------------------
(***************************************************************************)
(* What is proved of the Halters, for any number of them, any links and    *)
(* any callers.                                                            *)
(*                                                                         *)
(* VisitsComplete rests on StackInv, which says of every frame of every    *)
(* goroutine what is true of it wherever it is (Local) and because of the  *)
(* frames above it (Position).                                             *)
(***************************************************************************)
EXTENDS Halter, TLAPS

\* The frame has the mutex of its Halter; it is one of RequestStop.
Holding(f) == f.pc \in {"tell", "wait", "waitFor"}
Telling(f) == f.pc \in {"stop", "tellLock", "tell"}

\* Between Lock and Unlock a goroutine has the mutex; it was asked to stop before it tells
\* others; what it has waited for is done; links are those of AddDownstream.
Local(p, f) ==
    /\ Holding(f) => mut[f.h] = p
    /\ f.pc \in {"tellLock", "tell"} => stopped[f.h]
    /\ f.pc \in {"link", "linkUp"} => <<f.h, f.d>> \in Edges
    /\ f.pc = "wait" => \A d \in down[f.h] \ f.todo : done[d]
    /\ f.pc = "waitFor" => \A d \in down[f.h] \ (f.todo \cup {f.d}) : done[d]

\* No two frames have the same mutex; above a frame that tells downstream there are only
\* the recursive calls of RequestStop, one of which is on whoever is not told yet.
Position(s, i) ==
    /\ Holding(s[i]) => \A j \in 1..Len(s) : Holding(s[j]) /\ s[j].h = s[i].h => j = i
    /\ s[i].pc = "tell" =>
          /\ \A j \in 1..(i - 1) : Telling(s[j])
          /\ \A d \in down[s[i].h] \ s[i].todo :
                stopped[d] \/ \E j \in 1..(i - 1) : s[j].h = d

StackOK(p) ==
    \A i \in 1..Len(stack[p]) : Local(p, stack[p][i]) /\ Position(stack[p], i)

StackInv == \A p \in Procs : StackOK(p)

HalterInv == TypeOK /\ StackInv

-----------------------------------------------------------------------------
(* Stacks *)

\* The frame on top is replaced.
LEMMA GotoStack ==
    ASSUME NEW s \in Seq(Frame), s # <<>>, NEW g \in Frame, NEW r, r = <<g>> \o Tail(s)
    PROVE  /\ r \in Seq(Frame) /\ Len(r) = Len(s) /\ r[1] = g
           /\ \A i \in 1..Len(s) : i # 1 => r[i] = s[i]
  OBVIOUS

\* A frame is put above the one that replaces the top.
LEMMA PushStack ==
    ASSUME NEW s \in Seq(Frame), s # <<>>, NEW g \in Frame, NEW c \in Frame,
           NEW r, r = <<c, g>> \o Tail(s)
    PROVE  /\ r \in Seq(Frame) /\ Len(r) = Len(s) + 1 /\ r[1] = c /\ r[2] = g
           /\ \A i \in 1..Len(s) : i # 1 => r[i + 1] = s[i]
  OBVIOUS

\* The frame on top returns.
LEMMA ReturnStack ==
    ASSUME NEW s \in Seq(Frame), s # <<>>, NEW r, r = Tail(s)
    PROVE  /\ r \in Seq(Frame) /\ Len(r) = Len(s) - 1
           /\ \A i \in 1..Len(r) : i + 1 \in 1..Len(s) /\ r[i] = s[i + 1]
  OBVIOUS

\* A frame of a stack.
LEMMA FrameTyped ==
    ASSUME TypeOK, NEW q \in Procs, NEW i \in 1..Len(stack[q])
    PROVE  stack[q][i] \in Frame /\ stack[q][i].h \in Halters
<1>1. stack[q] \in Seq(Frame)
  BY Zenon DEF TypeOK
<1>2. stack[q][i] \in Frame
  BY <1>1
<1>. QED
  BY <1>2, Zenon DEF Frame

\* The frame on top is the first of the stack.
LEMMA TopFrame ==
    ASSUME TypeOK, NEW p \in Procs, stack[p] # <<>>
    PROVE  /\ stack[p] \in Seq(Frame) /\ Len(stack[p]) \in Nat \ {0}
           /\ Top(p) = stack[p][1] /\ Top(p) \in Frame /\ 1 \in 1..Len(stack[p])
<1>1. stack[p] \in Seq(Frame)
  BY Zenon DEF TypeOK
<1>. QED
  BY <1>1 DEF Top

-----------------------------------------------------------------------------
(* What a step of one goroutine leaves of the frames of all *)

\* Closed channels stay closed.
Grow == \A h \in Halters : (stopped[h] => stopped'[h]) /\ (done[h] => done'[h])

\* The step keeps off the mutex that the frame has, and off what it protects.
Quiet(f) == Holding(f) => mut'[f.h] = mut[f.h] /\ down'[f.h] = down[f.h]

\* Local after the step, of a frame of before or of a new one.
LocalAfter(p, f) ==
    /\ Holding(f) => mut'[f.h] = p
    /\ f.pc \in {"tellLock", "tell"} => stopped'[f.h]
    /\ f.pc \in {"link", "linkUp"} => <<f.h, f.d>> \in Edges
    /\ f.pc = "wait" => \A d \in down'[f.h] \ f.todo : done'[d]
    /\ f.pc = "waitFor" => \A d \in down'[f.h] \ (f.todo \cup {f.d}) : done'[d]

\* A mutex that is free is held by no frame.
LEMMA FreeIsFree ==
    ASSUME StackInv, NEW q \in Procs, NEW i \in 1..Len(stack[q]), Holding(stack[q][i])
    PROVE  mut[stack[q][i].h] # Free
  BY LinksAssumption, Zenon DEF StackInv, StackOK, Local

\* A frame that the step does not touch.
LEMMA LocalKept ==
    ASSUME TypeOK, Grow, NEW p \in Procs, NEW f \in Frame, Local(p, f), Quiet(f)
    PROVE  LocalAfter(p, f)
<1>1. f.h \in Halters /\ down[f.h] \subseteq Halters
  BY Zenon DEF TypeOK, Frame
<1>2. \A d \in down[f.h] : done[d] => done'[d]
  BY <1>1, Zenon DEF Grow
<1>3. f.pc \in {"tellLock", "tell"} => stopped'[f.h]
  BY <1>1, Zenon DEF Grow, Local
<1>4. Holding(f) => mut'[f.h] = p
  BY Zenon DEF Quiet, Local
<1>5. f.pc = "wait" => \A d \in down'[f.h] \ f.todo : done'[d]
  BY <1>2, Zenon DEF Quiet, Local, Holding
<1>6. f.pc = "waitFor" => \A d \in down'[f.h] \ (f.todo \cup {f.d}) : done'[d]
  BY <1>2, Zenon DEF Quiet, Local, Holding
<1>. QED
  BY <1>3, <1>4, <1>5, <1>6, Zenon DEF Local, LocalAfter

\* A frame that tells downstream, at the same place or at another of the new stack, with
\* what was above it still above it or told.
LEMMA ToldKept ==
    ASSUME TypeOK, Grow, NEW f \in Frame, Quiet(f), f.pc = "tell", NEW A, NEW B,
           \A d \in down[f.h] \ f.todo : stopped[d] \/ d \in A,
           \A d \in A : stopped'[d] \/ d \in B
    PROVE  \A d \in down'[f.h] \ f.todo : stopped'[d] \/ d \in B
<1>1. f.h \in Halters /\ down[f.h] \subseteq Halters
  BY Zenon DEF TypeOK, Frame
<1>2. down'[f.h] = down[f.h]
  BY Zenon DEF Quiet, Holding
<1>. QED
  BY <1>1, <1>2, Zenon DEF Grow

\* A stack that the step does not touch.
LEMMA OthersKept ==
    ASSUME TypeOK, Grow, NEW q \in Procs, StackOK(q), stack'[q] = stack[q],
           \A i \in 1..Len(stack[q]) : Quiet(stack[q][i])
    PROVE  StackOK(q)'
<1>1. SUFFICES ASSUME NEW i \in 1..Len(stack[q])
               PROVE  Local(q, stack[q][i])' /\ Position(stack[q], i)'
  BY Zenon DEF StackOK
<1>2. stack[q][i] \in Frame
  BY FrameTyped, Zenon
<1>3. Local(q, stack[q][i])'
  <2>1. LocalAfter(q, stack[q][i])
    BY <1>2, LocalKept, Zenon DEF StackOK
  <2>. QED
    BY <2>1, Zenon DEF LocalAfter, Local, Holding
<1>4. Position(stack[q], i)'
  <2>1. Position(stack[q], i)
    BY Zenon DEF StackOK
  <2>2. ASSUME stack[q][i].pc = "tell"
        PROVE  \A d \in down'[stack[q][i].h] \ stack[q][i].todo :
                  stopped'[d] \/ \E j \in 1..(i - 1) : stack[q][j].h = d
    <3>. DEFINE A == {stack[q][j].h : j \in 1..(i - 1)}
    <3>1. \A d \in down[stack[q][i].h] \ stack[q][i].todo : stopped[d] \/ d \in A
      BY <2>1, <2>2, Zenon DEF Position
    <3>2. \A d \in down'[stack[q][i].h] \ stack[q][i].todo : stopped'[d] \/ d \in A
      BY <1>2, <2>2, <3>1, ToldKept, Zenon
    <3>. QED
      BY <3>2, Zenon
  <2>. QED
    BY <2>1, <2>2, Zenon DEF Position, Holding, Telling
<1>. QED
  BY <1>3, <1>4, Zenon

\* The goroutine goes on in the frame on top of its stack.
LEMMA GotoKept ==
    ASSUME TypeOK, Grow, NEW p \in Procs, StackOK(p), stack[p] # <<>>,
           NEW g \in Frame, stack'[p] = <<g>> \o Tail(stack[p]),
           \A i \in 1..Len(stack[p]) : i # 1 => Quiet(stack[p][i]),
           g.h = Top(p).h, Telling(Top(p)) => Telling(g), LocalAfter(p, g),
           \A i \in 1..Len(stack[p]) :
               i # 1 /\ Holding(g) /\ Holding(stack[p][i]) => stack[p][i].h # g.h,
           g.pc = "tell" => \A d \in down'[g.h] \ g.todo : stopped'[d]
    PROVE  StackOK(p)'
<1>. DEFINE s == stack[p]
            r == stack'[p]
<1>0. /\ s \in Seq(Frame) /\ Top(p) = s[1] /\ 1 \in 1..Len(s)
  BY TopFrame, Zenon
<1>1. /\ r \in Seq(Frame) /\ Len(r) = Len(s) /\ r[1] = g
      /\ \A i \in 1..Len(s) : i # 1 => r[i] = s[i]
  BY <1>0, GotoStack
<1>2. SUFFICES ASSUME NEW i \in 1..Len(s)
               PROVE  LocalAfter(p, r[i]) /\ Position(stack[p], i)'
  BY <1>1, Zenon DEF StackOK, LocalAfter, Local, Holding
<1>3. s[i] \in Frame
  BY <1>0
<1>4. i # 1 => LocalAfter(p, s[i])
  BY <1>3, LocalKept, Zenon DEF StackOK
<1>5. ASSUME Holding(r[i]), NEW j \in 1..Len(s), Holding(r[j]), r[j].h = r[i].h
      PROVE  j = i
  <2>1. CASE i = 1 \/ j = 1
    BY <1>1, <1>5, <2>1, Zenon
  <2>2. CASE i # 1 /\ j # 1
    BY <1>1, <1>5, <2>2, Zenon DEF StackOK, Position
  <2>. QED
    BY <2>1, <2>2, Zenon
<1>6. ASSUME r[i].pc = "tell"
      PROVE  /\ \A j \in 1..(i - 1) : Telling(r[j])
             /\ \A d \in down'[r[i].h] \ r[i].todo :
                   stopped'[d] \/ \E j \in 1..(i - 1) : r[j].h = d
  <2>1. CASE i = 1
    <3>1. 1..(i - 1) = {}
      BY <2>1
    <3>. QED
      BY <1>1, <1>6, <2>1, <3>1, Zenon
  <2>2. CASE i # 1
    <3>. DEFINE A == {s[j].h : j \in 1..(i - 1)}
    <3>1. r[i] = s[i] /\ s[i].pc = "tell" /\ Quiet(s[i]) /\ Position(s, i)
      BY <1>1, <1>6, <2>2, Zenon DEF StackOK
    <3>2. \A j \in 1..(i - 1) : j \in 1..Len(s)
      BY <1>0
    <3>3. \A j \in 1..(i - 1) : r[j].h = s[j].h /\ (Telling(s[j]) => Telling(r[j]))
      BY <1>0, <1>1, <3>2, Zenon
    <3>4. \A d \in down[s[i].h] \ s[i].todo : stopped[d] \/ d \in A
      <4>1. \A d \in down[s[i].h] \ s[i].todo :
                stopped[d] \/ \E j \in 1..(i - 1) : s[j].h = d
        BY <3>1, Zenon DEF Position
      <4>. QED
        BY <4>1
    <3>5. \A d \in A : \E j \in 1..(i - 1) : r[j].h = d
      BY <3>3, Zenon
    <3>. HIDE DEF A
    <3>6. \A d \in down'[s[i].h] \ s[i].todo : stopped'[d] \/ d \in A
      BY <1>3, <3>1, <3>4, ToldKept, Zenon
    <3>7. \A j \in 1..(i - 1) : Telling(r[j])
      BY <3>1, <3>3, Zenon DEF Position
    <3>. QED
      BY <3>1, <3>5, <3>6, <3>7, Zenon
  <2>. QED
    BY <2>1, <2>2, Zenon
<1>7. Position(stack[p], i)'
  BY <1>1, <1>5, <1>6, Zenon DEF Position, Holding, Telling
<1>8. LocalAfter(p, r[i])
  BY <1>1, <1>4, Zenon
<1>. QED
  BY <1>7, <1>8, Zenon

\* The frame on top returns; if it is one of RequestStop, its Halter was stopped.
LEMMA ReturnKept ==
    ASSUME TypeOK, Grow, NEW p \in Procs, StackOK(p), stack[p] # <<>>,
           stack'[p] = Tail(stack[p]),
           \A i \in 1..Len(stack[p]) : i # 1 => Quiet(stack[p][i]),
           Telling(Top(p)) => stopped'[Top(p).h]
    PROVE  StackOK(p)'
<1>. DEFINE s == stack[p]
            r == stack'[p]
<1>0. /\ s \in Seq(Frame) /\ Top(p) = s[1] /\ 1 \in 1..Len(s)
  BY TopFrame, Zenon
<1>1. /\ r \in Seq(Frame) /\ Len(r) = Len(s) - 1
      /\ \A i \in 1..Len(r) : i + 1 \in 1..Len(s) /\ r[i] = s[i + 1]
  BY <1>0, ReturnStack, Zenon
<1>2. SUFFICES ASSUME NEW i \in 1..Len(r)
               PROVE  LocalAfter(p, r[i]) /\ Position(stack[p], i)'
  BY <1>1, Zenon DEF StackOK, LocalAfter, Local, Holding
<1>3. /\ i + 1 \in 1..Len(s) /\ i + 1 # 1 /\ r[i] = s[i + 1] /\ s[i + 1] \in Frame
  BY <1>0, <1>1
<1>4. /\ Quiet(s[i + 1]) /\ Local(p, s[i + 1]) /\ Position(s, i + 1)
  BY <1>3, Zenon DEF StackOK
<1>5. LocalAfter(p, r[i])
  BY <1>3, <1>4, LocalKept, Zenon
<1>6. ASSUME Holding(r[i]), NEW j \in 1..Len(r), Holding(r[j]), r[j].h = r[i].h
      PROVE  j = i
  <2>0. j + 1 \in 1..Len(s) /\ r[j] = s[j + 1]
    BY <1>1, <1>6, Zenon
  <2>1. j + 1 = i + 1
    BY <1>3, <1>4, <1>6, <2>0, Zenon DEF Position
  <2>. QED
    BY <2>1
<1>7. ASSUME r[i].pc = "tell"
      PROVE  /\ \A j \in 1..(i - 1) : Telling(r[j])
             /\ \A d \in down'[r[i].h] \ r[i].todo :
                   stopped'[d] \/ \E j \in 1..(i - 1) : r[j].h = d
  <2>. DEFINE A == {s[j].h : j \in 1..i}
              B == {r[j].h : j \in 1..(i - 1)}
  <2>1. 1..((i + 1) - 1) = 1..i /\ 1 \in 1..i
    BY <1>1
  <2>2. /\ \A j \in 1..i : Telling(s[j])
        /\ \A d \in down[s[i + 1].h] \ s[i + 1].todo : stopped[d] \/ d \in A
    BY <1>3, <1>4, <1>7, <2>1, Zenon DEF Position
  <2>3. stopped'[s[1].h]
    BY <1>0, <2>1, <2>2, Zenon
  <2>4. \A j \in 1..(i - 1) : j \in 1..Len(r) /\ j + 1 \in 1..i
    BY <1>1
  <2>5. \A j \in 1..i : j # 1 => j - 1 \in 1..(i - 1) /\ r[j - 1] = s[j]
    <3>1. \A j \in 1..i :
             j # 1 => j - 1 \in 1..(i - 1) /\ j - 1 \in 1..Len(r) /\ (j - 1) + 1 = j
      BY <1>1
    <3>. QED
      BY <1>1, <3>1, Zenon
  <2>6. \A d \in A : stopped'[d] \/ d \in B
    <3>1. ASSUME NEW j \in 1..i, j # 1 PROVE s[j].h \in B
      BY <2>5, <3>1, Zenon
    <3>. QED
      BY <2>3, <3>1, Zenon
  <2>. HIDE DEF A, B
  <2>7. \A d \in down'[s[i + 1].h] \ s[i + 1].todo : stopped'[d] \/ d \in B
    BY <1>3, <1>4, <1>7, <2>2, <2>6, ToldKept, Zenon
  <2>8. \A j \in 1..(i - 1) : Telling(r[j])
    BY <1>1, <2>2, <2>4, Zenon
  <2>9. \A d \in B : \E j \in 1..(i - 1) : r[j].h = d
    BY Zenon DEF B
  <2>. QED
    BY <1>3, <2>7, <2>8, <2>9, Zenon
<1>8. Position(stack[p], i)'
  BY <1>6, <1>7, Zenon DEF Position, Holding, Telling
<1>. QED
  BY <1>5, <1>8, Zenon

\* The loop of RequestStop calls it on d.
LEMMA PushKept ==
    ASSUME TypeOK, NEW p \in Procs, StackOK(p), stack[p] # <<>>,
           UNCHANGED <<stopped, done, down, mut>>,
           NEW g \in Frame, NEW c \in Frame, stack'[p] = <<c, g>> \o Tail(stack[p]),
           Top(p).pc = "tell", g.pc = "tell", g.h = Top(p).h,
           c.pc = "stop", NEW d, c.h = d, g.todo = Top(p).todo \ {d}
    PROVE  StackOK(p)'
<1>. DEFINE s == stack[p]
            r == stack'[p]
<1>0. /\ s \in Seq(Frame) /\ Len(s) \in Nat /\ Top(p) = s[1] /\ 1 \in 1..Len(s)
  BY TopFrame, Zenon
<1>1. /\ r \in Seq(Frame) /\ Len(r) = Len(s) + 1 /\ r[1] = c /\ r[2] = g
      /\ \A i \in 1..Len(s) : i # 1 => r[i + 1] = s[i]
  BY <1>0, PushStack
<1>2. SUFFICES ASSUME NEW i \in 1..Len(r)
               PROVE  LocalAfter(p, r[i]) /\ Position(stack[p], i)'
  BY <1>1, Zenon DEF StackOK, LocalAfter, Local, Holding
<1>3. \A f \in Frame : Local(p, f) => LocalAfter(p, f)
  BY Zenon DEF Local, LocalAfter
<1>4. Local(p, s[1]) /\ Position(s, 1)
  BY <1>0, Zenon DEF StackOK
<1>5. /\ ~Holding(c) /\ Holding(g) /\ Holding(s[1])
      /\ Telling(c) /\ Telling(g) /\ Telling(s[1])
  BY <1>0, Zenon DEF Holding, Telling
<1>6. \A k \in 1..Len(s) :
         /\ k + 1 \in 1..Len(r) /\ r[k + 1].h = s[k].h /\ r[k + 1].pc = s[k].pc
         /\ k # 1 => r[k + 1] = s[k]
  BY <1>0, <1>1
<1>7. \A k \in 1..Len(r) : k # 1 => k - 1 \in 1..Len(s) /\ (k - 1) + 1 = k
  BY <1>0, <1>1
<1>8. CASE i = 1
  <2>1. LocalAfter(p, c)
    BY Zenon DEF LocalAfter, Holding
  <2>. QED
    BY <1>1, <1>5, <1>8, <2>1, Zenon DEF Position, Holding
<1>9. CASE i # 1
  <2>. DEFINE k == i - 1
  <2>1. k \in 1..Len(s) /\ k + 1 = i /\ s[k] \in Frame
    BY <1>0, <1>7, <1>9
  <2>2. /\ r[i].h = s[k].h /\ r[i].pc = s[k].pc /\ (k # 1 => r[i] = s[k])
        /\ Local(p, s[k]) /\ Position(s, k)
    BY <1>6, <2>1, Zenon DEF StackOK
  <2>. HIDE DEF k
  <2>3. LocalAfter(p, r[i])
    <3>1. CASE k # 1
      BY <1>3, <2>1, <2>2, <3>1, Zenon
    <3>2. CASE k = 1
      BY <1>0, <2>2, <3>2, Zenon DEF Local, LocalAfter, Holding
    <3>. QED
      BY <3>1, <3>2, Zenon
  <2>4. ASSUME Holding(r[i]), NEW j \in 1..Len(r), Holding(r[j]), r[j].h = r[i].h
        PROVE  j = i
    <3>1. j # 1
      BY <1>1, <1>5, <2>4, Zenon
    <3>2. j - 1 \in 1..Len(s) /\ (j - 1) + 1 = j
      BY <1>7, <3>1, Zenon
    <3>3. Holding(s[j - 1]) /\ Holding(s[k]) /\ s[j - 1].h = s[k].h
      BY <1>6, <2>2, <2>4, <3>2, Zenon DEF Holding
    <3>4. j - 1 = k
      BY <2>2, <3>2, <3>3, Zenon DEF Position
    <3>. QED
      BY <2>1, <3>2, <3>4, Zenon
  <2>5. ASSUME r[i].pc = "tell" PROVE \A j \in 1..(i - 1) : Telling(r[j])
    <3>1. \A j \in 1..(i - 1) : j = 1 \/ j = 2 \/ (j - 1 \in 1..(k - 1) /\ j - 1 # 1)
      BY <2>1
    <3>2. \A j \in 1..(k - 1) : Telling(s[j])
      BY <2>2, <2>5, Zenon DEF Position
    <3>. SUFFICES ASSUME NEW j \in 1..(i - 1) PROVE Telling(r[j])
      BY Zenon
    <3>4. CASE j = 1
      BY <1>1, <1>5, <3>4, Zenon
    <3>5. CASE j = 2
      BY <1>1, <1>5, <3>5, Zenon
    <3>6. CASE j - 1 \in 1..(k - 1) /\ j - 1 # 1
      <4>1. j - 1 \in 1..Len(s) /\ (j - 1) + 1 = j
        BY <1>0, <1>1, <3>6
      <4>2. r[j] = s[j - 1]
        BY <1>6, <3>6, <4>1, Zenon
      <4>. QED
        BY <3>2, <3>6, <4>2, Zenon
    <3>. QED
      BY <3>1, <3>4, <3>5, <3>6, Zenon
  <2>6. ASSUME r[i].pc = "tell", NEW x \in down[r[i].h] \ r[i].todo
        PROVE  stopped[x] \/ \E j \in 1..(i - 1) : r[j].h = x
    <3>1. 1 \in 1..(i - 1) /\ \A j \in 1..(k - 1) : j + 1 \in 1..(i - 1) /\ j \in 1..Len(s)
      BY <1>0, <1>9, <2>1
    <3>2. CASE x = d
      BY <1>1, <3>1, <3>2, Zenon
    <3>3. CASE x # d
      <4>0. x \in down[s[k].h]
        BY <2>2, <2>6, Zenon
      <4>1. x \notin s[k].todo
        <5>1. CASE k = 1
          <6>1. r[i] = g
            BY <1>1, <2>1, <5>1
          <6>. QED
            BY <1>0, <2>6, <3>3, <5>1, <6>1, Zenon
        <5>2. CASE k # 1
          BY <2>2, <2>6, <5>2, Zenon
        <5>. QED
          BY <5>1, <5>2, Zenon
      <4>2. stopped[x] \/ \E j \in 1..(k - 1) : s[j].h = x
        BY <2>2, <2>6, <4>0, <4>1, Zenon DEF Position
      <4>3. ASSUME NEW j \in 1..(k - 1), s[j].h = x PROVE \E m \in 1..(i - 1) : r[m].h = x
        <5>1. j + 1 \in 1..(i - 1) /\ r[j + 1].h = x
          BY <1>6, <3>1, <4>3, Zenon
        <5>. QED
          BY <5>1, Zenon
      <4>. QED
        BY <4>2, <4>3, Zenon
    <3>. QED
      BY <3>2, <3>3, Zenon
  <2>7. Position(stack[p], i)'
    BY <2>4, <2>5, <2>6, Zenon DEF Position, Holding, Telling
  <2>. QED
    BY <2>3, <2>7, Zenon
<1>. QED
  BY <1>8, <1>9, Zenon

\* A goroutine makes its call: nothing is held yet, and nobody was told.
LEMMA CallKept ==
    ASSUME NEW p \in Procs,
           \A i \in 1..Len(stack'[p]) :
               /\ ~Holding(stack'[p][i]) /\ stack'[p][i].pc # "tellLock"
               /\ stack'[p][i].pc \in {"link", "linkUp"} =>
                     <<stack'[p][i].h, stack'[p][i].d>> \in Edges
    PROVE  StackOK(p)'
  BY Zenon DEF StackOK, Local, Position, Holding

-----------------------------------------------------------------------------
(* The steps *)

\* A step that changes the stack of one goroutine.
LEMMA StackStep ==
    ASSUME HalterInv, Grow, NEW p \in Procs, NEW r \in Seq(Frame),
           stack' = [stack EXCEPT ![p] = r], StackOK(p)',
           \A q \in Procs : q # p => \A i \in 1..Len(stack[q]) : Quiet(stack[q][i])
    PROVE  stack' \in [Procs -> Seq(Frame)] /\ StackInv'
<1>1. stack' \in [Procs -> Seq(Frame)]
  BY Zenon DEF HalterInv, TypeOK
<1>2. \A q \in Procs : q # p => stack'[q] = stack[q]
  BY Zenon DEF HalterInv, TypeOK
<1>3. ASSUME NEW q \in Procs, q # p PROVE StackOK(q)'
  BY <1>2, <1>3, OthersKept, Zenon DEF HalterInv, StackInv
<1>. QED
  BY <1>1, <1>3, Zenon DEF StackInv

\* The goroutine goes on in its frame.
LEMMA GotoStep ==
    ASSUME HalterInv, Grow, NEW p \in Procs, stack[p] # <<>>, NEW g \in Frame, Goto(p, g),
           \A q \in Procs : \A i \in 1..Len(stack[q]) :
               q # p \/ i # 1 => Quiet(stack[q][i]),
           g.h = Top(p).h, Telling(Top(p)) => Telling(g), LocalAfter(p, g),
           Holding(g) => Holding(Top(p)) \/ mut[g.h] = Free,
           g.pc = "tell" => \A d \in down'[g.h] \ g.todo : stopped'[d]
    PROVE  stack' \in [Procs -> Seq(Frame)] /\ StackInv'
<1>. DEFINE r == <<g>> \o Tail(stack[p])
<1>1. /\ stack[p] \in Seq(Frame) /\ Top(p) = stack[p][1] /\ 1 \in 1..Len(stack[p])
      /\ TypeOK /\ StackInv /\ StackOK(p)
  BY TopFrame, Zenon DEF HalterInv, StackInv
<1>2. r \in Seq(Frame)
  BY <1>1, GotoStack, Zenon
<1>3. stack' = [stack EXCEPT ![p] = r]
  BY Zenon DEF Goto
<1>4. stack'[p] = r
  BY <1>1, <1>3, Zenon DEF TypeOK
<1>5. ASSUME NEW i \in 1..Len(stack[p]), i # 1, Holding(g), Holding(stack[p][i])
      PROVE  stack[p][i].h # g.h
  <2>1. CASE mut[g.h] = Free
    BY <1>1, <1>5, <2>1, FreeIsFree, Zenon
  <2>2. CASE Holding(Top(p))
    BY <1>1, <1>5, <2>2, Zenon DEF StackOK, Position
  <2>. QED
    BY <1>5, <2>1, <2>2, Zenon
<1>6. StackOK(p)'
  BY <1>1, <1>4, <1>5, GotoKept, Zenon
<1>. QED
  BY <1>2, <1>3, <1>6, StackStep, Zenon

\* The goroutine returns from its frame.
LEMMA ReturnStep ==
    ASSUME HalterInv, Grow, NEW p \in Procs, stack[p] # <<>>, Return(p),
           \A q \in Procs : \A i \in 1..Len(stack[q]) :
               q # p \/ i # 1 => Quiet(stack[q][i]),
           Telling(Top(p)) => Top(p).pc = "tell"
    PROVE  stack' \in [Procs -> Seq(Frame)] /\ StackInv'
<1>1. /\ stack[p] \in Seq(Frame) /\ Top(p) = stack[p][1] /\ 1 \in 1..Len(stack[p])
      /\ TypeOK /\ StackInv /\ StackOK(p) /\ Top(p) \in Frame
  BY TopFrame, Zenon DEF HalterInv, StackInv
<1>2. Tail(stack[p]) \in Seq(Frame)
  BY <1>1, ReturnStack, Zenon
<1>3. stack' = [stack EXCEPT ![p] = Tail(stack[p])]
  BY Zenon DEF Return
<1>4. stack'[p] = Tail(stack[p])
  BY <1>1, <1>3, Zenon DEF TypeOK
<1>5. Top(p).pc = "tell" => stopped'[Top(p).h]
  <2>1. Top(p).h \in Halters
    BY <1>1, Zenon DEF Frame
  <2>. QED
    BY <1>1, <2>1, Zenon DEF StackOK, Local, Grow
<1>6. StackOK(p)'
  BY <1>1, <1>4, <1>5, ReturnKept, Zenon
<1>. QED
  BY <1>2, <1>3, <1>6, StackStep, Zenon

\* Nothing that a frame holds is touched when mutexes and maps stay, ...
LEMMA QuietSame ==
    ASSUME mut' = mut, down' = down
    PROVE  \A q \in Procs : \A i \in 1..Len(stack[q]) : Quiet(stack[q][i])
<1>. SUFFICES ASSUME NEW q \in Procs, NEW i \in 1..Len(stack[q]) PROVE Quiet(stack[q][i])
  BY Zenon
<1>. QED
  BY Zenon DEF Quiet

\* ... nor when those of a Halter whose mutex was free change.
LEMMA QuietFree ==
    ASSUME HalterInv, NEW h \in Halters, mut[h] = Free,
           \A x \in Halters : x # h => mut'[x] = mut[x] /\ down'[x] = down[x]
    PROVE  \A q \in Procs : \A i \in 1..Len(stack[q]) : Quiet(stack[q][i])
<1>. SUFFICES ASSUME NEW q \in Procs, NEW i \in 1..Len(stack[q]), Holding(stack[q][i])
              PROVE  Quiet(stack[q][i])
  BY Zenon DEF Quiet
<1>1. stack[q][i].h \in Halters
  BY FrameTyped, Zenon DEF HalterInv
<1>2. stack[q][i].h # h
  BY FreeIsFree, Zenon DEF HalterInv
<1>. QED
  BY <1>1, <1>2, Zenon DEF Quiet

\* RequestStop closes reqStop.
LEMMA CloseReqStopStep == HalterInv /\ (\E p \in Procs : CloseReqStop(p)) => HalterInv'
<1>. SUFFICES ASSUME HalterInv, NEW p \in Procs, CloseReqStop(p) PROVE HalterInv'
  BY Zenon
<1>. DEFINE T == Top(p)
<1>1. /\ stack[p] # <<>> /\ T \in Frame /\ T = stack[p][1] /\ T.pc = "stop"
      /\ TypeOK /\ StackInv /\ Local(p, T) /\ Position(stack[p], 1)
  BY TopFrame, Zenon DEF HalterInv, StackInv, StackOK, CloseReqStop, Running, Top
<1>2. T.h \in Halters /\ T.d \in Halters /\ T.todo \subseteq Halters
  BY <1>1, Zenon DEF Frame
<1>. DEFINE g == [T EXCEPT !.pc = "tellLock"]
<1>3. g \in Frame /\ g.pc = "tellLock" /\ g.h = T.h
  <2>1. "tellLock" \in Points /\ "wait" \in Points
    BY Zenon DEF Points
  <2>. QED
    BY <1>1, <2>1, Zenon DEF Frame
<1>4. stopped' \in [Halters -> BOOLEAN] /\ stopped'[T.h]
      /\ \A h \in Halters : stopped[h] => stopped'[h]
  BY <1>1, <1>2, Zenon DEF CloseReqStop, TypeOK
<1>5. /\ Goto(p, g) /\ UNCHANGED <<done, down, up, mut, called, cancelled>>
  BY Zenon DEF CloseReqStop
<1>. HIDE DEF g, T
<1>6. Grow
  BY <1>4, <1>5, Zenon DEF Grow
<1>7. LocalAfter(p, g)
  BY <1>3, <1>4, Zenon DEF LocalAfter, Holding
<1>8. \A q \in Procs : \A i \in 1..Len(stack[q]) : Quiet(stack[q][i])
  BY <1>5, QuietSame, Zenon
<1>9. stack' \in [Procs -> Seq(Frame)] /\ StackInv'
  <2>1. ~Holding(g) /\ Telling(g) /\ g.pc # "tell"
    BY <1>3, Zenon DEF Holding, Telling
  <2>. QED
    BY <1>1, <1>3, <1>5, <1>6, <1>7, <1>8, <2>1, GotoStep, Zenon DEF T
<1>10. TypeOK'
  BY <1>1, <1>4, <1>5, <1>9, Zenon DEF TypeOK
<1>. QED
  BY <1>9, <1>10, Zenon DEF HalterInv

\* RequestStop takes the mutex.
LEMMA LockTellStep == HalterInv /\ (\E p \in Procs : LockTell(p)) => HalterInv'
<1>. SUFFICES ASSUME HalterInv, NEW p \in Procs, LockTell(p) PROVE HalterInv'
  BY Zenon
<1>. DEFINE T == Top(p)
<1>1. /\ stack[p] # <<>> /\ T \in Frame /\ T = stack[p][1] /\ T.pc = "tellLock"
      /\ TypeOK /\ StackInv /\ Local(p, T) /\ Position(stack[p], 1)
  BY TopFrame, Zenon DEF HalterInv, StackInv, StackOK, LockTell, Running, Top
<1>2. T.h \in Halters /\ T.d \in Halters /\ T.todo \subseteq Halters
  BY <1>1, Zenon DEF Frame
<1>. DEFINE g == [T EXCEPT !.pc = "tell", !.todo = down[T.h]]
<1>3. g \in Frame /\ g.pc = "tell" /\ g.h = T.h /\ g.todo = down[T.h]
  <2>1. down[T.h] \in SUBSET Halters /\ "tell" \in Points /\ "wait" \in Points
    BY <1>1, <1>2, Zenon DEF TypeOK, Points
  <2>. QED
    BY <1>1, <2>1, Zenon DEF Frame
<1>4. /\ mut' \in [Halters -> Procs \cup {Free}] /\ mut'[T.h] = p /\ mut[T.h] = Free
      /\ \A h \in Halters : h # T.h => mut'[h] = mut[h]
  BY <1>1, <1>2, Zenon DEF LockTell, TypeOK
<1>5. /\ Goto(p, g) /\ UNCHANGED <<stopped, done, down, up, called, cancelled>>
  BY Zenon DEF LockTell
<1>. HIDE DEF g, T
<1>6. Grow
  BY <1>5, Zenon DEF Grow
<1>7. LocalAfter(p, g)
  BY <1>1, <1>3, <1>4, <1>5, Zenon DEF LocalAfter, Local, Holding
<1>8. \A q \in Procs : \A i \in 1..Len(stack[q]) : Quiet(stack[q][i])
  BY <1>2, <1>4, <1>5, QuietFree, Zenon
<1>9. stack' \in [Procs -> Seq(Frame)] /\ StackInv'
  <2>1. Telling(g) /\ down'[g.h] \ g.todo = {}
    BY <1>3, <1>5, Zenon DEF Telling
  <2>. QED
    BY <1>1, <1>3, <1>4, <1>5, <1>6, <1>7, <1>8, <2>1, GotoStep, Zenon DEF T
<1>10. TypeOK'
  BY <1>1, <1>4, <1>5, <1>9, Zenon DEF TypeOK
<1>. QED
  BY <1>9, <1>10, Zenon DEF HalterInv

\* waitForDownstreamDone takes the mutex.
LEMMA LockWaitStep == HalterInv /\ (\E p \in Procs : LockWait(p)) => HalterInv'
<1>. SUFFICES ASSUME HalterInv, NEW p \in Procs, LockWait(p) PROVE HalterInv'
  BY Zenon
<1>. DEFINE T == Top(p)
<1>1. /\ stack[p] # <<>> /\ T \in Frame /\ T = stack[p][1] /\ T.pc = "waitLock"
      /\ TypeOK /\ StackInv /\ Local(p, T) /\ Position(stack[p], 1)
  BY TopFrame, Zenon DEF HalterInv, StackInv, StackOK, LockWait, Running, Top
<1>2. T.h \in Halters /\ T.d \in Halters /\ T.todo \subseteq Halters
  BY <1>1, Zenon DEF Frame
<1>. DEFINE g == [T EXCEPT !.pc = "wait", !.todo = down[T.h]]
<1>3. g \in Frame /\ g.pc = "wait" /\ g.h = T.h /\ g.todo = down[T.h]
  <2>1. down[T.h] \in SUBSET Halters /\ "tell" \in Points /\ "wait" \in Points
    BY <1>1, <1>2, Zenon DEF TypeOK, Points
  <2>. QED
    BY <1>1, <2>1, Zenon DEF Frame
<1>4. /\ mut' \in [Halters -> Procs \cup {Free}] /\ mut'[T.h] = p /\ mut[T.h] = Free
      /\ \A h \in Halters : h # T.h => mut'[h] = mut[h]
  BY <1>1, <1>2, Zenon DEF LockWait, TypeOK
<1>5. /\ Goto(p, g) /\ UNCHANGED <<stopped, done, down, up, called, cancelled>>
  BY Zenon DEF LockWait
<1>. HIDE DEF g, T
<1>6. Grow
  BY <1>5, Zenon DEF Grow
<1>7. LocalAfter(p, g)
  BY <1>3, <1>4, <1>5, Zenon DEF LocalAfter, Holding
<1>8. \A q \in Procs : \A i \in 1..Len(stack[q]) : Quiet(stack[q][i])
  BY <1>2, <1>4, <1>5, QuietFree, Zenon
<1>9. stack' \in [Procs -> Seq(Frame)] /\ StackInv'
  <2>1. ~Telling(T) /\ g.pc # "tell"
    BY <1>1, <1>3, Zenon DEF Telling
  <2>. QED
    BY <1>1, <1>3, <1>4, <1>5, <1>6, <1>7, <1>8, <2>1, GotoStep, Zenon DEF T
<1>10. TypeOK'
  BY <1>1, <1>4, <1>5, <1>9, Zenon DEF TypeOK
<1>. QED
  BY <1>9, <1>10, Zenon DEF HalterInv

\* RequestStop or waitForDownstreamDone releases the mutex and returns.
LEMMA UnlockStep == HalterInv /\ (\E p \in Procs : Unlock(p)) => HalterInv'
<1>. SUFFICES ASSUME HalterInv, NEW p \in Procs, Unlock(p) PROVE HalterInv'
  BY Zenon
<1>. DEFINE T == Top(p)
<1>1. /\ stack[p] # <<>> /\ T \in Frame /\ T = stack[p][1] /\ T.pc \in {"tell", "wait"}
      /\ TypeOK /\ StackInv /\ Local(p, T) /\ Position(stack[p], 1)
  BY TopFrame, Zenon DEF HalterInv, StackInv, StackOK, Unlock, Running, Top
<1>2. T.h \in Halters /\ T.d \in Halters /\ T.todo \subseteq Halters
  BY <1>1, Zenon DEF Frame
<1>3. /\ mut' \in [Halters -> Procs \cup {Free}]
      /\ \A h \in Halters : h # T.h => mut'[h] = mut[h]
  BY <1>1, <1>2, Zenon DEF Unlock, TypeOK
<1>4. /\ Return(p) /\ UNCHANGED <<stopped, done, down, up, called, cancelled>>
  BY Zenon DEF Unlock
<1>. HIDE DEF T
<1>5. Grow
  BY <1>4, Zenon DEF Grow
<1>6. ASSUME NEW q \in Procs, NEW i \in 1..Len(stack[q]), q # p \/ i # 1
      PROVE  Quiet(stack[q][i])
  <2>. SUFFICES ASSUME Holding(stack[q][i]) PROVE Quiet(stack[q][i])
    BY Zenon DEF Quiet
  <2>1. stack[q][i].h \in Halters
    BY <1>1, FrameTyped, Zenon
  <2>2. Holding(T) /\ mut[T.h] = p /\ mut[stack[q][i].h] = q
    BY <1>1, Zenon DEF Holding, Local, StackInv, StackOK
  <2>3. stack[q][i].h # T.h
    BY <1>1, <1>6, <2>2, Zenon DEF Position
  <2>. QED
    BY <1>3, <1>4, <2>1, <2>3, Zenon DEF Quiet
<1>7. stack' \in [Procs -> Seq(Frame)] /\ StackInv'
  <2>1. Telling(T) => T.pc = "tell"
    BY <1>1, Zenon DEF Telling
  <2>. QED
    BY <1>1, <1>4, <1>5, <1>6, <2>1, ReturnStep, Zenon DEF T
<1>8. TypeOK'
  BY <1>1, <1>3, <1>4, <1>7, Zenon DEF TypeOK
<1>. QED
  BY <1>7, <1>8, Zenon DEF HalterInv

\* waitForDownstreamDone takes the next Halter from its map.
LEMMA NextDownstreamStep == HalterInv /\ (\E p \in Procs : NextDownstream(p)) => HalterInv'
<1>. SUFFICES ASSUME HalterInv, NEW p \in Procs, NextDownstream(p) PROVE HalterInv'
  BY Zenon
<1>. DEFINE T == Top(p)
<1>1. /\ stack[p] # <<>> /\ T \in Frame /\ T = stack[p][1] /\ T.pc = "wait"
      /\ TypeOK /\ StackInv /\ Local(p, T) /\ Position(stack[p], 1)
  BY TopFrame, Zenon DEF HalterInv, StackInv, StackOK, NextDownstream, Running, Top
<1>2. T.h \in Halters /\ T.d \in Halters /\ T.todo \subseteq Halters
  BY <1>1, Zenon DEF Frame
<1>3. PICK d \in T.todo : Goto(p, [T EXCEPT !.pc = "waitFor", !.d = d, !.todo = @ \ {d}])
  BY Zenon DEF NextDownstream
<1>. DEFINE g == [T EXCEPT !.pc = "waitFor", !.d = d, !.todo = @ \ {d}]
<1>4. g \in Frame /\ g.pc = "waitFor" /\ g.h = T.h /\ g.d = d /\ g.todo = T.todo \ {d}
  <2>1. d \in Halters /\ T.todo \ {d} \in SUBSET Halters /\ "waitFor" \in Points
    BY <1>2, Zenon DEF Points
  <2>. QED
    BY <1>1, <2>1, Zenon DEF Frame
<1>5. /\ Goto(p, g) /\ UNCHANGED <<stopped, done, down, up, mut, called, cancelled>>
  BY <1>3, Zenon DEF NextDownstream, haltVars
<1>. HIDE DEF g, T
<1>6. Grow
  BY <1>5, Zenon DEF Grow
<1>7. LocalAfter(p, g)
  <2>1. \A x \in down[g.h] \ (g.todo \cup {g.d}) : done[x]
    BY <1>1, <1>4, Zenon DEF Local
  <2>. QED
    BY <1>1, <1>4, <1>5, <2>1, Zenon DEF LocalAfter, Local, Holding
<1>8. \A q \in Procs : \A i \in 1..Len(stack[q]) : Quiet(stack[q][i])
  BY <1>5, QuietSame, Zenon
<1>9. stack' \in [Procs -> Seq(Frame)] /\ StackInv'
  <2>1. ~Telling(T) /\ g.pc # "tell" /\ Holding(T)
    BY <1>1, <1>4, Zenon DEF Telling, Holding
  <2>. QED
    BY <1>1, <1>4, <1>5, <1>6, <1>7, <1>8, <2>1, GotoStep, Zenon DEF T
<1>10. TypeOK'
  BY <1>1, <1>5, <1>9, Zenon DEF TypeOK
<1>. QED
  BY <1>9, <1>10, Zenon DEF HalterInv

\* waitForDownstreamDone has seen that the Halter is done.
LEMMA DownstreamDoneStep == HalterInv /\ (\E p \in Procs : DownstreamDone(p)) => HalterInv'
<1>. SUFFICES ASSUME HalterInv, NEW p \in Procs, DownstreamDone(p) PROVE HalterInv'
  BY Zenon
<1>. DEFINE T == Top(p)
<1>1. /\ stack[p] # <<>> /\ T \in Frame /\ T = stack[p][1] /\ T.pc = "waitFor"
      /\ TypeOK /\ StackInv /\ Local(p, T) /\ Position(stack[p], 1)
  BY TopFrame, Zenon DEF HalterInv, StackInv, StackOK, DownstreamDone, Running, Top
<1>2. T.h \in Halters /\ T.d \in Halters /\ T.todo \subseteq Halters
  BY <1>1, Zenon DEF Frame
<1>. DEFINE g == [T EXCEPT !.pc = "wait"]
<1>3. g \in Frame /\ g.pc = "wait" /\ g.h = T.h /\ g.todo = T.todo
  <2>1. "tellLock" \in Points /\ "wait" \in Points
    BY Zenon DEF Points
  <2>. QED
    BY <1>1, <2>1, Zenon DEF Frame
<1>4. /\ up' \in [Halters -> SUBSET Halters] /\ done[T.d]
      /\ \A h \in Halters : up'[h] \subseteq up[h]
  BY <1>1, <1>2, Zenon DEF DownstreamDone, TypeOK
<1>5. /\ Goto(p, g) /\ UNCHANGED <<stopped, done, down, mut, called, cancelled>>
  BY Zenon DEF DownstreamDone
<1>. HIDE DEF g, T
<1>6. Grow
  BY <1>5, Zenon DEF Grow
<1>7. LocalAfter(p, g)
  <2>1. \A x \in down[g.h] \ g.todo : done[x]
    BY <1>1, <1>3, <1>4, Zenon DEF Local
  <2>. QED
    BY <1>1, <1>3, <1>5, <2>1, Zenon DEF LocalAfter, Local, Holding
<1>8. \A q \in Procs : \A i \in 1..Len(stack[q]) : Quiet(stack[q][i])
  BY <1>5, QuietSame, Zenon
<1>9. stack' \in [Procs -> Seq(Frame)] /\ StackInv'
  <2>1. ~Telling(T) /\ g.pc # "tell" /\ Holding(T)
    BY <1>1, <1>3, Zenon DEF Telling, Holding
  <2>. QED
    BY <1>1, <1>3, <1>5, <1>6, <1>7, <1>8, <2>1, GotoStep, Zenon DEF T
<1>10. TypeOK'
  BY <1>1, <1>4, <1>5, <1>9, Zenon DEF TypeOK
<1>. QED
  BY <1>9, <1>10, Zenon DEF HalterInv

\* MarkDone closes done.
LEMMA CloseDoneStep == HalterInv /\ (\E p \in Procs : CloseDone(p)) => HalterInv'
<1>. SUFFICES ASSUME HalterInv, NEW p \in Procs, CloseDone(p) PROVE HalterInv'
  BY Zenon
<1>. DEFINE T == Top(p)
<1>1. /\ stack[p] # <<>> /\ T \in Frame /\ T = stack[p][1] /\ T.pc = "close"
      /\ TypeOK /\ StackInv /\ Local(p, T) /\ Position(stack[p], 1)
  BY TopFrame, Zenon DEF HalterInv, StackInv, StackOK, CloseDone, Running, Top
<1>2. T.h \in Halters /\ T.d \in Halters /\ T.todo \subseteq Halters
  BY <1>1, Zenon DEF Frame
<1>3. done' \in [Halters -> BOOLEAN] /\ \A h \in Halters : done[h] => done'[h]
  BY <1>1, <1>2, Zenon DEF CloseDone, TypeOK
<1>4. /\ Return(p) /\ UNCHANGED <<stopped, down, up, mut, called, cancelled>>
  BY Zenon DEF CloseDone
<1>. HIDE DEF T
<1>5. Grow
  BY <1>3, <1>4, Zenon DEF Grow
<1>6. \A q \in Procs : \A i \in 1..Len(stack[q]) : Quiet(stack[q][i])
  BY <1>4, QuietSame, Zenon
<1>7. stack' \in [Procs -> Seq(Frame)] /\ StackInv'
  <2>1. ~Telling(T)
    BY <1>1, Zenon DEF Telling
  <2>. QED
    BY <1>1, <1>4, <1>5, <1>6, <2>1, ReturnStep, Zenon DEF T
<1>8. TypeOK'
  BY <1>1, <1>3, <1>4, <1>7, Zenon DEF TypeOK
<1>. QED
  BY <1>7, <1>8, Zenon DEF HalterInv

\* AddDownstream adds to the map of the Halter.
LEMMA LinkStep == HalterInv /\ (\E p \in Procs : Link(p)) => HalterInv'
<1>. SUFFICES ASSUME HalterInv, NEW p \in Procs, Link(p) PROVE HalterInv'
  BY Zenon
<1>. DEFINE T == Top(p)
<1>1. /\ stack[p] # <<>> /\ T \in Frame /\ T = stack[p][1] /\ T.pc = "link"
      /\ TypeOK /\ StackInv /\ Local(p, T) /\ Position(stack[p], 1)
  BY TopFrame, Zenon DEF HalterInv, StackInv, StackOK, Link, Running, Top
<1>2. T.h \in Halters /\ T.d \in Halters /\ T.todo \subseteq Halters
  BY <1>1, Zenon DEF Frame
<1>3. /\ down' \in [Halters -> SUBSET Halters] /\ mut[T.h] = Free
      /\ \A h \in Halters : h # T.h => down'[h] = down[h]
      /\ \A d \in down'[T.h] : d \in down[T.h] \/ d = T.d
  BY <1>1, <1>2 DEF Link, TypeOK
<1>4. /\ Return(p) /\ UNCHANGED <<stopped, done, up, mut, called, cancelled>>
  BY Zenon DEF Link
<1>. HIDE DEF T
<1>5. Grow
  BY <1>3, <1>4, Zenon DEF Grow
<1>6. \A q \in Procs : \A i \in 1..Len(stack[q]) : Quiet(stack[q][i])
  BY <1>2, <1>3, <1>4, QuietFree, Zenon
<1>7. stack' \in [Procs -> Seq(Frame)] /\ StackInv'
  <2>1. ~Telling(T)
    BY <1>1, Zenon DEF Telling
  <2>. QED
    BY <1>1, <1>4, <1>5, <1>6, <2>1, ReturnStep, Zenon DEF T
<1>8. TypeOK'
  <2>1. \A h, d \in Halters : d \in down'[h] \/ h \in up'[d] => <<h, d>> \in Edges
    BY <1>1, <1>3, <1>4, Zenon DEF TypeOK, Local
  <2>. QED
    BY <1>1, <1>3, <1>4, <1>7, <2>1, Zenon DEF TypeOK
<1>. QED
  BY <1>7, <1>8, Zenon DEF HalterInv

\* RemoveDownstream takes from it.
LEMMA UnlinkStep == HalterInv /\ (\E p \in Procs : Unlink(p)) => HalterInv'
<1>. SUFFICES ASSUME HalterInv, NEW p \in Procs, Unlink(p) PROVE HalterInv'
  BY Zenon
<1>. DEFINE T == Top(p)
<1>1. /\ stack[p] # <<>> /\ T \in Frame /\ T = stack[p][1] /\ T.pc = "unlink"
      /\ TypeOK /\ StackInv /\ Local(p, T) /\ Position(stack[p], 1)
  BY TopFrame, Zenon DEF HalterInv, StackInv, StackOK, Unlink, Running, Top
<1>2. T.h \in Halters /\ T.d \in Halters /\ T.todo \subseteq Halters
  BY <1>1, Zenon DEF Frame
<1>3. /\ down' \in [Halters -> SUBSET Halters] /\ mut[T.h] = Free
      /\ \A h \in Halters : h # T.h => down'[h] = down[h]
      /\ \A h \in Halters : down'[h] \subseteq down[h]
  BY <1>1, <1>2, Zenon DEF Unlink, TypeOK
<1>4. /\ Return(p) /\ UNCHANGED <<stopped, done, up, mut, called, cancelled>>
  BY Zenon DEF Unlink
<1>. HIDE DEF T
<1>5. Grow
  BY <1>3, <1>4, Zenon DEF Grow
<1>6. \A q \in Procs : \A i \in 1..Len(stack[q]) : Quiet(stack[q][i])
  BY <1>2, <1>3, <1>4, QuietFree, Zenon
<1>7. stack' \in [Procs -> Seq(Frame)] /\ StackInv'
  <2>1. ~Telling(T)
    BY <1>1, Zenon DEF Telling
  <2>. QED
    BY <1>1, <1>4, <1>5, <1>6, <2>1, ReturnStep, Zenon DEF T
<1>8. TypeOK'
  BY <1>1, <1>3, <1>4, <1>7, Zenon DEF TypeOK
<1>. QED
  BY <1>7, <1>8, Zenon DEF HalterInv

\* AddDownstream adds to the map of the other Halter.
LEMMA addUpstreamStep == HalterInv /\ (\E p \in Procs : addUpstream(p)) => HalterInv'
<1>. SUFFICES ASSUME HalterInv, NEW p \in Procs, addUpstream(p) PROVE HalterInv'
  BY Zenon
<1>. DEFINE T == Top(p)
<1>1. /\ stack[p] # <<>> /\ T \in Frame /\ T = stack[p][1] /\ T.pc = "linkUp"
      /\ TypeOK /\ StackInv /\ Local(p, T) /\ Position(stack[p], 1)
  BY TopFrame, Zenon DEF HalterInv, StackInv, StackOK, addUpstream, Running, Top
<1>2. T.h \in Halters /\ T.d \in Halters /\ T.todo \subseteq Halters
  BY <1>1, Zenon DEF Frame
<1>3. /\ up' \in [Halters -> SUBSET Halters]
      /\ \A d \in Halters : \A h \in up'[d] : h \in up[d] \/ (h = T.h /\ d = T.d)
  <2>1. up \in [Halters -> SUBSET Halters] /\ up' = [up EXCEPT ![T.d] = @ \cup {T.h}]
    BY <1>1, Zenon DEF addUpstream, TypeOK
  <2>2. up'[T.d] = up[T.d] \cup {T.h} /\ \A d \in Halters : d # T.d => up'[d] = up[d]
    BY <1>2, <2>1, SMT
  <2>3. up' \in [Halters -> SUBSET Halters]
    BY <1>2, <2>1, Zenon
  <2>4. ASSUME NEW d \in Halters, NEW h \in up'[d]
        PROVE  h \in up[d] \/ (h = T.h /\ d = T.d)
    <3>1. CASE d = T.d
      <4>1. h \in up[T.d] \cup {T.h}
        BY <2>2, <2>4, <3>1, Zenon
      <4>. QED
        BY <3>1, <4>1, Zenon
    <3>2. CASE d # T.d
      <4>1. up'[d] = up[d]
        BY <2>2, <2>4, <3>2
      <4>2. h \in up'[d]
        BY <2>4
      <4>. QED
        BY <4>1, <4>2
    <3>. QED
      BY <3>1, <3>2, Zenon
  <2>. QED
    BY <2>3, <2>4, Zenon
<1>4. /\ Return(p) /\ UNCHANGED <<stopped, done, down, mut, called, cancelled>>
  BY Zenon DEF addUpstream
<1>. HIDE DEF T
<1>5. Grow
  BY <1>3, <1>4, Zenon DEF Grow
<1>6. \A q \in Procs : \A i \in 1..Len(stack[q]) : Quiet(stack[q][i])
  BY <1>4, QuietSame, Zenon
<1>7. stack' \in [Procs -> Seq(Frame)] /\ StackInv'
  <2>1. ~Telling(T)
    BY <1>1, Zenon DEF Telling
  <2>. QED
    BY <1>1, <1>4, <1>5, <1>6, <2>1, ReturnStep, Zenon DEF T
<1>8. TypeOK'
  <2>1. \A h, d \in Halters : d \in down'[h] \/ h \in up'[d] => <<h, d>> \in Edges
    BY <1>1, <1>3, <1>4, Zenon DEF TypeOK, Local
  <2>. QED
    BY <1>1, <1>3, <1>4, <1>7, <2>1, Zenon DEF TypeOK
<1>. QED
  BY <1>7, <1>8, Zenon DEF HalterInv

\* RemoveDownstream takes from it.
LEMMA removeUpstreamStep == HalterInv /\ (\E p \in Procs : removeUpstream(p)) => HalterInv'
<1>. SUFFICES ASSUME HalterInv, NEW p \in Procs, removeUpstream(p) PROVE HalterInv'
  BY Zenon
<1>. DEFINE T == Top(p)
<1>1. /\ stack[p] # <<>> /\ T \in Frame /\ T = stack[p][1] /\ T.pc = "unlinkUp"
      /\ TypeOK /\ StackInv /\ Local(p, T) /\ Position(stack[p], 1)
  BY TopFrame, Zenon DEF HalterInv, StackInv, StackOK, removeUpstream, Running, Top
<1>2. T.h \in Halters /\ T.d \in Halters /\ T.todo \subseteq Halters
  BY <1>1, Zenon DEF Frame
<1>3. up' \in [Halters -> SUBSET Halters] /\ \A d \in Halters : up'[d] \subseteq up[d]
  BY <1>1, <1>2, Zenon DEF removeUpstream, TypeOK
<1>4. /\ Return(p) /\ UNCHANGED <<stopped, done, down, mut, called, cancelled>>
  BY Zenon DEF removeUpstream
<1>. HIDE DEF T
<1>5. Grow
  BY <1>3, <1>4, Zenon DEF Grow
<1>6. \A q \in Procs : \A i \in 1..Len(stack[q]) : Quiet(stack[q][i])
  BY <1>4, QuietSame, Zenon
<1>7. stack' \in [Procs -> Seq(Frame)] /\ StackInv'
  <2>1. ~Telling(T)
    BY <1>1, Zenon DEF Telling
  <2>. QED
    BY <1>1, <1>4, <1>5, <1>6, <2>1, ReturnStep, Zenon DEF T
<1>8. TypeOK'
  BY <1>1, <1>3, <1>4, <1>7, Zenon DEF TypeOK
<1>. QED
  BY <1>7, <1>8, Zenon DEF HalterInv

\* RequestStop calls itself on the next Halter of its map.
LEMMA TellDownstreamStep == HalterInv /\ (\E p \in Procs : TellDownstream(p)) => HalterInv'
<1>. SUFFICES ASSUME HalterInv, NEW p \in Procs, TellDownstream(p) PROVE HalterInv'
  BY Zenon
<1>. DEFINE T == Top(p)
<1>1. /\ stack[p] # <<>> /\ T \in Frame /\ T = stack[p][1] /\ T.pc = "tell"
      /\ TypeOK /\ StackInv /\ Local(p, T) /\ Position(stack[p], 1)
  BY TopFrame, Zenon DEF HalterInv, StackInv, StackOK, TellDownstream, Running, Top
<1>2. T.h \in Halters /\ T.d \in Halters /\ T.todo \subseteq Halters
  BY <1>1, Zenon DEF Frame
<1>3. PICK d \in T.todo : Push(p, [T EXCEPT !.todo = @ \ {d}], At("stop", d))
  BY Zenon DEF TellDownstream
<1>. DEFINE g == [T EXCEPT !.todo = @ \ {d}]
            c == At("stop", d)
            r == <<c, g>> \o Tail(stack[p])
<1>4. /\ g \in Frame /\ g.pc = "tell" /\ g.h = T.h /\ g.todo = T.todo \ {d}
      /\ c \in Frame /\ c.pc = "stop" /\ c.h = d
  <2>1. d \in Halters /\ T.todo \ {d} \in SUBSET Halters /\ "stop" \in Points
    BY <1>2, Zenon DEF Points
  <2>2. c \in Frame /\ c.pc = "stop" /\ c.h = d
    BY <2>1, Zenon DEF Frame, At
  <2>. QED
    BY <1>1, <2>1, <2>2, Zenon DEF Frame
<1>5. UNCHANGED <<stopped, done, down, up, mut, called, cancelled>>
  BY <1>3, Zenon DEF TellDownstream, haltVars
<1>6. stack' = [stack EXCEPT ![p] = r]
  BY <1>3, Zenon DEF Push
<1>. HIDE DEF g, c, T
<1>7. stack[p] \in Seq(Frame)
  BY <1>1, Zenon DEF TypeOK
<1>8. r \in Seq(Frame)
  BY <1>1, <1>4, <1>7, PushStack, Zenon
<1>9. stack'[p] = r
  BY <1>1, <1>6, Zenon DEF TypeOK
<1>10. StackOK(p)'
  BY <1>1, <1>4, <1>5, <1>9, PushKept, Zenon DEF StackInv, T
<1>11. Grow
  BY <1>5, Zenon DEF Grow
<1>12. \A q \in Procs : \A i \in 1..Len(stack[q]) : Quiet(stack[q][i])
  BY <1>5, QuietSame, Zenon
<1>13. stack' \in [Procs -> Seq(Frame)] /\ StackInv'
  BY <1>6, <1>8, <1>10, <1>11, <1>12, StackStep, Zenon
<1>14. TypeOK'
  BY <1>1, <1>5, <1>13, Zenon DEF TypeOK
<1>. QED
  BY <1>13, <1>14, Zenon DEF HalterInv

\* A goroutine makes its call.
LEMMA CallStep ==
    ASSUME HalterInv, NEW p \in Procs, NEW frames \in Seq(Frame), Call(p, frames),
           \A i \in 1..Len(frames) :
               /\ ~Holding(frames[i]) /\ frames[i].pc # "tellLock"
               /\ frames[i].pc \in {"link", "linkUp"} =>
                     <<frames[i].h, frames[i].d>> \in Edges
    PROVE  HalterInv'
<1>1. UNCHANGED <<stopped, done, down, up, mut, cancelled>>
  BY Zenon DEF Call, haltVars
<1>2. stack' = [stack EXCEPT ![p] = frames] /\ called' = called \cup {p}
  BY Zenon DEF Call
<1>3. stack'[p] = frames
  BY <1>2, Zenon DEF HalterInv, TypeOK
<1>4. StackOK(p)'
  BY <1>3, CallKept, Zenon
<1>5. Grow
  BY <1>1, Zenon DEF Grow
<1>6. \A q \in Procs : \A i \in 1..Len(stack[q]) : Quiet(stack[q][i])
  BY <1>1, QuietSame, Zenon
<1>7. stack' \in [Procs -> Seq(Frame)] /\ StackInv'
  BY <1>2, <1>4, <1>5, <1>6, StackStep, Zenon
<1>8. TypeOK'
  BY <1>1, <1>2, <1>7, Zenon DEF HalterInv, TypeOK
<1>. QED
  BY <1>7, <1>8, Zenon DEF HalterInv

\* RequestStop, MarkDone and MarkDoneNoBlock, AddDownstream and RemoveDownstream.
LEMMA CallsStep == HalterInv /\ (\E p \in Procs : Calls(p)) => HalterInv'
<1>. SUFFICES ASSUME HalterInv, NEW p \in Procs, Calls(p) PROVE HalterInv'
  BY Zenon
<1>1. \A h \in Halters : /\ At("stop", h) \in Frame /\ At("stop", h).pc = "stop"
                         /\ At("waitLock", h) \in Frame /\ At("waitLock", h).pc = "waitLock"
                         /\ At("close", h) \in Frame /\ At("close", h).pc = "close"
  BY Zenon DEF At, Frame, Points
<1>2. ASSUME NEW h \in Halters, RequestStop(p, h) PROVE HalterInv'
  <2>. DEFINE s == <<At("stop", h)>>
  <2>1. s \in Seq(Frame) /\ \A i \in 1..Len(s) : s[i].pc = "stop"
    BY <1>1
  <2>. QED
    BY <1>2, <2>1, CallStep, Zenon DEF RequestStop, Holding
<1>3. ASSUME NEW h \in Halters, MarkDone(p, h) PROVE HalterInv'
  <2>. DEFINE s == <<At("stop", h), At("waitLock", h), At("close", h)>>
  <2>1. s \in Seq(Frame) /\ \A i \in 1..Len(s) : s[i].pc \in {"stop", "waitLock", "close"}
    BY <1>1
  <2>. QED
    BY <1>3, <2>1, CallStep, Zenon DEF MarkDone, Holding
<1>4. ASSUME NEW h \in Halters, MarkDoneNoBlock(p, h) PROVE HalterInv'
  <2>. DEFINE s == <<At("stop", h), At("close", h)>>
  <2>1. s \in Seq(Frame) /\ \A i \in 1..Len(s) : s[i].pc \in {"stop", "close"}
    BY <1>1
  <2>. QED
    BY <1>4, <2>1, CallStep, Zenon DEF MarkDoneNoBlock, Holding
<1>5. ASSUME NEW h \in Halters, NEW d \in Halters, AddDownstream(p, h, d) PROVE HalterInv'
  <2>. DEFINE s == <<OnLink("link", h, d), OnLink("linkUp", h, d)>>
  <2>1. s \in Seq(Frame)
    BY DEF OnLink, Frame, Points
  <2>2. \A i \in 1..Len(s) : s[i].pc \in {"link", "linkUp"} /\ s[i].h = h /\ s[i].d = d
    BY DEF OnLink
  <2>3. <<h, d>> \in Edges /\ Call(p, s)
    BY <1>5, Zenon DEF AddDownstream, Edges
  <2>. HIDE DEF s
  <2>. QED
    BY <2>1, <2>2, <2>3, CallStep, Zenon DEF Holding
<1>6. ASSUME NEW h \in Halters, NEW d \in Halters, RemoveDownstream(p, h, d) PROVE HalterInv'
  <2>. DEFINE s == <<OnLink("unlink", h, d), OnLink("unlinkUp", h, d)>>
  <2>1. s \in Seq(Frame)
    BY DEF OnLink, Frame, Points
  <2>2. \A i \in 1..Len(s) : s[i].pc \in {"unlink", "unlinkUp"}
    BY DEF OnLink
  <2>3. Call(p, s)
    BY <1>6, Zenon DEF RemoveDownstream
  <2>. HIDE DEF s
  <2>. QED
    BY <2>1, <2>2, <2>3, CallStep, Zenon DEF Holding
<1>. QED
  BY <1>2, <1>3, <1>4, <1>5, <1>6, Zenon DEF Calls

\* MAD closes the channels of a Halter without its mutex.
LEMMA MADStep ==
    ASSUME HalterInv, NEW h \in Contexts,
           CancelContext(h) \/ MADHalted(h) \/ MADCancelled(h)
    PROVE  HalterInv'
<1>0. h \in Halters
  BY LinksAssumption, Zenon
<1>1. UNCHANGED <<down, up, mut, stack, called>>
  BY Zenon DEF CancelContext, MADHalted, MADCancelled, haltVars
<1>2. /\ stopped' \in [Halters -> BOOLEAN] /\ done' \in [Halters -> BOOLEAN]
      /\ \A x \in Halters : (stopped[x] => stopped'[x]) /\ (done[x] => done'[x])
  BY <1>0, Zenon DEF CancelContext, MADHalted, MADCancelled, haltVars, HalterInv, TypeOK
<1>3. cancelled' \in [Contexts -> BOOLEAN]
  BY Zenon DEF CancelContext, MADHalted, MADCancelled, HalterInv, TypeOK
<1>4. TypeOK'
  BY <1>1, <1>2, <1>3, Zenon DEF HalterInv, TypeOK
<1>5. Grow
  BY <1>2, Zenon DEF Grow
<1>6. \A q \in Procs : \A i \in 1..Len(stack[q]) : Quiet(stack[q][i])
  BY <1>1, QuietSame, Zenon
<1>7. ASSUME NEW q \in Procs PROVE StackOK(q)'
  BY <1>1, <1>5, <1>6, OthersKept, Zenon DEF HalterInv, StackInv
<1>. QED
  BY <1>4, <1>7, Zenon DEF HalterInv, StackInv

\* Nobody has called anything yet.
LEMMA HalterInit == Init => HalterInv
<1>. SUFFICES ASSUME Init PROVE HalterInv
  BY Zenon
<1>1. /\ stopped \in [Halters -> BOOLEAN] /\ done \in [Halters -> BOOLEAN]
      /\ mut \in [Halters -> Procs \cup {Free}] /\ called \subseteq Procs
      /\ cancelled \in [Contexts -> BOOLEAN]
  BY Zenon DEF Init
<1>2. down \in [Halters -> SUBSET Halters] /\ up \in [Halters -> SUBSET Halters]
  BY Zenon DEF Init
<1>3. \A h, d \in Halters : d \in down[h] \/ h \in up[d] => <<h, d>> \in Edges
  BY Zenon DEF Init, Edges
<1>4. stack \in [Procs -> Seq(Frame)] /\ \A p \in Procs : stack[p] = <<>>
  BY DEF Init
<1>5. \A p \in Procs : 1..Len(stack[p]) = {}
  BY <1>4
<1>6. StackInv
  BY <1>5, Zenon DEF StackInv, StackOK
<1>. QED
  BY <1>1, <1>2, <1>3, <1>4, <1>6, Zenon DEF HalterInv, TypeOK

\* The inductive invariant.
LEMMA HalterAlways == Spec => []HalterInv
<1>1. HalterInv /\ [Next]_vars => HalterInv'
  <2>. SUFFICES ASSUME HalterInv, [Next]_vars PROVE HalterInv'
    BY Zenon
  <2>1. CASE UNCHANGED vars
    <3>1. UNCHANGED <<stopped, done, down, up, mut, stack, called, cancelled>>
      BY <2>1, Zenon DEF vars, haltVars
    <3>2. TypeOK'
      BY <3>1, Zenon DEF HalterInv, TypeOK
    <3>3. Grow
      BY <3>1, Zenon DEF Grow
    <3>4. \A q \in Procs : \A i \in 1..Len(stack[q]) : Quiet(stack[q][i])
      BY <3>1, QuietSame, Zenon
    <3>5. ASSUME NEW q \in Procs PROVE StackOK(q)'
      BY <3>1, <3>3, <3>4, OthersKept, Zenon DEF HalterInv, StackInv
    <3>. QED
      BY <3>2, <3>5, Zenon DEF HalterInv, StackInv
  <2>2. CASE \E p \in Procs : Step(p)
    BY <2>2, CloseReqStopStep, LockTellStep, TellDownstreamStep, UnlockStep, LockWaitStep,
       NextDownstreamStep, DownstreamDoneStep, CloseDoneStep, LinkStep, addUpstreamStep,
       UnlinkStep, removeUpstreamStep, Zenon DEF Step
  <2>3. CASE \E p \in Procs : Calls(p)
    BY <2>3, CallsStep, Zenon
  <2>4. CASE \E h \in Contexts : CancelContext(h) \/ MADHalted(h) \/ MADCancelled(h)
    BY <2>4, MADStep, Zenon
  <2>. QED
    BY <2>1, <2>2, <2>3, <2>4, Zenon DEF Next
<1>. QED
  BY <1>1, HalterInit, PTL DEF Spec

\* RequestStop and MarkDone miss nobody downstream, at any level, although AddDownstream and
\* RemoveDownstream change the links meanwhile and contexts close the channels of any Halter;
\* and the maps hold only what was linked.
THEOREM VisitsAreComplete == Spec => []VisitsComplete
<1>1. HalterInv => VisitsComplete
  <2>. SUFFICES ASSUME HalterInv PROVE VisitsComplete
    BY Zenon
  <2>1. WaitComplete
    <3>. SUFFICES ASSUME NEW p \in Procs, NEW i \in 1..Len(stack[p]),
                         stack[p][i].pc = "wait"
                  PROVE  \A d \in down[stack[p][i].h] \ stack[p][i].todo : done[d]
      BY Zenon DEF WaitComplete, Frames
    <3>1. Local(p, stack[p][i])
      BY Zenon DEF HalterInv, StackInv, StackOK
    <3>. QED
      BY <3>1, Zenon DEF Local
  <2>2. ToldComplete
    <3>. SUFFICES ASSUME NEW p \in Procs, NEW i \in 1..Len(stack[p]),
                         stack[p][i].pc = "tell",
                         NEW d \in down[stack[p][i].h] \ stack[p][i].todo
                  PROVE  stopped[d] \/ \E j \in 1..(i - 1) : stack[p][j].h = d
      BY Zenon DEF ToldComplete
    <3>1. Position(stack[p], i)
      BY Zenon DEF HalterInv, StackInv, StackOK
    <3>. QED
      BY <3>1, Zenon DEF Position
  <2>. QED
    BY <2>1, <2>2, Zenon DEF HalterInv, VisitsComplete
<1>. QED
  BY <1>1, HalterAlways, PTL
=============================================================================
