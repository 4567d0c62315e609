----------------------------- MODULE Programs_proofs -----------------------------
(***************************************************************************)
(* The safety properties of the programs of MCPrograms, for any number of   *)
(* chunks, lines, items, signals, producers, consumers, processes, clients  *)
(* and threads and any image.  Each program has an inductive invariant of   *)
(* its own; which variable of it v1, v2, ... is, the instances in           *)
(* MCPrograms say, and of those that are looked at here:                    *)
(*                                                                          *)
(*                v1       v2        v3       v4       v5           v6      *)
(*   ChatPosix    CLIENT_QUEUES  server  work  server_queue  queue  exists  *)
(*   Pipeline     file     buffered  offset   runs     interpreter  part    *)
(*   Confirmed    signals_count  at  masked   pending  sent      received   *)
(*   Burst        mode  signals_count  sender  unsent  pending   received   *)
(*   Fifo         text     producer  written  fifo     consumer     got     *)
(*   Integral     no_processes  parent  i     child    reaped     directory *)
(*   FileSearch   max_depth  terminal  unreadable  process  remaining  next *)
(*                                                                          *)
(*                v7       v8        v9          v10         v11            *)
(*   ChatPosix    id       parent    child       out         typed          *)
(*   Pipeline     process  held      taken       pipe                       *)
(*   Confirmed    early                                                     *)
(*   Burst        catcher  blocked   mode_set    unanswered  exit_code      *)
(*   Fifo         copy     results   disturbed                              *)
(*   Integral     files    added                                            *)
(*   FileSearch   pids     reaped    buffer      output                     *)
(*                                                                          *)
(* ImageNegative has its own variables.                                     *)
(***************************************************************************)
EXTENDS MCPrograms, CommonLemmas, TLAPS

-------------------------------------------------------------------------------
(* Lab 8: the negative of an image, for every image, number of threads and both methods *)

(* An inductive form of SavedIsNegative: a pixel is painted exactly when its thread has     *)
(* passed it, and a thread that main has waited for has passed all of its own.              *)
Progress ==
  /\ \A t \in Threads : left[t] \subseteq Mine(t)
  /\ \A p \in Cells : result_image[p] =
       IF \E t \in Threads : p \in Mine(t) \ left[t] THEN Negative(p) ELSE 0
  /\ \A t \in Threads : t < joined => left[t] = {}
  /\ main = "saved" => joined = no_threads

IInv == TypeOK /\ Progress

-------------------------------------------------------------------------------
(* Arithmetic *)

LEMMA Division ==
  ASSUME NEW a \in Nat, NEW n \in Nat \ {0}
  PROVE  /\ a \div n \in Nat
         /\ n * (a \div n) <= a
         /\ a < n * (a \div n) + n
  OBVIOUS

LEMMA Times ==
  ASSUME NEW a \in Nat, NEW b \in Nat, NEW c \in Nat
  PROVE  /\ c * a \in Nat /\ a * c = c * a
         /\ c * (a + 1) = c * a + c
         /\ a <= b => c * a <= c * b
         /\ c * a < c * b => a < b
  OBVIOUS

(* Intervals of one width that start at its multiples do not meet. *)
LEMMA Intervals ==
  ASSUME NEW w \in Nat, NEW t \in Nat, NEW u \in Nat, NEW x \in Nat,
         w * t <= x, x < w * (t + 1), w * u <= x, x < w * (u + 1)
  PROVE  t = u
<1>1. w * t < w * (u + 1) /\ w * u < w * (t + 1)
  BY Times
<1>2. t < u + 1 /\ u < t + 1
  BY <1>1, Times, t + 1 \in Nat, u + 1 \in Nat
<1> QED  BY <1>2

(* They cover what is below the sum of their widths. *)
LEMMA Cover ==
  ASSUME NEW w \in Nat, NEW n \in Nat, NEW x \in Nat, x < w * n
  PROVE  \E t \in 0 .. n - 1 : w * t <= x /\ x < w * (t + 1)
<1>1. w # 0
  BY 0 * n = 0
<1> DEFINE t == x \div w
<1>2. t \in Nat /\ w * t <= x /\ x < w * t + w
  BY <1>1, Division
<1>3. w * (t + 1) = w * t + w /\ w * t < w * n
  BY <1>2, Times
<1>4. t < n
  BY <1>2, <1>3, Times
<1> QED  BY <1>2, <1>3, <1>4, SMTT(30)

(* The next pixel of a thread is one of those it has left: a set of pixels has a first one. *)
LEMMA FirstIsIn ==
  ASSUME NEW S \in SUBSET Cells, S # {}
  PROVE  First(S) \in S
<1> DEFINE R == OpToRel(<, Nat)
           Rows == {p[1] : p \in S}
<1>1. \A p \in S : p[1] \in Nat /\ p[2] \in Nat /\ p = <<p[1], p[2]>>
  BY DEF Cells
<1>2. PICK i \in Rows : \A k \in Rows : ~(<<k, i>> \in R)
  <2>1. Rows \subseteq Nat /\ Rows # {}
    BY <1>1
  <2> QED  BY <2>1, NatLessThanWellFounded, WFMin
<1> DEFINE Columns == {p[2] : p \in {q \in S : q[1] = i}}
<1>3. PICK j \in Columns : \A k \in Columns : ~(<<k, j>> \in R)
  <2>1. Columns \subseteq Nat /\ Columns # {}
    BY <1>1
  <2> QED  BY <2>1, NatLessThanWellFounded, WFMin
<1>4. PICK p \in S : p[1] = i /\ p[2] = j
  OBVIOUS
<1>5. \A q \in S \ {p} : Earlier(p, q)
  <2> SUFFICES ASSUME NEW q \in S \ {p} PROVE Earlier(p, q)
    OBVIOUS
  <2>1. q[1] \in Rows /\ (q[1] = i => q[2] \in Columns)
    OBVIOUS
  <2>2. ~(q[1] < i) /\ (q[1] = i => ~(q[2] < j))
    BY <1>1, <1>2, <1>3, <1>4, <2>1 DEF OpToRel
  <2>3. ~(q[1] = i /\ q[2] = j)
    BY <1>1, <1>4
  <2> QED  BY <1>1, <1>4, <2>2, <2>3 DEF Earlier
<1> QED  BY <1>5 DEF First

-------------------------------------------------------------------------------
(* The shares of the threads *)

LEMMA InputTypes ==
  ASSUME no_threads \in 1 .. MaxThreads, source_image \in Images
  PROVE  /\ no_threads \in Nat \ {0} /\ Threads \subseteq Nat /\ None \in Int
         /\ strip \in Nat /\ (M + 1) \div no_threads \in Nat
         /\ \A p \in Cells : /\ source_image[p] \in Nat /\ source_image[p] <= MAX_POSSIBLE_COLOR
                             /\ p[2] \in Nat /\ p[2] < W
                             /\ Negative(p) \in 0 .. MAX_POSSIBLE_COLOR
<1>1. no_threads \in Nat \ {0} /\ Threads \subseteq Nat /\ None \in Int
  BY Colours DEF Threads, None
<1>2. strip \in Nat /\ (M + 1) \div no_threads \in Nat
  BY <1>1, Size, Division, W + no_threads - 1 \in Nat, M + 1 \in Nat DEF strip
<1>3. ASSUME NEW p \in Cells
      PROVE  /\ source_image[p] \in Nat /\ source_image[p] <= MAX_POSSIBLE_COLOR
             /\ p[2] \in Nat /\ p[2] < W /\ Negative(p) \in 0 .. MAX_POSSIBLE_COLOR
  <2>1. source_image[p] \in 0 .. MAX_POSSIBLE_COLOR
    BY Colours
  <2>2. p[2] \in 0 .. W - 1
    BY DEF Cells
  <2> QED  BY <2>1, <2>2, Colours, Size DEF Negative
<1> QED  BY <1>1, <1>2, <1>3

LEMMA NumbersShare ==
  ASSUME no_threads \in 1 .. MaxThreads, source_image \in Images, NEW p \in Cells,
         NEW t \in Threads
  PROVE  p \in numbers_method(t) <=>
           /\ ((M + 1) \div no_threads) * t <= source_image[p]
           /\ source_image[p] < ((M + 1) \div no_threads) * (t + 1)
<1> DEFINE q == (M + 1) \div no_threads
<1>1. q \in Nat /\ t \in Nat /\ no_threads \in Nat \ {0} /\ t + 1 <= no_threads
  BY InputTypes DEF Threads
<1>2. q * (t + 1) <= q * no_threads /\ q * (t + 1) \in Nat
  BY <1>1, Times, t + 1 \in Nat
<1>3. q * no_threads <= M + 1
  BY <1>1, Size, Division, Times, M + 1 \in Nat
<1>4. max_color(t) = q * (t + 1)
  BY <1>1, <1>2, <1>3, Size, q * no_threads \in Nat DEF max_color, AtMost
<1> QED  BY <1>4 DEF numbers_method, min_color

LEMMA BlockShare ==
  ASSUME no_threads \in 1 .. MaxThreads, source_image \in Images, NEW p \in Cells,
         NEW t \in Threads
  PROVE  p \in block_method(t) <=> strip * t <= p[2] /\ p[2] < strip * (t + 1)
<1>1. strip \in Nat /\ t \in Nat /\ p[2] \in Nat /\ p[2] < W
  BY InputTypes
<1>2. strip * (t + 1) \in Nat
  BY <1>1, Times, t + 1 \in Nat
<1> QED  BY <1>1, <1>2, Size DEF block_method, min_col_idx, max_col_idx, AtMost

(* The strips are wide enough: strip is W / no_threads rounded up. *)
LEMMA StripsReach ==
  ASSUME no_threads \in 1 .. MaxThreads, source_image \in Images
  PROVE  W <= strip * no_threads
<1>1. no_threads \in Nat \ {0} /\ strip \in Nat
  BY InputTypes
<1>2. W + no_threads - 1 < no_threads * strip + no_threads
  BY <1>1, Size, Division, W + no_threads - 1 \in Nat DEF strip
<1> QED  BY <1>1, <1>2, Size, Times

(* No pixel belongs to two threads (numbers_method, block_method), so that no two of them   *)
(* write the same element of result_image.                                                   *)
THEOREM OneThreadPerPixel ==
  ASSUME TypeOK, NEW t \in Threads, NEW u \in Threads, t # u
  PROVE  Mine(t) \cap Mine(u) = {}
<1> SUFFICES ASSUME NEW p \in Mine(t), p \in Mine(u)
             PROVE  FALSE
  OBVIOUS
<1>1. /\ no_threads \in 1 .. MaxThreads /\ source_image \in Images
      /\ method \in {"numbers", "block"}
  BY DEF TypeOK
<1>2. p \in Cells
  BY <1>1 DEF Mine, numbers_method, block_method
<1>3. /\ t \in Nat /\ u \in Nat /\ strip \in Nat /\ (M + 1) \div no_threads \in Nat
      /\ source_image[p] \in Nat /\ p[2] \in Nat
  BY <1>1, <1>2, InputTypes
<1>4. CASE method = "numbers"
  <2>1. p \in numbers_method(t) /\ p \in numbers_method(u)
    BY <1>4 DEF Mine
  <2>2. /\ ((M + 1) \div no_threads) * t <= source_image[p]
        /\ source_image[p] < ((M + 1) \div no_threads) * (t + 1)
        /\ ((M + 1) \div no_threads) * u <= source_image[p]
        /\ source_image[p] < ((M + 1) \div no_threads) * (u + 1)
    BY <2>1, <1>1, <1>2, NumbersShare
  <2> QED  BY <2>2, <1>3, Intervals
<1>5. CASE method = "block"
  <2>1. p \in block_method(t) /\ p \in block_method(u)
    BY <1>5 DEF Mine
  <2>2. /\ strip * t <= p[2] /\ p[2] < strip * (t + 1)
        /\ strip * u <= p[2] /\ p[2] < strip * (u + 1)
    BY <2>1, <1>1, <1>2, BlockShare
  <2> QED  BY <2>2, <1>3, Intervals
<1> QED  BY <1>1, <1>4, <1>5

(* The pixels that belong to a thread are the covered ones. *)
LEMMA SharesCover ==
  ASSUME TypeOK, NEW p \in Cells
  PROVE  Covered(p) <=> \E t \in Threads : p \in Mine(t)
<1> DEFINE q == (M + 1) \div no_threads
<1>1. /\ no_threads \in 1 .. MaxThreads /\ source_image \in Images
      /\ method \in {"numbers", "block"}
  BY DEF TypeOK
<1>2. /\ no_threads \in Nat \ {0} /\ Threads \subseteq Nat /\ strip \in Nat /\ q \in Nat
      /\ source_image[p] \in Nat /\ p[2] \in Nat /\ p[2] < W
  BY <1>1, InputTypes
<1>3. CASE method = "numbers"
  <2>1. ASSUME source_image[p] < q * no_threads
        PROVE  \E t \in Threads : p \in Mine(t)
    <3>1. PICK t \in 0 .. no_threads - 1 :
            q * t <= source_image[p] /\ source_image[p] < q * (t + 1)
      BY <2>1, <1>2, Cover
    <3> QED  BY <3>1, <1>1, <1>3, NumbersShare DEF Mine, Threads
  <2>2. ASSUME NEW t \in Threads, p \in Mine(t)
        PROVE  source_image[p] < q * no_threads
    <3>1. source_image[p] < q * (t + 1)
      BY <2>2, <1>1, <1>3, NumbersShare DEF Mine
    <3>2. q * (t + 1) <= q * no_threads /\ q * (t + 1) \in Nat /\ q * no_threads \in Nat
      BY <1>2, Times, t + 1 \in Nat, t + 1 <= no_threads DEF Threads
    <3> QED  BY <3>1, <3>2, <1>2
  <2> QED  BY <2>1, <2>2, <1>3 DEF Covered
<1>4. CASE method = "block"
  <2>1. p[2] < strip * no_threads
    BY <1>1, <1>2, StripsReach, Size, Times
  <2>2. PICK t \in 0 .. no_threads - 1 : strip * t <= p[2] /\ p[2] < strip * (t + 1)
    BY <2>1, <1>2, Cover
  <2>3. p \in Mine(t) /\ t \in Threads
    BY <2>2, <1>1, <1>4, BlockShare DEF Mine, Threads
  <2> QED  BY <2>3, <1>4 DEF Covered
<1> QED  BY <1>1, <1>3, <1>4

-------------------------------------------------------------------------------
(* The invariant *)

LEMMA InputStays ==
  ASSUME input' = input
  PROVE  /\ Threads' = Threads /\ \A t \in Threads : Mine(t)' = Mine(t)
         /\ \A p \in Cells : Negative(p)' = Negative(p)
  BY DEF input, Threads, Mine, numbers_method, block_method, min_color, max_color, strip,
         min_col_idx, max_col_idx, Negative

LEMMA InitIInv == Init => IInv
<1> SUFFICES ASSUME Init PROVE IInv
  OBVIOUS
<1>1. /\ no_threads \in Nat \ {0} /\ Threads \subseteq Nat
      /\ no_threads \in 1 .. MaxThreads /\ source_image \in Images
  BY InputTypes DEF Init
<1>2. \A t \in Threads : Mine(t) \subseteq Cells
  BY DEF Mine, numbers_method, block_method
<1>3. TypeOK
  BY <1>1, <1>2, Colours DEF Init, TypeOK, None
<1>4. Progress
  BY <1>1 DEF Init, Progress, Threads
<1> QED  BY <1>3, <1>4 DEF IInv

LEMMA NextIInv == IInv /\ [Next]_vars => IInv'
<1> SUFFICES ASSUME IInv, [Next]_vars PROVE IInv'
  OBVIOUS
<1>1. TypeOK /\ Progress
  BY DEF IInv
<1>2. /\ no_threads \in Nat \ {0} /\ Threads \subseteq Nat
      /\ no_threads \in 1 .. MaxThreads /\ source_image \in Images
      /\ \A p \in Cells : Negative(p) \in 0 .. MAX_POSSIBLE_COLOR
  BY <1>1, InputTypes DEF TypeOK
<1>3. CASE Create
  <2>1. input' = input /\ no_threads' = no_threads
    BY <1>3 DEF Create, input
  <2>2. TypeOK'
    <3>1. created' \in 0 .. no_threads /\ joined' \in 0 .. created'
      BY <1>1, <1>2, <1>3 DEF TypeOK, Create
    <3> QED  BY <1>1, <1>3, <2>1, <3>1, InputStays DEF TypeOK, Create, input
  <2>3. Progress'
    BY <1>1, <1>3, <2>1, InputStays DEF Progress, Create
  <2> QED  BY <2>2, <2>3 DEF IInv
<1>4. CASE Created
  <2>1. input' = input /\ no_threads' = no_threads
    BY <1>4 DEF Created, input
  <2>2. TypeOK'
    BY <1>1, <1>4, <2>1, InputStays DEF TypeOK, Created, input
  <2>3. Progress'
    BY <1>1, <1>4, <2>1, InputStays DEF Progress, Created
  <2> QED  BY <2>2, <2>3 DEF IInv
<1>5. CASE Join
  <2>1. input' = input /\ no_threads' = no_threads
    BY <1>5 DEF Join, input
  <2>2. TypeOK'
    <3>1. joined' \in 0 .. created' /\ created' = created
      BY <1>1, <1>2, <1>5 DEF TypeOK, Join, Done
    <3> QED  BY <1>1, <1>5, <2>1, <3>1, InputStays DEF TypeOK, Join, input
  <2>3. \A t \in Threads : t < joined + 1 => left[t] = {}
    BY <1>1, <1>2, <1>5 DEF Progress, TypeOK, Join, Done
  <2>4. Progress'
    BY <1>1, <1>5, <2>1, <2>3, InputStays DEF Progress, Join
  <2> QED  BY <2>2, <2>4 DEF IInv
<1>6. CASE Save
  <2>1. input' = input /\ no_threads' = no_threads
    BY <1>6 DEF Save, input
  <2>2. TypeOK'
    BY <1>1, <1>6, <2>1, InputStays DEF TypeOK, Save, input
  <2>3. Progress'
    BY <1>1, <1>6, <2>1, InputStays DEF Progress, Save
  <2> QED  BY <2>2, <2>3 DEF IInv
<1>7. CASE Fail
  <2>1. input' = input /\ no_threads' = no_threads
    BY <1>7 DEF Fail, input
  <2>2. TypeOK'
    BY <1>1, <1>7, <2>1, InputStays DEF TypeOK, Fail, input
  <2>3. Progress'
    BY <1>1, <1>7, <2>1, InputStays DEF Progress, Fail
  <2> QED  BY <2>2, <2>3 DEF IInv
<1>8. ASSUME NEW t \in Threads, Write(t)
      PROVE  IInv'
  <2> DEFINE p == First(left[t])
  <2>1. input' = input /\ no_threads' = no_threads /\ main' = main /\ joined' = joined
    BY <1>8 DEF Write, input
  <2>2. p \in left[t]
    BY <1>1, <1>8, FirstIsIn DEF Write, TypeOK
  <2>3. p \in Mine(t) /\ p \in Cells
    BY <1>1, <2>2 DEF Progress, TypeOK
  <2>4. /\ result_image' = [result_image EXCEPT ![p] = Negative(p)]
        /\ left' = [left EXCEPT ![t] = @ \ {p}]
    BY <1>8 DEF Write
  <2>5. TypeOK'
    <3>1. result_image' \in [Cells -> 0 .. MAX_POSSIBLE_COLOR]
      BY <1>1, <1>2, <2>3, <2>4 DEF TypeOK
    <3>2. left' \in [Threads -> SUBSET Cells]
      BY <1>1, <2>4 DEF TypeOK
    <3>3. compared' \in [Threads -> 0 .. MAX_POSSIBLE_COLOR \cup {None}]
      BY <1>1, <1>2, <1>8, <2>3 DEF TypeOK, Write
    <3> QED  BY <1>1, <1>8, <2>1, <3>1, <3>2, <3>3, InputStays DEF TypeOK, Write, input
  <2>6. \A u \in Threads : left'[u] \subseteq Mine(u)
    BY <1>1, <2>4 DEF TypeOK, Progress
  <2>7. \A c \in Cells : result_image'[c] =
          IF \E u \in Threads : c \in Mine(u) \ left'[u] THEN Negative(c) ELSE 0
    <3> SUFFICES ASSUME NEW c \in Cells
                 PROVE  result_image'[c] =
                          IF \E u \in Threads : c \in Mine(u) \ left'[u] THEN Negative(c) ELSE 0
      OBVIOUS
    <3>1. CASE c = p
      <4>1. c \in Mine(t) \ left'[t]
        BY <1>1, <2>3, <2>4, <3>1 DEF TypeOK
      <4> QED  BY <1>1, <2>4, <3>1, <4>1 DEF TypeOK
    <3>2. CASE c # p
      <4>1. \A u \in Threads : c \in left'[u] <=> c \in left[u]
        BY <1>1, <2>4, <3>2 DEF TypeOK
      <4>2. result_image'[c] = result_image[c]
        BY <1>1, <2>4, <3>2 DEF TypeOK
      <4> QED  BY <1>1, <4>1, <4>2 DEF Progress
    <3> QED  BY <3>1, <3>2
  <2>8. \A u \in Threads : u < joined => left'[u] = {}
    BY <1>1, <2>2, <2>4 DEF TypeOK, Progress
  <2>9. Progress'
    BY <1>1, <2>1, <2>6, <2>7, <2>8, InputStays DEF Progress
  <2> QED  BY <2>5, <2>9 DEF IInv
<1>9. ASSUME NEW t \in Threads, Assign(t)
      PROVE  IInv'
  <2>1. input' = input /\ no_threads' = no_threads
    BY <1>9 DEF Assign, input
  <2>2. TypeOK'
    BY <1>1, <1>9, <2>1, InputStays DEF TypeOK, Assign, input
  <2>3. Progress'
    BY <1>1, <1>9, <2>1, InputStays DEF Progress, Assign
  <2> QED  BY <2>2, <2>3 DEF IInv
<1>10. CASE UNCHANGED vars
  <2>1. input' = input /\ no_threads' = no_threads
    BY <1>10 DEF vars, input
  <2>2. TypeOK'
    BY <1>1, <1>10, <2>1, InputStays DEF TypeOK, vars, input
  <2>3. Progress'
    BY <1>1, <1>10, <2>1, InputStays DEF Progress, vars
  <2> QED  BY <2>2, <2>3 DEF IInv
<1> QED  BY <1>3, <1>4, <1>5, <1>6, <1>7, <1>8, <1>9, <1>10 DEF Next

(* When the image is saved, every pixel of a thread has been passed. *)
LEMMA ImageIsNegative == ASSUME IInv PROVE SavedIsNegative
<1> SUFFICES ASSUME main = "saved", NEW p \in Cells, Covered(p)
             PROVE  result_image[p] = Negative(p)
  BY DEF SavedIsNegative
<1>1. TypeOK /\ Progress /\ no_threads \in Nat \ {0}
  BY InputTypes DEF IInv, TypeOK
<1>2. \A t \in Threads : left[t] = {}
  BY <1>1 DEF Progress, Threads
<1>3. result_image[p] = IF \E t \in Threads : p \in Mine(t) THEN Negative(p) ELSE 0
  BY <1>1, <1>2 DEF Progress
<1> QED  BY <1>1, <1>3, SharesCover

-------------------------------------------------------------------------------
(* Lab 5, zad1: lines of pipelines *)

LEMMA PipelineBegins == ASSUME Interpreter!Init PROVE Interpreter!IInv
<1> DEFINE file == v1  offset == v3  runs == v4
<1>1. NoLines \in Nat /\ NoDeclarations \in Nat /\ MaxRuns \in Nat
  BY Bounds
<1>2. runs = <<>> /\ Len(runs) = 0 /\ runs \in Seq(1 .. NoLines) /\ Interpreter!This = 0
  BY DEF Interpreter!Init, Interpreter!This
<1>3. /\ v5 = "next" /\ v2 = NoLines + 1 /\ offset = 1 - NoDeclarations
      /\ file \in [1 .. NoLines -> Pipelines]
      /\ v7 = Interpreter!All("none") /\ v8 = Interpreter!All(FALSE)
      /\ v9 = Interpreter!All(0) /\ v10 = Interpreter!All(0)
  BY DEF Interpreter!Init
<1>4. Interpreter!TypeOK
  <2>1. v2 \in 1 .. NoLines + 1 /\ offset \in 1 - NoDeclarations .. NoLines + 1
    BY <1>1, <1>3
  <2>2. v7 \in Interpreter!EachPart(Interpreter!States) /\ v8 \in Interpreter!EachPart(BOOLEAN)
        /\ v9 \in Interpreter!EachPart(Nat) /\ v10 \in Interpreter!EachPart(Nat)
    BY <1>3 DEF Interpreter!EachPart, Interpreter!States, Interpreter!All
  <2>3. Interpreter!This <= MaxRuns /\ v5 \in {"next", "fork", "wait", "done"} /\ v5 \notin {"fork", "wait"}
    BY <1>1, <1>2, <1>3
  <2> QED
    BY <1>2, <1>3, <2>1, <2>2, <2>3 DEF Interpreter!TypeOK
<1>5. Interpreter!FirstPass
  BY <1>1, <1>2, <1>3 DEF Interpreter!FirstPass
<1>6. Interpreter!Unforked
  BY <1>3 DEF Interpreter!Unforked, Interpreter!All
<1>7. Interpreter!Straight /\ Interpreter!MovedOnce
  BY <1>1, <1>2, <1>3 DEF Interpreter!Straight, Interpreter!MovedOnce
<1> QED
  BY <1>4, <1>5, <1>6, <1>7 DEF Interpreter!IInv

(* Programs and pipes have the types they should have after any change of one part. *)
LEMMA OnePart ==
  ASSUME NEW S, NEW f \in Interpreter!EachPart(S), NEW r \in Interpreter!Runs,
         NEW k \in 1 .. Interpreter!MaxParts, NEW x \in S
  PROVE  [f EXCEPT ![r][k] = x] \in Interpreter!EachPart(S)
BY DEF Interpreter!EachPart

LEMMA LinesRun ==
  ASSUME Interpreter!TypeOK
  PROVE  /\ v4 \in Seq(1 .. NoLines) /\ Len(v4) \in Nat /\ Interpreter!This = Len(v4)
         /\ \A r \in 1 .. Len(v4) : v4[r] \in 1 .. NoLines
         /\ v4 # <<>> <=> Len(v4) >= 1
         /\ \A r \in 1 .. Len(v4) : v1[v4[r]] \in Seq(STRING) /\ Len(v1[v4[r]]) \in 1 .. 3
<1>1. v4 \in Seq(1 .. NoLines) /\ v1 \in [1 .. NoLines -> Pipelines]
  BY DEF Interpreter!TypeOK
<1>2. \A r \in 1 .. Len(v4) : v4[r] \in 1 .. NoLines
  BY <1>1, SeqIsSeq
<1> QED
  BY <1>1, <1>2, ShortLines DEF Interpreter!This

(* What the invariant says of the lines that were run and of the offset stays while neither *)
(* changes and the program that is missing, if it is one, has been started or not as before. *)
LEMMA SameLines ==
  ASSUME Interpreter!FirstPass, Interpreter!Straight, Interpreter!MovedOnce,
         UNCHANGED <<v1, v2, v3, v4>>, v5' = "done" => v5 = "done",
         \A i \in 1 .. NoLines, j \in 1 .. Interpreter!MaxParts :
           i \in Interpreter!Runs /\ Interpreter!Missing(i, j) => Interpreter!Started(i, j)' = Interpreter!Started(i, j),
         Interpreter!This <= MaxRuns
  PROVE  Interpreter!FirstPass' /\ Interpreter!Straight' /\ Interpreter!MovedOnce'
<1>1. Interpreter!This' = Interpreter!This
  BY DEF Interpreter!This
<1>2. /\ \A n, k : Interpreter!Missing(n, k)' = Interpreter!Missing(n, k)
      /\ Interpreter!NoneMissing' = Interpreter!NoneMissing
      /\ \A i, j : Interpreter!OnlyMissing(i, j)' = Interpreter!OnlyMissing(i, j)
  BY DEF Interpreter!Missing, Interpreter!NoneMissing, Interpreter!OnlyMissing
<1>3. Interpreter!FirstPass'
  BY <1>1 DEF Interpreter!FirstPass
<1>4. Interpreter!Straight'
  BY <1>1, <1>2 DEF Interpreter!Straight
<1>5. Interpreter!MovedOnce'
  <2> SUFFICES ASSUME NEW i \in 1 .. NoLines, NEW j \in 1 .. Interpreter!MaxParts,
                      Interpreter!OnlyMissing(i, j)'
               PROVE  /\ \A r \in 1 .. Interpreter!This' : r > NoLines => v4'[r] = r - NoLines + i
                      /\ v4' # <<>> => v3' = IF Interpreter!This' <= NoLines /\ i \in Interpreter!Runs
                                                /\ Interpreter!Started(i, j)'
                                             THEN i + 1 ELSE NoLines + 1
                      /\ Interpreter!This' > NoLines => Interpreter!Started(i, j)'
                      /\ v5' = "done" => Interpreter!This' = NoLines
                                         \/ Interpreter!This' = NoLines + NoLines - i
    BY DEF Interpreter!MovedOnce
  <2>1. Interpreter!OnlyMissing(i, j) /\ Interpreter!Missing(i, j)
    BY <1>2 DEF Interpreter!OnlyMissing
  <2>2. i \in Interpreter!Runs => Interpreter!Started(i, j)' = Interpreter!Started(i, j)
    BY <2>1
  <2>3. Interpreter!This > NoLines => i \in Interpreter!Runs
    BY Bounds DEF Interpreter!Runs, Interpreter!This
  <2> QED
    BY <1>1, <2>1, <2>2, <2>3 DEF Interpreter!MovedOnce
<1> QED
  BY <1>3, <1>4, <1>5

LEMMA NextLineKeeps == ASSUME Interpreter!IInv, Interpreter!exec_commands PROVE Interpreter!IInv'
<1> DEFINE file == v1  buffered == v2  offset == v3  runs == v4  interpreter == v5
           this == Interpreter!This  line == Interpreter!NextLine
<1>1. /\ NoLines \in Nat /\ NoDeclarations \in Nat /\ MaxRuns \in Nat
      /\ buffered \in 1 .. NoLines + 1 /\ offset \in 1 - NoDeclarations .. NoLines + 1
      /\ this \in Nat /\ this <= MaxRuns
      /\ runs \in Seq(1 .. NoLines) /\ this = Len(runs) /\ (runs # <<>> <=> this >= 1)
      /\ \A r \in 1 .. this : runs[r] \in 1 .. NoLines
  BY LinesRun, Bounds DEF Interpreter!IInv, Interpreter!TypeOK
<1>0. NoLines \in Nat /\ this \in Nat /\ buffered \in Nat /\ offset \in Int /\ line \in Int
  BY <1>1 DEF Interpreter!NextLine
<1>2. interpreter = "next" /\ UNCHANGED <<file, v7, v8, v9, v10>>
  BY DEF Interpreter!exec_commands, Interpreter!processVars
<1>3. /\ \A n, k : Interpreter!Missing(n, k)' = Interpreter!Missing(n, k)
      /\ Interpreter!NoneMissing' = Interpreter!NoneMissing
      /\ \A i, j : Interpreter!OnlyMissing(i, j)' = Interpreter!OnlyMissing(i, j)
  BY <1>2 DEF Interpreter!Missing, Interpreter!NoneMissing, Interpreter!OnlyMissing
<1>4. line \in 1 .. NoLines + 1 /\ (buffered <= NoLines => line = buffered)
  BY <1>1 DEF Interpreter!NextLine
<1>5. /\ buffered = IF this = 0 THEN NoLines + 1 ELSE runs[this] + 1
      /\ this >= 1 /\ this <= NoLines => buffered = this + 1
      /\ this = 0 => line = 1
  <2>1. /\ buffered = IF this = 0 THEN NoLines + 1 ELSE runs[this] + 1
        /\ this = 0 => offset < 1 \/ offset = 1
        /\ \A r \in 1 .. this : r <= NoLines => runs[r] = r
    BY <1>1 DEF Interpreter!IInv, Interpreter!FirstPass
  <2>2. this = 0 => line = 1
    BY <1>1, <2>1 DEF Interpreter!NextLine
  <2> QED
    BY <1>1, <2>1, <2>2
(* A line after the end means that all were run, one before it that it comes next. *)
<1>6. (line > NoLines => this >= NoLines) /\ (this < NoLines => line = this + 1)
  BY <1>1, <1>4, <1>5
<1>7. ASSUME NEW i \in 1 .. NoLines, NEW j \in 1 .. Interpreter!MaxParts, Interpreter!OnlyMissing(i, j)
      PROVE  /\ \A r \in 1 .. this : r > NoLines => runs[r] = r - NoLines + i
             /\ this >= 1 => offset = IF this <= NoLines /\ i \in Interpreter!Runs
                                         /\ Interpreter!Started(i, j)
                                      THEN i + 1 ELSE NoLines + 1
             /\ this > NoLines => Interpreter!Started(i, j)
             /\ i <= this => i \in Interpreter!Runs
             /\ Interpreter!Started(i, j)' = Interpreter!Started(i, j)
  <2>1. i <= this => i \in Interpreter!Runs
    BY <1>1 DEF Interpreter!Runs
  <2>2. Interpreter!Started(i, j)' = Interpreter!Started(i, j)
    BY <1>2 DEF Interpreter!Started
  <2> QED
    BY <1>1, <1>7, <2>1, <2>2 DEF Interpreter!IInv, Interpreter!MovedOnce
<1>8. CASE line > NoLines
  <2>1. interpreter' = "done" /\ UNCHANGED <<buffered, offset, runs, v6>> /\ this' = this
    BY <1>8 DEF Interpreter!exec_commands, Interpreter!This
  <2>2. Interpreter!TypeOK'
    BY <1>2, <2>1 DEF Interpreter!IInv, Interpreter!TypeOK, Interpreter!This
  <2>3. Interpreter!FirstPass'
    BY <1>6, <1>8, <2>1 DEF Interpreter!IInv, Interpreter!FirstPass
  <2>4. Interpreter!Unforked'
    BY <1>2, <2>1 DEF Interpreter!IInv, Interpreter!Unforked
  <2>5. Interpreter!Straight'
    BY <1>3, <2>1 DEF Interpreter!IInv, Interpreter!Straight
  <2>6. ASSUME NEW i \in 1 .. NoLines, NEW j \in 1 .. Interpreter!MaxParts, Interpreter!OnlyMissing(i, j)
        PROVE  this = NoLines \/ this = NoLines + NoLines - i
    <3>1. CASE this > NoLines
      <4>1. \A r \in 1 .. this : r > NoLines => runs[r] = r - NoLines + i
        BY <1>7, <2>6
      <4>2. this \in 1 .. this /\ this >= 1
        BY <1>0, <3>1
      <4>3. runs[this] = this - NoLines + i
        BY <3>1, <4>1, <4>2
      <4>4. buffered = this - NoLines + i + 1
        BY <1>0, <1>5, <4>2, <4>3
      <4>5. ~(buffered <= NoLines)
        BY <1>0, <1>4, <1>8
      <4>6. buffered \in 1 .. NoLines + 1
        BY <1>1
      <4> QED
        BY <1>0, <4>4, <4>5, <4>6
    <3> QED
      BY <1>1, <1>6, <1>8, <3>1
  <2>7. Interpreter!MovedOnce'
    <3> SUFFICES ASSUME NEW i \in 1 .. NoLines, NEW j \in 1 .. Interpreter!MaxParts,
                        Interpreter!OnlyMissing(i, j)
                 PROVE  /\ \A r \in 1 .. this' : r > NoLines => runs'[r] = r - NoLines + i
                        /\ runs' # <<>> => offset' = IF this' <= NoLines /\ i \in Interpreter!Runs
                                                        /\ Interpreter!Started(i, j)'
                                                     THEN i + 1 ELSE NoLines + 1
                        /\ this' > NoLines => Interpreter!Started(i, j)'
                        /\ this' = NoLines \/ this' = NoLines + NoLines - i
      BY <1>3 DEF Interpreter!MovedOnce
    <3> QED
      BY <1>1, <1>7, <2>1, <2>6
  <2> QED
    BY <2>2, <2>3, <2>4, <2>5, <2>7 DEF Interpreter!IInv
<1>9. CASE line <= NoLines
  <2>1. /\ runs' = Append(runs, line) /\ buffered' = line + 1
        /\ offset' = IF buffered <= NoLines THEN offset ELSE NoLines + 1
        /\ interpreter' = "fork" /\ v6' = 1 /\ this < MaxRuns
    BY <1>1, <1>4, <1>9 DEF Interpreter!exec_commands
  <2>2. /\ this' = this + 1 /\ runs' \in Seq(1 .. NoLines) /\ runs' # <<>>
        /\ runs'[this + 1] = line
        /\ \A r \in 1 .. this : runs'[r] = runs[r]
    BY <1>1, <1>4, <1>9, <2>1 DEF Interpreter!This
  <2>3. Interpreter!TypeOK'
    <3>1. line \in 1 .. NoLines /\ file[line] \in Pipelines /\ file \in [1 .. NoLines -> Pipelines]
      BY <1>1, <1>4, <1>9 DEF Interpreter!IInv, Interpreter!TypeOK
    <3>2. Len(file[line]) \in 1 .. 3
      BY <3>1, ShortLines
    <3>3. 1 \in 1 .. Interpreter!Parts(Interpreter!This)'
      <4>1. Interpreter!Parts(Interpreter!This)' = Len(file[line])
        BY <1>1, <1>2, <2>2 DEF Interpreter!Parts
      <4>2. \A n \in 1 .. 3 : 1 \in 1 .. n
        OBVIOUS
      <4> QED
        BY <3>2, <4>1, <4>2
    <3>4. /\ offset' \in 1 - NoDeclarations .. NoLines + 1 /\ buffered' \in 1 .. NoLines + 1
          /\ this' <= MaxRuns
      BY <1>1, <1>4, <1>9, <2>1, <2>2
    <3>5. /\ v7' \in Interpreter!EachPart(Interpreter!States) /\ v8' \in Interpreter!EachPart(BOOLEAN)
          /\ v9' \in Interpreter!EachPart(Nat) /\ v10' \in Interpreter!EachPart(Nat)
      BY <1>2 DEF Interpreter!IInv, Interpreter!TypeOK
    <3> QED
      BY <1>2, <2>1, <2>2, <3>1, <3>3, <3>4, <3>5 DEF Interpreter!TypeOK
  <2>4. Interpreter!FirstPass'
    <3>1. buffered' = runs'[this'] + 1
      BY <2>1, <2>2
    <3>2. ASSUME NEW r \in 1 .. this', r <= NoLines PROVE runs'[r] = r
      <4>1. CASE r = this + 1
        BY <1>1, <1>6, <2>2, <3>2, <4>1
      <4>2. CASE r # this + 1
        <5>1. r \in 1 .. this /\ runs[r] = r
          BY <1>1, <2>2, <3>2, <4>2 DEF Interpreter!IInv, Interpreter!FirstPass
        <5> QED
          BY <2>2, <5>1
      <4> QED
        BY <4>1, <4>2
    <3> QED
      BY <2>1, <2>2, <3>1, <3>2 DEF Interpreter!FirstPass
  <2>5. Interpreter!Unforked'
    <3> SUFFICES ASSUME NEW r \in Interpreter!Runs, NEW k \in 1 .. Interpreter!MaxParts,
                        r > this' \/ r = this'
                 PROVE  v7'[r][k] = "none"
      BY DEF Interpreter!Unforked
    <3>1. r > this
      BY <1>1, <2>2 DEF Interpreter!Runs
    <3> QED
      BY <1>2, <3>1 DEF Interpreter!IInv, Interpreter!Unforked
  <2>6. Interpreter!Straight'
    <3> SUFFICES ASSUME Interpreter!NoneMissing PROVE this' <= NoLines /\ offset' = NoLines + 1
      BY <1>3 DEF Interpreter!Straight
    <3>1. this <= NoLines /\ (this >= 1 => offset = NoLines + 1)
      BY <1>1 DEF Interpreter!IInv, Interpreter!Straight
    <3>2. this < NoLines
      <4> SUFFICES ASSUME this = NoLines PROVE FALSE
        BY <1>1, <3>1
      <4>1. NoLines >= 1 /\ buffered = NoLines + 1 /\ offset = NoLines + 1
        BY <1>1, <1>4, <1>5, <1>9, <3>1
      <4>2. line = NoLines + 1
        BY <1>0, <4>1 DEF Interpreter!NextLine
      <4> QED
        BY <1>0, <1>9, <4>2
    <3> QED
      BY <1>1, <1>5, <2>1, <2>2, <3>1, <3>2
  <2>7. Interpreter!MovedOnce'
    <3> SUFFICES ASSUME NEW i \in 1 .. NoLines, NEW j \in 1 .. Interpreter!MaxParts,
                        Interpreter!OnlyMissing(i, j)
                 PROVE  /\ \A r \in 1 .. this' : r > NoLines => runs'[r] = r - NoLines + i
                        /\ offset' = IF this' <= NoLines /\ i \in Interpreter!Runs
                                        /\ Interpreter!Started(i, j)'
                                     THEN i + 1 ELSE NoLines + 1
                        /\ this' > NoLines => Interpreter!Started(i, j)'
      BY <1>3, <2>1 DEF Interpreter!MovedOnce
    <3> DEFINE started == Interpreter!Started(i, j)
    <3>1. /\ \A r \in 1 .. this : r > NoLines => runs[r] = r - NoLines + i
          /\ this >= 1 => offset = IF this <= NoLines /\ i \in Interpreter!Runs /\ started
                                   THEN i + 1 ELSE NoLines + 1
          /\ this > NoLines => started
          /\ i <= this => i \in Interpreter!Runs
          /\ started' = started
      BY <1>7
    <3>2. this = 0 => ~(i \in Interpreter!Runs /\ started)
      <4> SUFFICES ASSUME this = 0, i \in Interpreter!Runs PROVE ~started
        OBVIOUS
      <4>1. v7[i][j] = "none"
        BY <1>1 DEF Interpreter!IInv, Interpreter!Unforked
      <4> QED
        BY <4>1 DEF Interpreter!Started
    <3> HIDE DEF started
    <3>3. CASE this < NoLines
      <4>1. \A r \in 1 .. this' : ~(r > NoLines)
        BY <1>0, <2>2, <3>3
      <4>2. ~(this' > NoLines) /\ this' <= NoLines /\ this <= NoLines
        BY <1>0, <2>2, <3>3
      <4>3. offset' = IF i \in Interpreter!Runs /\ started THEN i + 1 ELSE NoLines + 1
        <5>1. CASE this = 0
          BY <1>0, <1>5, <2>1, <3>2, <5>1
        <5>2. CASE this >= 1
          BY <1>0, <1>5, <2>1, <3>1, <3>3, <4>2, <5>2
        <5> QED
          BY <1>0, <5>1, <5>2
      <4> QED
        BY <3>1, <4>1, <4>2, <4>3 DEF started
    <3>4. CASE this = NoLines
      <4>1. this >= 1 /\ buffered = NoLines + 1 /\ offset' = NoLines + 1 /\ this' = NoLines + 1
        BY <1>1, <1>5, <2>1, <2>2, <3>4
      <4>2. line = IF offset < 1 THEN 1 ELSE offset
        BY <1>1, <4>1 DEF Interpreter!NextLine
      <4>3. started /\ line = i + 1
        BY <1>1, <1>9, <3>1, <3>4, <4>1, <4>2
      <4>4. \A r \in 1 .. this' : r > NoLines => runs'[r] = r - NoLines + i
        BY <1>1, <2>2, <3>4, <4>1, <4>3
      <4> QED
        BY <1>0, <3>1, <4>1, <4>3, <4>4 DEF started
    <3>5. CASE this > NoLines
      <4>0. this \in 1 .. this /\ this >= 1 /\ ~(this <= NoLines)
        BY <1>0, <3>5
      <4>1. runs[this] = this - NoLines + i /\ offset = NoLines + 1
        BY <3>1, <3>5, <4>0
      <4>5. buffered = this - NoLines + i + 1
        BY <1>0, <1>5, <4>0, <4>1
      <4>2. buffered <= NoLines
        BY <1>0, <1>9, <4>1 DEF Interpreter!NextLine
      <4>3. line = this + 1 - NoLines + i
        BY <1>0, <1>4, <4>2, <4>5
      <4>4. ASSUME NEW r \in 1 .. this', r > NoLines PROVE runs'[r] = r - NoLines + i
        <5>1. CASE r = this + 1
          BY <1>0, <2>2, <4>3, <5>1
        <5>2. CASE r # this + 1
          <6>1. r \in 1 .. this
            BY <1>0, <2>2, <4>4, <5>2
          <6> QED
            BY <2>2, <3>1, <4>4, <6>1
        <5> QED
          BY <5>1, <5>2
      <4>6. ~(this' <= NoLines) /\ offset' = NoLines + 1
        BY <1>0, <2>1, <2>2, <3>5, <4>1
      <4> QED
        BY <3>1, <3>5, <4>4, <4>6 DEF started
    <3> QED
      BY <1>1, <3>3, <3>4, <3>5
  <2> QED
    BY <2>3, <2>4, <2>5, <2>6, <2>7 DEF Interpreter!IInv
<1> QED
  BY <1>1, <1>4, <1>8, <1>9

(* The types survive what changes parts only. *)
LEMMA PartsKeepTypes ==
  ASSUME Interpreter!TypeOK, UNCHANGED <<v1, v2, v4, v5, v6>>,
         v3' \in 1 - NoDeclarations .. NoLines + 1,
         v7' \in Interpreter!EachPart(Interpreter!States), v8' \in Interpreter!EachPart(BOOLEAN),
         v9' \in Interpreter!EachPart(Nat), v10' \in Interpreter!EachPart(Nat)
  PROVE  Interpreter!TypeOK'
BY DEF Interpreter!TypeOK, Interpreter!This, Interpreter!Parts

LEMMA ForkAndWaitKeep ==
  ASSUME Interpreter!IInv, Interpreter!exec_command_line \/ Interpreter!check_processes_status
  PROVE  Interpreter!IInv'
<1> DEFINE this == Interpreter!This
<1>1. /\ UNCHANGED <<v1, v2, v3, v4, v8, v9, v10>> /\ v5 \in {"fork", "wait"}
      /\ v5' \in {"next", "fork", "wait"}
  BY DEF Interpreter!exec_command_line, Interpreter!check_processes_status, Interpreter!processVars
<1>2. /\ v4 \in Seq(1 .. NoLines) /\ v4 # <<>> /\ this <= MaxRuns /\ MaxRuns \in Nat
      /\ v1 \in [1 .. NoLines -> Pipelines] /\ v6 \in 1 .. Interpreter!Parts(this)
  BY <1>1, Bounds DEF Interpreter!IInv, Interpreter!TypeOK
<1>3. /\ this \in Nat /\ 1 <= this /\ this \in Interpreter!Runs
      /\ Interpreter!Parts(this) \in 1 .. Interpreter!MaxParts /\ v6 \in 1 .. Interpreter!MaxParts
      /\ Interpreter!Parts(this)' = Interpreter!Parts(this)
  <2>1. Len(v4) \in Nat /\ Len(v4) \in 1 .. Len(v4) /\ v4[Len(v4)] \in 1 .. NoLines
    <3>1. Len(v4) \in Nat /\ Len(v4) # 0
      BY <1>2
    <3>2. Len(v4) \in 1 .. Len(v4)
      BY <3>1
    <3>3. v4 \in Seq(1 .. NoLines)
      BY <1>2
    <3>4. \A r \in 1 .. Len(v4) : v4[r] \in 1 .. NoLines
      BY <3>3, SeqIsSeq
    <3> QED
      BY <3>1, <3>2, <3>4
  <2>2. Len(v1[v4[Len(v4)]]) \in 1 .. 3
    BY <1>2, <2>1, ShortLines
  <2>3. Interpreter!Parts(this) = Len(v1[v4[Len(v4)]]) /\ this = Len(v4)
    BY <2>1 DEF Interpreter!Parts, Interpreter!This
  <2>4. Interpreter!Parts(this)' = Interpreter!Parts(this)
    BY <1>1 DEF Interpreter!Parts, Interpreter!This
  <2>5. this \in Interpreter!Runs
    BY <1>2, <2>1, <2>3 DEF Interpreter!Runs
  <2>6. Interpreter!Parts(this) \in 1 .. Interpreter!MaxParts
    BY <2>2, <2>3 DEF Interpreter!MaxParts
  <2>7. v6 \in 1 .. Interpreter!MaxParts
    BY <1>2, <2>6 DEF Interpreter!MaxParts
  <2> QED
    BY <2>1, <2>3, <2>4, <2>5, <2>6, <2>7
<1>4. /\ v5' \in {"fork", "wait"} => v6' \in 1 .. Interpreter!Parts(this)
      /\ v7' \in Interpreter!EachPart(Interpreter!States)
  <2>1. v7 \in Interpreter!EachPart(Interpreter!States) /\ "new" \in Interpreter!States
    BY DEF Interpreter!IInv, Interpreter!TypeOK, Interpreter!States
  <2>2. [v7 EXCEPT ![this][v6] = "new"] \in Interpreter!EachPart(Interpreter!States)
    BY <1>3, <2>1, OnePart
  <2> QED
    BY <1>2, <1>3, <2>1, <2>2
           DEF Interpreter!exec_command_line, Interpreter!check_processes_status, Interpreter!processVars
<1>5. Interpreter!TypeOK'
  <2>1. this' = this
    BY <1>1 DEF Interpreter!This
  <2> QED
    BY <1>1, <1>2, <1>3, <1>4, <2>1 DEF Interpreter!IInv, Interpreter!TypeOK
<1>6. /\ \/ UNCHANGED v7 /\ (v5' = "fork" => v5 = "fork" /\ v6' = v6)
         \/ /\ v5 = "fork" /\ v7' = [v7 EXCEPT ![this][v6] = "new"]
            /\ v5' = "fork" => v6' = v6 + 1
      /\ this' = this
  BY <1>1 DEF Interpreter!exec_command_line, Interpreter!check_processes_status,
              Interpreter!processVars, Interpreter!This
<1>7. v7 \in Interpreter!EachPart(Interpreter!States) /\ (v5 = "fork" => v7[this][v6] = "none")
  BY <1>2, <1>3 DEF Interpreter!IInv, Interpreter!TypeOK, Interpreter!Unforked
<1>8. \A i \in Interpreter!Runs, j \in 1 .. Interpreter!MaxParts :
        v7'[i][j] = IF v7' # v7 /\ i = this /\ j = v6 THEN "new" ELSE v7[i][j]
  BY <1>3, <1>6, <1>7 DEF Interpreter!EachPart
<1>9. Interpreter!Unforked'
  <2> SUFFICES ASSUME NEW i \in Interpreter!Runs, NEW j \in 1 .. Interpreter!MaxParts,
                      i > this \/ (i = this /\ v5' = "fork" /\ j >= v6')
               PROVE  v7'[i][j] = "none"
    BY <1>6 DEF Interpreter!Unforked
  <2>1. v6 \in Nat /\ j \in Nat /\ this \in Nat
    BY <1>3 DEF Interpreter!MaxParts
  <2>2. v7[i][j] = "none"
    BY <1>6, <2>1 DEF Interpreter!IInv, Interpreter!Unforked
  <2>3. CASE UNCHANGED v7
    BY <2>2, <2>3
  <2>4. CASE v7' # v7
    BY <1>6, <1>8, <2>1, <2>2, <2>4
  <2> QED
    BY <2>3, <2>4
<1>10. \A i \in Interpreter!Runs, j \in 1 .. Interpreter!MaxParts :
         Interpreter!Started(i, j)' = Interpreter!Started(i, j)
  <2> SUFFICES ASSUME NEW i \in Interpreter!Runs, NEW j \in 1 .. Interpreter!MaxParts
               PROVE  Interpreter!Started(i, j)' = Interpreter!Started(i, j)
    OBVIOUS
  <2>1. CASE v7' # v7 /\ i = this /\ j = v6
    BY <1>6, <1>7, <1>8, <2>1 DEF Interpreter!Started
  <2>2. CASE ~(v7' # v7 /\ i = this /\ j = v6)
    BY <1>8, <2>2 DEF Interpreter!Started
  <2> QED
    BY <2>1, <2>2
<1>11. Interpreter!FirstPass' /\ Interpreter!Straight' /\ Interpreter!MovedOnce'
  <2>1. Interpreter!FirstPass /\ Interpreter!Straight /\ Interpreter!MovedOnce
    BY DEF Interpreter!IInv
  <2>2. v5' = "done" => v5 = "done"
    BY <1>1
  <2> QED
    BY <1>1, <1>2, <1>10, <2>1, <2>2, SameLines
<1> QED
  BY <1>5, <1>9, <1>11 DEF Interpreter!IInv

(* Of a program that exists or ran nobody says that it has not been forked. *)
LEMMA ForkedStay ==
  ASSUME Interpreter!Unforked, NEW r \in Interpreter!Runs, NEW k \in 1 .. Interpreter!MaxParts,
         NEW state, v7' = [v7 EXCEPT ![r][k] = state], v7[r][k] # "none",
         v7 \in Interpreter!EachPart(Interpreter!States), UNCHANGED <<v4, v5, v6>>
  PROVE  Interpreter!Unforked'
<1> SUFFICES ASSUME NEW i \in Interpreter!Runs, NEW j \in 1 .. Interpreter!MaxParts,
                    i > Interpreter!This \/ (i = Interpreter!This /\ v5 = "fork" /\ j >= v6)
             PROVE  v7'[i][j] = "none"
  BY DEF Interpreter!Unforked, Interpreter!This
<1>1. v7[i][j] = "none"
  BY DEF Interpreter!Unforked
<1> QED
  BY <1>1 DEF Interpreter!EachPart

LEMMA ExecKeeps ==
  ASSUME Interpreter!IInv, NEW r \in Interpreter!Runs, NEW k \in 1 .. Interpreter!MaxParts,
         Interpreter!Exec(r, k)
  PROVE  Interpreter!IInv'
<1> DEFINE this == Interpreter!This
<1>1. UNCHANGED <<v1, v2, v4, v5, v6, v8, v9, v10>> /\ this' = this
  BY DEF Interpreter!Exec, Interpreter!interpreterVars, Interpreter!This
<1>2. /\ NoLines \in Nat /\ NoDeclarations \in Nat /\ MaxRuns \in Nat /\ this \in Nat
      /\ this <= MaxRuns /\ this = Len(v4)
      /\ v3 \in 1 - NoDeclarations .. NoLines + 1
      /\ v7 \in Interpreter!EachPart(Interpreter!States) /\ v7[r][k] = "new"
  BY LinesRun, Bounds DEF Interpreter!IInv, Interpreter!TypeOK, Interpreter!Exec
<1>3. /\ r \in 1 .. this /\ k \in DOMAIN v1[v4[r]] /\ v4[r] \in 1 .. NoLines
  <2>1. k \in 1 .. Interpreter!Parts(r)
    BY DEF Interpreter!Exec, Interpreter!Exists
  <2>2. r \in Nat /\ 1 <= r
    BY Bounds DEF Interpreter!Runs
  <2>3. r <= this /\ k \in 1 .. Len(v1[v4[r]])
    BY <1>2, <2>1 DEF Interpreter!Parts
  <2>4. r \in 1 .. this
    BY <1>2, <2>2, <2>3
  <2>5. v4[r] \in 1 .. NoLines /\ v1[v4[r]] \in Seq(STRING)
    BY <1>2, <2>4, LinesRun DEF Interpreter!IInv
  <2> QED
    BY <2>3, <2>4, <2>5
<1>4. v7' \in Interpreter!EachPart(Interpreter!States) /\ Interpreter!Unforked'
  <2>1. PICK state \in Interpreter!States : v7' = [v7 EXCEPT ![r][k] = state]
    BY DEF Interpreter!Exec, Interpreter!Becomes, Interpreter!States
  <2>2. [v7 EXCEPT ![r][k] = state] \in Interpreter!EachPart(Interpreter!States)
    BY <1>2, OnePart
  <2>3. Interpreter!Unforked'
    BY <1>1, <1>2, <2>1, ForkedStay DEF Interpreter!IInv
  <2> QED
    BY <2>1, <2>2, <2>3
<1>5. v3' \in 1 - NoDeclarations .. NoLines + 1
  BY <1>2, <1>3 DEF Interpreter!Exec, Interpreter!MovedBack
<1>6. Interpreter!TypeOK'
  BY <1>1, <1>2, <1>4, <1>5, PartsKeepTypes DEF Interpreter!IInv, Interpreter!TypeOK
<1>7. CASE Interpreter!Program(r, k) # "missing"
  <2>1. v7' = [v7 EXCEPT ![r][k] = "runs"] /\ UNCHANGED v3
    BY <1>7 DEF Interpreter!Exec, Interpreter!Becomes
  <2>2. ASSUME NEW i \in Interpreter!Runs, NEW j \in 1 .. Interpreter!MaxParts, ~(i = r /\ j = k)
        PROVE  Interpreter!Started(i, j)' = Interpreter!Started(i, j)
    <3>1. v7'[i][j] = v7[i][j]
      BY <1>2, <2>1, <2>2 DEF Interpreter!EachPart
    <3> QED
      BY <3>1 DEF Interpreter!Started
  <2>3. ASSUME r \in 1 .. NoLines PROVE ~Interpreter!Missing(r, k)
    <3>1. v4[r] = r
      BY <1>2, <1>3, <2>3 DEF Interpreter!IInv, Interpreter!FirstPass
    <3> QED
      BY <1>7, <3>1 DEF Interpreter!Missing, Interpreter!Program
  <2>4. Interpreter!FirstPass /\ Interpreter!Straight /\ Interpreter!MovedOnce
    BY DEF Interpreter!IInv
  <2>5. Interpreter!FirstPass' /\ Interpreter!Straight' /\ Interpreter!MovedOnce'
    BY <1>1, <1>2, <2>1, <2>2, <2>3, <2>4, SameLines
  <2> QED
    BY <1>4, <1>6, <2>5 DEF Interpreter!IInv
<1>8. CASE Interpreter!Program(r, k) = "missing"
  <2>1. v7' = [v7 EXCEPT ![r][k] = "failed"] /\ v3' = Interpreter!MovedBack(NoLines - v4[r])
    BY <1>8 DEF Interpreter!Exec, Interpreter!Becomes
  <2>2. /\ \A n, l : Interpreter!Missing(n, l)' = Interpreter!Missing(n, l)
        /\ Interpreter!NoneMissing' = Interpreter!NoneMissing
        /\ \A i, j : Interpreter!OnlyMissing(i, j)' = Interpreter!OnlyMissing(i, j)
    BY <1>1 DEF Interpreter!Missing, Interpreter!NoneMissing, Interpreter!OnlyMissing
  <2>3. Interpreter!Missing(v4[r], k)
    BY <1>3, <1>8 DEF Interpreter!Program, Interpreter!Missing
  <2>4. Interpreter!FirstPass'
    BY <1>1, <1>2, <1>3 DEF Interpreter!IInv, Interpreter!FirstPass
  <2>5. Interpreter!Straight'
    BY <1>3, <2>2, <2>3 DEF Interpreter!Straight, Interpreter!NoneMissing
  <2>6. Interpreter!MovedOnce'
    <3> SUFFICES ASSUME NEW i \in 1 .. NoLines, NEW j \in 1 .. Interpreter!MaxParts,
                        Interpreter!OnlyMissing(i, j)
                 PROVE  /\ \A q \in 1 .. this : q > NoLines => v4[q] = q - NoLines + i
                        /\ v3' = i + 1 /\ this <= NoLines /\ i \in Interpreter!Runs
                        /\ Interpreter!Started(i, j)'
                        /\ v5 = "done" => this = NoLines
      BY <1>1, <1>2, <2>2 DEF Interpreter!MovedOnce
    <3>1. /\ \A q \in 1 .. this : q > NoLines => v4[q] = q - NoLines + i
          /\ v4 # <<>> => v3 = IF this <= NoLines /\ i \in Interpreter!Runs
                                  /\ Interpreter!Started(i, j)
                               THEN i + 1 ELSE NoLines + 1
          /\ this > NoLines => Interpreter!Started(i, j)
      BY DEF Interpreter!IInv, Interpreter!MovedOnce
    <3>2. v4[r] = i /\ k = j
      BY <1>3, <2>3 DEF Interpreter!OnlyMissing
    <3>3. r = i
      <4>1. r <= NoLines
        BY <1>2, <1>3, <3>1, <3>2
      <4> QED
        BY <1>2, <1>3, <3>2, <4>1 DEF Interpreter!IInv, Interpreter!FirstPass
    <3>4. ~Interpreter!Started(i, j) /\ this <= NoLines /\ v4 # <<>>
      <4>1. ~Interpreter!Started(i, j)
        BY <1>2, <3>2, <3>3 DEF Interpreter!Started
      <4> QED
        BY <1>2, <1>3, <3>1, <4>1
    <3>5. v3 = NoLines + 1
      BY <3>1, <3>4
    <3>6. v3' = i + 1
      BY <1>2, <2>1, <3>2, <3>5 DEF Interpreter!MovedBack
    <3>7. Interpreter!Started(i, j)'
      <4>1. v7'[i][j] = "failed"
        BY <1>2, <2>1, <3>2, <3>3 DEF Interpreter!EachPart
      <4> QED
        BY <4>1 DEF Interpreter!Started
    <3>8. v5 = "done" => this = NoLines
      BY <1>2, <3>4 DEF Interpreter!IInv, Interpreter!FirstPass
    <3> QED
      BY <3>1, <3>3, <3>4, <3>6, <3>7, <3>8
  <2> QED
    BY <1>4, <1>6, <2>4, <2>5, <2>6 DEF Interpreter!IInv
<1> QED
  BY <1>7, <1>8

LEMMA WorkKeeps ==
  ASSUME Interpreter!IInv, NEW r \in Interpreter!Runs, NEW k \in 1 .. Interpreter!MaxParts,
         Interpreter!Read(r, k) \/ Interpreter!Write(r, k) \/ Interpreter!Exit(r, k)
  PROVE  Interpreter!IInv'
<1>1. UNCHANGED <<v1, v2, v3, v4, v5, v6>>
  BY DEF Interpreter!Read, Interpreter!Write, Interpreter!Exit, Interpreter!interpreterVars
<1>2. /\ v3 \in 1 - NoDeclarations .. NoLines + 1 /\ v7 \in Interpreter!EachPart(Interpreter!States)
      /\ v8 \in Interpreter!EachPart(BOOLEAN) /\ v9 \in Interpreter!EachPart(Nat)
      /\ v10 \in Interpreter!EachPart(Nat)
  BY DEF Interpreter!IInv, Interpreter!TypeOK
<1>3. /\ v9[r][k] \in Nat /\ v10[r][k] \in Nat
      /\ k > 1 => k - 1 \in 1 .. Interpreter!MaxParts /\ v10[r][k - 1] \in Nat
  BY <1>2 DEF Interpreter!EachPart, Interpreter!MaxParts
<1>4. v7' \in Interpreter!EachPart(Interpreter!States)
  <2>1. UNCHANGED v7 \/ \E state \in Interpreter!States : v7' = [v7 EXCEPT ![r][k] = state]
    BY DEF Interpreter!Read, Interpreter!Write, Interpreter!Exit, Interpreter!Becomes, Interpreter!States
  <2>2. \A state \in Interpreter!States : [v7 EXCEPT ![r][k] = state] \in Interpreter!EachPart(Interpreter!States)
    BY <1>2, OnePart
  <2> QED
    BY <1>2, <2>1, <2>2
<1>5. v8' \in Interpreter!EachPart(BOOLEAN)
  <2>1. UNCHANGED v8 \/ \E holds \in BOOLEAN : v8' = [v8 EXCEPT ![r][k] = holds]
    BY DEF Interpreter!Read, Interpreter!Write, Interpreter!Exit
  <2>2. \A holds \in BOOLEAN : [v8 EXCEPT ![r][k] = holds] \in Interpreter!EachPart(BOOLEAN)
    BY <1>2, OnePart
  <2> QED
    BY <1>2, <2>1, <2>2
<1>6. v9' \in Interpreter!EachPart(Nat)
  <2>1. \/ UNCHANGED v9
        \/ v9' = [v9 EXCEPT ![r][k] = v9[r][k]]
        \/ v9' = [v9 EXCEPT ![r][k] = v9[r][k] + 1]
    BY DEF Interpreter!Read, Interpreter!Write, Interpreter!Exit
  <2>2. /\ [v9 EXCEPT ![r][k] = v9[r][k]] \in Interpreter!EachPart(Nat)
        /\ [v9 EXCEPT ![r][k] = v9[r][k] + 1] \in Interpreter!EachPart(Nat)
    <3>1. v9[r][k] + 1 \in Nat
      BY <1>3
    <3> QED
      BY <1>2, <1>3, <3>1, OnePart
  <2> QED
    BY <1>2, <2>1, <2>2
<1>7. v10' \in Interpreter!EachPart(Nat)
  <2>1. \/ UNCHANGED v10
        \/ k > 1 /\ v10[r][k - 1] > 0 /\ v10' = [v10 EXCEPT ![r][k - 1] = v10[r][k - 1] - 1]
        \/ v10' = [v10 EXCEPT ![r][k] = v10[r][k] + 1]
    BY <1>3 DEF Interpreter!Read, Interpreter!Write, Interpreter!Exit, Interpreter!CanRead, Interpreter!MaxParts
  <2>2. v10[r][k] + 1 \in Nat /\ (k > 1 /\ v10[r][k - 1] > 0 => v10[r][k - 1] - 1 \in Nat)
    BY <1>3
  <2>3. [v10 EXCEPT ![r][k] = v10[r][k] + 1] \in Interpreter!EachPart(Nat)
    BY <1>2, <2>2, OnePart
  <2>4. k > 1 /\ v10[r][k - 1] > 0 =>
          [v10 EXCEPT ![r][k - 1] = v10[r][k - 1] - 1] \in Interpreter!EachPart(Nat)
    BY <1>2, <1>3, <2>2, OnePart
  <2> QED
    BY <1>2, <2>1, <2>3, <2>4
<1>8. Interpreter!TypeOK'
  BY <1>1, <1>2, <1>4, <1>5, <1>6, <1>7, PartsKeepTypes DEF Interpreter!IInv
<1>9. v7[r][k] = "runs" /\ (UNCHANGED v7 \/ \E state \in {"ok", "failed", "killed"} : v7' = [v7 EXCEPT ![r][k] = state])
  BY DEF Interpreter!Read, Interpreter!Write, Interpreter!Exit, Interpreter!Becomes, Interpreter!Working
<1>10. Interpreter!Unforked'
  <2>1. CASE UNCHANGED v7
    BY <1>1, <2>1 DEF Interpreter!IInv, Interpreter!Unforked, Interpreter!This
  <2>2. ASSUME NEW state, v7' = [v7 EXCEPT ![r][k] = state] PROVE Interpreter!Unforked'
    BY <1>1, <1>2, <1>9, <2>2, ForkedStay DEF Interpreter!IInv
  <2> QED
    BY <1>9, <2>1, <2>2
<1>11. \A i \in Interpreter!Runs, j \in 1 .. Interpreter!MaxParts :
         Interpreter!Started(i, j)' = Interpreter!Started(i, j)
  <2> SUFFICES ASSUME NEW i \in Interpreter!Runs, NEW j \in 1 .. Interpreter!MaxParts
               PROVE  Interpreter!Started(i, j)' = Interpreter!Started(i, j)
    OBVIOUS
  <2>1. CASE UNCHANGED v7
    BY <2>1 DEF Interpreter!Started
  <2>2. ASSUME NEW state \in {"ok", "failed", "killed"}, v7' = [v7 EXCEPT ![r][k] = state]
        PROVE  Interpreter!Started(i, j)' = Interpreter!Started(i, j)
    <3>1. v7'[i][j] = IF i = r /\ j = k THEN state ELSE v7[i][j]
      BY <1>2, <2>2 DEF Interpreter!EachPart
    <3> QED
      BY <1>9, <2>2, <3>1 DEF Interpreter!Started
  <2> QED
    BY <1>9, <2>1, <2>2
<1>12. Interpreter!FirstPass' /\ Interpreter!Straight' /\ Interpreter!MovedOnce'
  <2>1. Interpreter!FirstPass /\ Interpreter!Straight /\ Interpreter!MovedOnce /\ Interpreter!This <= MaxRuns
    BY DEF Interpreter!IInv, Interpreter!TypeOK
  <2> QED
    BY <1>1, <1>11, <2>1, SameLines
<1> QED
  BY <1>8, <1>10, <1>12 DEF Interpreter!IInv

LEMMA PipelineKeeps == ASSUME Interpreter!IInv, Interpreter!Next PROVE Interpreter!IInv'
BY NextLineKeeps, ForkAndWaitKeep, ExecKeeps, WorkKeeps DEF Interpreter!Next, Interpreter!Child

(* A program at the end of its line never waits to write, so the one before it does not *)
(* either when both ends of its pipe are with them, and so on down to the first.        *)
LEMMA SomebodyGoesOn == ASSUME Interpreter!IInv PROVE Interpreter!ProgramsGoOn
<1> DEFINE live(r, k) == Interpreter!Exists(r, k)
           stuck(r, k) == live(r, k) => Interpreter!Waits(r, k)
<1> SUFFICES ASSUME v5 \in {"wait", "done"}, NEW r \in Interpreter!Runs,
                    \A k \in 1 .. 3 : stuck(r, k)
             PROVE  \A k \in 1 .. 3 : ~live(r, k)
  BY DEF Interpreter!ProgramsGoOn, Interpreter!MaxParts
<1>1. /\ Interpreter!Parts(r) \in 0 .. 3 /\ Capacity > 0
      /\ \A k \in 1 .. 3 : v10[r][k] \in Nat /\ v8[r][k] \in BOOLEAN
  <2>1. v10 \in Interpreter!EachPart(Nat) /\ v8 \in Interpreter!EachPart(BOOLEAN)
    BY DEF Interpreter!IInv, Interpreter!TypeOK
  <2>2. Interpreter!Parts(r) \in 0 .. 3
    <3>1. CASE r <= Interpreter!This
      <4>1. v4[r] \in 1 .. NoLines
        BY <3>1, Bounds DEF Interpreter!IInv, Interpreter!TypeOK, Interpreter!This, Interpreter!Runs
      <4>2. Len(v1[v4[r]]) \in 1 .. 3
        BY <4>1, ShortLines DEF Interpreter!IInv, Interpreter!TypeOK
      <4>3. Interpreter!Parts(r) = Len(v1[v4[r]])
        BY <3>1 DEF Interpreter!Parts
      <4>4. \A n \in 1 .. 3 : n \in 0 .. 3
        OBVIOUS
      <4> QED
        BY <4>2, <4>3, <4>4
    <3>2. CASE ~(r <= Interpreter!This)
      BY <3>2 DEF Interpreter!Parts
    <3> QED
      BY <3>1, <3>2
  <2> QED
    BY <2>1, <2>2, SomeRoom DEF Interpreter!EachPart, Interpreter!MaxParts
<1>2. \A k : /\ Interpreter!HasWriter(r, k) => live(r, k) \/ (live(r, k + 1) /\ v7[r][k + 1] = "new")
             /\ Interpreter!HasReader(r, k) => live(r, k + 1) \/ (live(r, k) /\ v7[r][k] = "new")
  BY DEF Interpreter!HasWriter, Interpreter!HasReader, Interpreter!InterpreterHolds
<1>3. \A k \in 1 .. 3 : live(r, k) =>
        IF v8[r][k] THEN k < Interpreter!Parts(r) /\ v10[r][k] = Capacity /\ live(r, k + 1)
                    ELSE k > 1 /\ v10[r][k - 1] = 0 /\ live(r, k - 1)
  <2> SUFFICES ASSUME NEW k \in 1 .. 3, live(r, k)
               PROVE  IF v8[r][k] THEN k < Interpreter!Parts(r) /\ v10[r][k] = Capacity /\ live(r, k + 1)
                                  ELSE k > 1 /\ v10[r][k - 1] = 0 /\ live(r, k - 1)
    OBVIOUS
  <2>1. Interpreter!Waits(r, k) /\ v7[r][k] = "runs"
    BY DEF Interpreter!Waits, Interpreter!Working
  <2>2. CASE v8[r][k]
    BY <1>2, <2>1, <2>2 DEF Interpreter!Waits, Interpreter!Full
  <2>3. CASE ~v8[r][k]
    <3>1. /\ ~Interpreter!Satisfied(r, k) /\ k > 1 /\ ~(v10[r][k - 1] > 0)
          /\ v10[r][k - 1] = 0 => Interpreter!HasWriter(r, k - 1)
      BY <2>1, <2>3 DEF Interpreter!Waits, Interpreter!CanRead, Interpreter!AtEnd
    <3>2. k - 1 \in 1 .. 3 /\ (k - 1) + 1 = k
      BY <3>1
    <3>3. v10[r][k - 1] = 0 /\ Interpreter!HasWriter(r, k - 1)
      BY <1>1, <3>1, <3>2
    <3> QED
      BY <1>2, <2>1, <2>3, <3>1, <3>2, <3>3
  <2> QED
    BY <1>1, <2>2, <2>3
<1>4. ASSUME NEW k \in 1 .. 3, live(r, k)
      PROVE  \/ v10[r][k] = Capacity /\ live(r, k + 1) /\ k < 3
             \/ v10[r][k - 1] = 0 /\ live(r, k - 1) /\ k > 1
  <2>1. CASE v8[r][k]
    <3>1. k < Interpreter!Parts(r) /\ v10[r][k] = Capacity /\ live(r, k + 1)
      BY <1>3, <1>4, <2>1
    <3>2. Interpreter!Parts(r) \in Nat /\ k \in Nat
      BY <1>1
    <3> QED
      BY <1>1, <3>1, <3>2
  <2>2. CASE ~v8[r][k]
    BY <1>3, <1>4, <2>2
  <2> QED
    BY <2>1, <2>2
<1> HIDE DEF live
<1>5. live(r, 3) => live(r, 2) /\ v10[r][2] = 0
  BY <1>4
<1>6. live(r, 2) => (live(r, 3) /\ v10[r][2] = Capacity) \/ (live(r, 1) /\ v10[r][1] = 0)
  BY <1>4
<1>7. live(r, 1) => live(r, 2) /\ v10[r][1] = Capacity
  BY <1>4
<1>8. \A k \in 1 .. 3 : k = 1 \/ k = 2 \/ k = 3
  OBVIOUS
<1> QED
  BY <1>1, <1>5, <1>6, <1>7, <1>8

LEMMA LinesAreInOrder == ASSUME Interpreter!IInv PROVE Interpreter!LinesRunInOrder
<1> DEFINE this == Interpreter!This
<1> SUFFICES ASSUME v5 = "done"
             PROVE  /\ this >= NoLines /\ \A n \in 1 .. NoLines : v4[n] = n
                    /\ Interpreter!NoneMissing => this = NoLines
                    /\ \A i \in 1 .. NoLines, j \in 1 .. Interpreter!MaxParts :
                         Interpreter!OnlyMissing(i, j) => this = NoLines \/ Interpreter!RunAgainAfter(i)
  BY DEF Interpreter!LinesRunInOrder
<1>1. /\ NoLines \in Nat /\ v4 \in Seq(1 .. NoLines) /\ this = Len(v4) /\ this \in Nat
  BY LinesRun, Bounds DEF Interpreter!IInv
<1>2. this >= NoLines /\ \A n \in 1 .. NoLines : v4[n] = n
  BY <1>1 DEF Interpreter!IInv, Interpreter!FirstPass
<1>3. Interpreter!NoneMissing => this = NoLines
  BY <1>1, <1>2 DEF Interpreter!IInv, Interpreter!Straight
<1>4. ASSUME NEW i \in 1 .. NoLines, NEW j \in 1 .. Interpreter!MaxParts,
             Interpreter!OnlyMissing(i, j), this # NoLines
      PROVE  Interpreter!RunAgainAfter(i)
  <2>1. this = NoLines + NoLines - i /\ \A r \in 1 .. this : r > NoLines => v4[r] = r - NoLines + i
    BY <1>4 DEF Interpreter!IInv, Interpreter!MovedOnce
  <2>2. v4 = [r \in 1 .. Len(v4) |-> v4[r]]
    BY <1>1
  <2>3. \A r \in 1 .. NoLines + NoLines - i : v4[r] = IF r <= NoLines THEN r ELSE r - NoLines + i
    BY <1>1, <1>2, <2>1
  <2> QED
    BY <1>1, <2>1, <2>2, <2>3 DEF Interpreter!RunAgainAfter
<1> QED
  BY <1>2, <1>3, <1>4

-------------------------------------------------------------------------------
(* Lab 3, zad2: a result is the sum of all parts, and there is one unless something failed. *)

LEMMA AreaRange ==
  ASSUME Area!TypeOK
  PROVE  v1 \in Nat /\ v3 \in Nat /\ 1 <= v3 /\ v3 <= v1
<1>1. v1 \in Nat \ {0} /\ v3 \in Area!Parts
  BY DEF Area!TypeOK
<1> QED  BY <1>1 DEF Area!Parts

(* The loops of the parent stay within the parts. *)
LEMMA AreaLoops ==
  ASSUME Area!TypeOK, NEW next, Area!Loops(next), UNCHANGED v1
  PROVE  /\ v3' \in Area!Parts /\ Area!Parts' = Area!Parts
         /\ v3 < v1 => v3' = v3 + 1 /\ v2' = v2
         /\ v3 = v1 => v3' = 1 /\ v2' = next
         /\ v3 < v1 \/ v3 = v1
<1>1. v3 \in Nat /\ 1 <= v3 /\ v1 \in Nat /\ v3 <= v1
  BY AreaRange
<1>2. CASE v3 < v1
  <2>1. v3' = v3 + 1 /\ v2' = v2
    BY <1>2 DEF Area!Loops
  <2>2. v3 + 1 \in Area!Parts
    BY <1>1, <1>2 DEF Area!Parts
  <2> QED  BY <1>1, <1>2, <2>1, <2>2 DEF Area!Parts
<1>3. CASE v3 = v1
  <2>1. v3' = 1 /\ v2' = next
    BY <1>1, <1>3 DEF Area!Loops
  <2> QED  BY <1>1, <1>3, <2>1 DEF Area!Parts
<1> QED  BY <1>1, <1>2, <1>3

LEMMA AreaBegins == ASSUME Area!Init PROVE Area!IInv
BY Bounds DEF Area!Init, Area!IInv, Area!TypeOK, Area!Forking, Area!Files, Area!Waiting,
              Area!Adding, Area!Ending, Area!Parts, Area!Missing, Area!Ended

(* Steps of the parent *)

LEMMA MkdirKeeps == ASSUME Area!IInv, Area!mkdir PROVE Area!IInv'
<1> USE DEF Area!IInv, Area!mkdir, Area!childVars, Area!Parts
<1>1. Area!TypeOK'
  BY DEF Area!TypeOK
<1>2. Area!Forking'
  BY DEF Area!TypeOK, Area!Forking
<1>3. Area!Files'
  BY DEF Area!Files
<1>4. Area!Waiting'
  BY DEF Area!Waiting, Area!Ended
<1>5. Area!Adding'
  BY DEF Area!Adding
<1>6. Area!Ending'
  BY DEF Area!TypeOK, Area!Forking, Area!Files, Area!Ending, Area!Missing
<1> QED  BY <1>1, <1>2, <1>3, <1>4, <1>5, <1>6

LEMMA ForkKeeps == ASSUME Area!IInv, Area!Fork PROVE Area!IInv'
<1> USE DEF Area!IInv, Area!Fork
<1>1. PICK state \in {"new", "unborn"} : v4' = [v4 EXCEPT ![v3] = state]
  OBVIOUS
<1>2. /\ v3' \in Area!Parts /\ Area!Parts' = Area!Parts
      /\ v3 < v1 => v3' = v3 + 1 /\ v2' = v2
      /\ v3 = v1 => v3' = 1 /\ v2' = "wait"
      /\ v3 < v1 \/ v3 = v1
  BY AreaLoops
<1>3. Area!TypeOK'
  BY <1>1, <1>2 DEF Area!TypeOK
<1>4. /\ v4'[v3] = state
      /\ \A p \in Area!Parts : p # v3 => v4'[p] = v4[p]
      /\ v4[v3] = "none"
  BY <1>1 DEF Area!TypeOK, Area!Forking, Area!Parts
<1>5. Area!Forking'
  <2>1. \A p \in Area!Parts : p \in Nat /\ 1 <= p /\ p <= v1
    BY AreaRange DEF Area!Parts
  <2>2. \A p \in Area!Parts : v4'[p] = "none" <=> p >= v3 + 1
    <3>1. \A p \in Area!Parts : v4[p] = "none" <=> p >= v3
      BY DEF Area!Forking
    <3>2. v3 \in Nat
      BY AreaRange
    <3> QED  BY <1>1, <1>4, <2>1, <3>1, <3>2
  <2>3. CASE v3 < v1
    BY <1>2, <2>2, <2>3 DEF Area!Forking, Area!Fork
  <2>4. CASE v3 = v1
    <3>1. \A p \in Area!Parts : v4'[p] # "none"
      BY <2>1, <2>2, <2>4, AreaRange
    <3> QED  BY <1>2, <2>4, <3>1 DEF Area!Forking
  <2> QED  BY <1>2, <2>3, <2>4
<1>6. Area!Files'
  BY <1>1, <1>2, <1>4 DEF Area!TypeOK, Area!Files
<1>7. Area!Waiting'
  <2>1. v5' = {} /\ v2' \in {"fork", "wait"} /\ (v2' = "wait" => v3' = 1)
    BY <1>2 DEF Area!Waiting
  <2>2. 1 .. 1 - 1 = {}
    OBVIOUS
  <2> QED  BY <2>1, <2>2 DEF Area!Waiting
<1>8. Area!Adding'
  BY <1>1, <1>2 DEF Area!Adding
<1>9. Area!Ending'
  BY <1>1, <1>2 DEF Area!Ending
<1> QED  BY <1>3, <1>5, <1>6, <1>7, <1>8, <1>9

LEMMA WaitKeeps == ASSUME Area!IInv, Area!check_children_status PROVE Area!IInv'
<1> DEFINE waited == IF v4[v3] = "unborn" THEN Area!Unreaped ELSE {v3} \cap Area!Unreaped
<1> USE DEF Area!IInv
<1>1. v2 = "wait" /\ UNCHANGED <<v1, v4, v7, v6, v8>> /\ Area!Parts' = Area!Parts
  BY DEF Area!check_children_status, Area!childVars, Area!Parts
<1>2. CASE waited = {} /\ v2' = "failed" /\ UNCHANGED <<v3, v5>>
  <2>1. \E p \in Area!Parts : Area!Missing(p)
    <3>1. CASE v4[v3] = "unborn"
      BY <3>1 DEF Area!TypeOK, Area!Files, Area!Missing
    <3>2. CASE v4[v3] # "unborn"
      <4>1. v3 \in v5
        BY <1>1, <1>2, <3>2 DEF Area!Unreaped, Area!TypeOK, Area!Forking
      <4>2. v3 \notin 1 .. v3 - 1
        BY AreaRange
      <4>3. PICK q \in Area!Parts : v4[q] = "unborn"
        BY <1>1, <4>1, <4>2 DEF Area!Waiting
      <4> QED  BY <4>3 DEF Area!Files, Area!Missing
    <3> QED  BY <3>1, <3>2
  <2>2. Area!TypeOK' /\ Area!Forking' /\ Area!Files'
    BY <1>1, <1>2 DEF Area!TypeOK, Area!Forking, Area!Files
  <2>3. Area!Waiting' /\ Area!Adding'
    BY <1>1, <1>2 DEF Area!Waiting, Area!Ended, Area!Adding
  <2>4. Area!Ending'
    BY <1>1, <1>2, <2>1 DEF Area!Ending, Area!Missing
  <2> QED  BY <2>2, <2>3, <2>4
<1>3. ASSUME NEW p \in waited, Area!Ended(p), v5' = v5 \cup {p},
             IF v4[p] = "failed" THEN v2' = "failed" /\ UNCHANGED v3 ELSE Area!Loops("add")
      PROVE  Area!IInv'
  <2>1. p \in Area!Parts /\ (v4[v3] = "unborn" \/ p = v3)
    BY DEF Area!Unreaped
  <2>2. CASE v4[p] = "failed"
    <3>1. Area!TypeOK' /\ Area!Forking' /\ Area!Files'
      BY <1>1, <1>3, <2>1, <2>2 DEF Area!TypeOK, Area!Forking, Area!Files
    <3>2. Area!Waiting' /\ Area!Adding'
      BY <1>1, <1>3, <2>1, <2>2 DEF Area!Waiting, Area!Ended, Area!Adding
    <3>3. Area!Missing(p)
      BY <2>1, <2>2 DEF Area!Files, Area!Missing
    <3>4. Area!Ending'
      BY <1>1, <1>3, <2>1, <2>2, <3>3 DEF Area!Ending, Area!Missing
    <3> QED  BY <3>1, <3>2, <3>4
  <2>3. CASE v4[p] # "failed"
    <3>1. /\ v3' \in Area!Parts
          /\ v3 < v1 => v3' = v3 + 1 /\ v2' = v2
          /\ v3 = v1 => v3' = 1 /\ v2' = "add"
          /\ v3 < v1 \/ v3 = v1
      BY <1>1, <1>3, <2>3, AreaLoops
    <3>2. Area!TypeOK' /\ Area!Forking' /\ Area!Files'
      BY <1>1, <1>3, <2>1, <3>1 DEF Area!TypeOK, Area!Forking, Area!Files
    <3>3. v5' = 1 .. v3 \/ \E q \in Area!Parts : v4[q] = "unborn"
      <4>1. CASE v4[v3] = "unborn"
        BY <4>1 DEF Area!TypeOK
      <4>2. CASE v4[v3] # "unborn" /\ v5 = 1 .. v3 - 1
        <5>1. p = v3 /\ v3 \in Nat /\ 1 <= v3
          BY <2>1, <4>2, AreaRange
        <5> QED  BY <1>3, <4>2, <5>1
      <4> QED  BY <1>1, <4>1, <4>2 DEF Area!Waiting
    <3>4. \A q \in v5' : Area!Ended(q)'
      BY <1>1, <1>3 DEF Area!Waiting, Area!Ended
    <3>5. Area!Waiting'
      BY <1>1, <3>1, <3>3, <3>4 DEF Area!Waiting, Area!Parts, Area!TypeOK
    <3>6. Area!Adding'
      <4>1. v8' = {} /\ v2' \in {"wait", "add"} /\ (v2' = "add" => v3' = 1)
        BY <1>1, <3>1 DEF Area!Adding
      <4>2. 1 .. 1 - 1 = {}
        OBVIOUS
      <4> QED  BY <4>1, <4>2 DEF Area!Adding
    <3>7. Area!Ending'
      BY <1>1, <3>1 DEF Area!Ending
    <3> QED  BY <3>2, <3>5, <3>6, <3>7
  <2> QED  BY <2>2, <2>3
<1> QED  BY <1>2, <1>3 DEF Area!check_children_status

LEMMA AddKeeps == ASSUME Area!IInv, Area!get_total_area PROVE Area!IInv'
<1> USE DEF Area!IInv
<1>1. v2 = "add" /\ UNCHANGED <<v1, v4, v5, v6>> /\ Area!Parts' = Area!Parts
  BY DEF Area!get_total_area, Area!Parts
<1>2. CASE /\ v7[v3] = "written" /\ v8' = v8 \cup {v3}
           /\ v7' = [v7 EXCEPT ![v3] = "none"] /\ Area!Loops("rmdir")
  <2>1. /\ v3' \in Area!Parts
        /\ v3 < v1 => v3' = v3 + 1 /\ v2' = v2
        /\ v3 = v1 => v3' = 1 /\ v2' = "rmdir"
        /\ v3 < v1 \/ v3 = v1
    BY <1>1, <1>2, AreaLoops
  <2>2. Area!TypeOK' /\ Area!Forking'
    BY <1>1, <1>2, <2>1 DEF Area!TypeOK, Area!Forking
  <2>3. /\ v7'[v3] = "none" /\ v4[v3] \in {"closed", "ok", "killed"}
        /\ \A p \in Area!Parts : p # v3 => v7'[p] = v7[p]
    BY <1>2 DEF Area!TypeOK, Area!Files
  <2>4. Area!Files'
    BY <1>1, <1>2, <2>3 DEF Area!Files
  <2>5. Area!Waiting'
    BY <1>1, <2>1 DEF Area!Waiting, Area!Ended
  <2>6. v8' = 1 .. v3
    <3>1. v3 \in Nat /\ 1 <= v3 /\ v8 = 1 .. v3 - 1
      BY <1>1 DEF Area!TypeOK, Area!Parts, Area!Adding
    <3> QED  BY <1>2, <3>1
  <2>7. Area!Adding'
    BY <1>1, <2>1, <2>6 DEF Area!Adding, Area!TypeOK, Area!Parts
  <2>8. Area!Ending'
    BY <1>1, <2>1 DEF Area!Ending
  <2> QED  BY <2>2, <2>4, <2>5, <2>7, <2>8
<1>3. CASE v7[v3] # "written" /\ v2' = "give up" /\ UNCHANGED <<v3, v7, v8>>
  <2>1. \E p \in Area!Parts : Area!Missing(p)
    <3>1. v3 \in Area!Parts /\ v3 \notin v8
      BY <1>1 DEF Area!TypeOK, Area!Parts, Area!Adding
    <3>2. CASE v3 \in v5
      BY <1>3, <3>1, <3>2 DEF Area!Waiting, Area!Ended, Area!Missing
    <3>3. CASE \E p \in Area!Parts : v4[p] = "unborn"
      BY <3>3 DEF Area!Files, Area!Missing
    <3> QED  BY <1>1, <3>1, <3>2, <3>3 DEF Area!Waiting
  <2>2. Area!TypeOK' /\ Area!Forking' /\ Area!Files'
    BY <1>1, <1>3 DEF Area!TypeOK, Area!Forking, Area!Files
  <2>3. Area!Waiting' /\ Area!Adding'
    BY <1>1, <1>3 DEF Area!Waiting, Area!Ended, Area!Adding
  <2>4. Area!Ending'
    BY <1>1, <1>3, <2>1 DEF Area!Ending, Area!Missing
  <2> QED  BY <2>2, <2>3, <2>4
<1> QED  BY <1>2, <1>3 DEF Area!get_total_area

LEMMA RmdirKeeps == ASSUME Area!IInv, Area!rmdir PROVE Area!IInv'
<1> USE DEF Area!IInv
<1>1. /\ v2 \in {"rmdir", "give up"} /\ Area!Parts' = Area!Parts
      /\ UNCHANGED <<v1, v3, v4, v7, v5, v8>>
      /\ v6' = \E p \in Area!Parts : v7[p] # "none"
      /\ v2' = IF v2 = "rmdir" /\ ~v6' THEN "ended" ELSE "failed"
  BY DEF Area!rmdir, Area!childVars, Area!Parts
<1>2. Area!TypeOK' /\ Area!Forking' /\ Area!Files'
  BY <1>1 DEF Area!TypeOK, Area!Forking, Area!Files
<1>3. Area!Waiting' /\ Area!Adding'
  BY <1>1 DEF Area!Waiting, Area!Ended, Area!Adding
<1>4. v2 = "rmdir" => ~v6'
  BY <1>1 DEF Area!Files, Area!Adding
<1>5. Area!Ending'
  BY <1>1, <1>4 DEF Area!Ending, Area!Missing
<1> QED  BY <1>2, <1>3, <1>5

(* Steps of the children: one that has ended stays as it is, and so does what the parent knows. *)

LEMMA ChildKeeps ==
  ASSUME Area!IInv, NEW p \in Area!Parts,
         Area!OpenPart(p) \/ Area!ClosePart(p) \/ Area!Exit(p) \/ Area!Killed(p)
  PROVE  Area!IInv'
<1> USE DEF Area!IInv
<1>1. PICK state \in {"writes", "failed", "closed", "ok", "killed"}, file \in {"none", "empty", "written"} :
        /\ Area!Becomes(p, state, file)
        /\ v4[p] \in {"new", "writes", "closed"}
        /\ file = "written" => state \in {"closed", "ok", "killed"}
        /\ v4[p] = "closed" => file = v7[p] /\ state \in {"ok", "killed"}
  <2>1. v7[p] \in {"none", "empty", "written"} /\ (v4[p] = "new" => v7[p] # "written")
    BY DEF Area!TypeOK, Area!Files
  <2>2. CASE Area!OpenPart(p)
    BY <2>1, <2>2 DEF Area!OpenPart
  <2>3. CASE Area!ClosePart(p)
    BY <2>1, <2>3 DEF Area!ClosePart
  <2>4. CASE Area!Exit(p)
    BY <2>1, <2>4 DEF Area!Exit
  <2>5. CASE Area!Killed(p)
    BY <2>1, <2>5 DEF Area!Killed
  <2> QED  BY <2>2, <2>3, <2>4, <2>5
<1>2. /\ UNCHANGED <<v1, v2, v3, v5, v6, v8>> /\ Area!Parts' = Area!Parts
      /\ v4' = [v4 EXCEPT ![p] = state] /\ v7' = [v7 EXCEPT ![p] = file]
  BY <1>1 DEF Area!Becomes, Area!Parts
<1>3. /\ v4'[p] = state /\ v7'[p] = file
      /\ \A q \in Area!Parts : q # p => v4'[q] = v4[q] /\ v7'[q] = v7[q]
  BY <1>2 DEF Area!TypeOK
<1>4. Area!TypeOK'
  BY <1>1, <1>2 DEF Area!TypeOK
<1>5. Area!Forking'
  BY <1>1, <1>2, <1>3 DEF Area!Forking
<1>6. Area!Files'
  <2>1. p \in v8 => v4[p] = "closed" /\ file = "none"
    BY <1>1 DEF Area!Files
  <2> QED  BY <1>1, <1>2, <1>3, <2>1 DEF Area!Files
<1>7. Area!Waiting'
  <2>1. p \notin v5
    BY <1>1 DEF Area!Waiting, Area!Ended
  <2>2. \A q \in v5 : v4'[q] = v4[q]
    BY <1>3, <2>1 DEF Area!TypeOK
  <2>3. \A q \in Area!Parts : v4[q] = "unborn" => v4'[q] = "unborn"
    BY <1>1, <1>3
  <2> QED  BY <1>2, <2>2, <2>3 DEF Area!Waiting, Area!Ended
<1>8. Area!Adding'
  BY <1>2 DEF Area!Adding
<1>9. ASSUME NEW q \in Area!Parts, Area!Missing(q)
      PROVE  Area!Missing(q)'
  BY <1>1, <1>2, <1>3, <1>9 DEF Area!Missing
<1>10. Area!Ending'
  BY <1>2, <1>9 DEF Area!Ending
<1> QED  BY <1>4, <1>5, <1>6, <1>7, <1>8, <1>10

LEMMA AreaKeeps == ASSUME Area!IInv, Area!Next PROVE Area!IInv'
BY MkdirKeeps, ForkKeeps, WaitKeeps, AddKeeps, RmdirKeeps, ChildKeeps DEF Area!Next

LEMMA AreaIsWhole == ASSUME Area!IInv PROVE Area!ResultIsWhole
<1> USE DEF Area!IInv
<1>1. CASE v2 = "ended"
  <2>1. v8 = Area!Parts /\ ~v6
    BY <1>1 DEF Area!Adding, Area!Ending
  <2>2. \A p \in Area!Parts : v4[p] # "unborn" /\ v7[p] = "none"
    BY <2>1 DEF Area!Files
  <2>3. \A p \in Area!Parts : Area!Ended(p)
    BY <1>1, <2>2 DEF Area!Waiting
  <2> QED  BY <1>1, <2>1, <2>2, <2>3 DEF Area!ResultIsWhole
<1>2. CASE v2 # "ended"
  BY <1>2 DEF Area!Ending, Area!ResultIsWhole
<1> QED  BY <1>1, <1>2

-------------------------------------------------------------------------------
(* Lab 6, zad2: the chat over POSIX queues, while the server runs and nobody was interrupted *)
(* without an ID: the messages in queues                                                      *)

(* The first of the places is that of CommonLemmas, and no place is marked like a client. *)
LEMMA SameIndices ==
  /\ \A S : Posix!Min(S) = Min(S)
  /\ \A s, i : Posix!RemoveAt(s, i) = RemoveAt(s, i)
BY DEF Posix!Min, Min, Posix!RemoveAt, RemoveAt

LEMMA Slots == MaxClients \in Nat /\ Posix!Free \notin Clients /\ Posix!Failed \notin Clients
BY Bounds, SlotsAreNoClients DEF Posix!Free, Posix!Failed

(* mq_receive finds a first message among those of one queue. *)
LEMMA FirstIsThere ==
  ASSUME NEW S, NEW q \in Seq(S), q # <<>>, \A n \in DOMAIN q : q[n].type \in DOMAIN Posix!msg_type
  PROVE  Posix!First(q) \in DOMAIN q
<1> DEFINE p(k) == Posix!msg_type[q[k].type]
           t(k) == 5 - p(k)
           lowest == {t(k) : k \in DOMAIN q}
           first == {k \in DOMAIN q : t(k) = Min(lowest)}
<1>1. DOMAIN q \in SUBSET Nat /\ DOMAIN q # {}
  <2>1. DOMAIN q = 1 .. Len(q) /\ Len(q) \in Nat /\ Len(q) # 0
    BY SeqIsSeq, EmptySeq
  <2> QED
    BY <2>1
<1>2. \A k \in DOMAIN q : p(k) \in 1 .. 5 /\ Posix!Priority(q[k]) = p(k)
  BY DEF Posix!msg_type, Posix!Priority
<1> HIDE DEF p
<1>3. \A k \in DOMAIN q : t(k) \in Nat
  BY <1>2
<1>4. lowest \in SUBSET Nat /\ lowest # {}
  BY <1>1, <1>3
<1>5. Min(lowest) \in lowest /\ \A x \in lowest : Min(lowest) <= x
  BY <1>4, MinIsElement
<1>6. first \in SUBSET Nat /\ first # {}
  BY <1>1, <1>5
<1>7. Min(first) \in first /\ \A k \in first : Min(first) <= k
  BY <1>6, MinIsElement
<1> DEFINE n == Min(first)
<1>8. /\ n \in DOMAIN q
      /\ \A k \in DOMAIN q : t(n) <= t(k) /\ (t(k) = t(n) => n <= k)
  BY <1>5, <1>7
<1> HIDE DEF n, lowest, first
<1>9. ASSUME NEW k \in DOMAIN q
      PROVE  p(n) > p(k) \/ (p(n) = p(k) /\ n <= k)
  <2>1. p(n) \in 1 .. 5 /\ p(k) \in 1 .. 5 /\ 5 - p(n) <= 5 - p(k) /\ (5 - p(k) = 5 - p(n) => n <= k)
    BY <1>2, <1>8
  <2>2. p(n) = p(k) \/ p(n) > p(k)
    BY <2>1
  <2> QED
    BY <2>1, <2>2
<1>10. \A k \in DOMAIN q : Posix!Priority(q[n]) > Posix!Priority(q[k]) \/ (Posix!Priority(q[n]) = Posix!Priority(q[k]) /\ n <= k)
  BY <1>2, <1>8, <1>9
<1> QED
  BY <1>8, <1>10 DEF Posix!First

(* A queue without its first message has all others, each in one place. *)
LEMMA MessageTaken ==
  ASSUME NEW S, NEW q \in Seq(S), q # <<>>, \A n \in DOMAIN q : q[n].type \in DOMAIN Posix!msg_type,
         NEW rest, rest = Posix!RemoveAt(q, Posix!First(q))
  PROVE  /\ Posix!First(q) \in DOMAIN q /\ rest \in Seq(S)
         /\ \A n \in DOMAIN rest : \E k \in DOMAIN q : k # Posix!First(q) /\ rest[n] = q[k]
         /\ \A k \in DOMAIN q : k # Posix!First(q) => \E n \in DOMAIN rest : rest[n] = q[k]
         /\ \A m, n \in DOMAIN rest : m # n =>
              \E j, k \in DOMAIN q : j # k /\ rest[m] = q[j] /\ rest[n] = q[k]
<1>1. Posix!First(q) \in DOMAIN q
  BY FirstIsThere
<1>2. rest = RemoveAt(q, Posix!First(q))
  BY SameIndices
<1> QED
  BY <1>1, <1>2, RemoveAtMoves

-------------------------------------------------------------------------------
LEMMA ChatBegins ==
  ASSUME Posix!Init
  PROVE  Posix!IInv
<1>1. /\ v1 = [i \in Posix!Ids |-> "free"] /\ v2 = "listen" /\ v3.to = {} /\ v4 = <<>>
      /\ v5 = [c \in Clients |-> <<>>] /\ v7 = [c \in Clients |-> -1]
      /\ v8 = [c \in Clients |-> "start"] /\ v9 = [c \in Clients |-> "none"]
      /\ v10 = [c \in Clients |-> Posix!Hello(c)]
  BY DEF Posix!Init, Posix!Free, Posix!NoId, Posix!Nothing
<1>2. \A c \in Clients : Posix!Hello(c) \in Posix!Requests
  BY DEF Posix!Hello, Posix!Msg, Posix!Parsed, Posix!NoId, Posix!Requests, Posix!msg_type
<1>3. Posix!TypeOK
  BY <1>1, <1>2 DEF Posix!Init, Posix!Nothing, Posix!TypeOK, Posix!Free, Posix!NoId
<1>4. Posix!Working /\ Posix!OneStop /\ \A n \in DOMAIN v4 : Posix!Honest(v4[n])
  BY <1>1 DEF Posix!Working, Posix!OneStop
<1>5. \A c \in Clients : Posix!Talking(c) /\ Posix!Place(c) /\ Posix!Listed(c)
  BY <1>1 DEF Posix!Talking, Posix!Place, Posix!Listed, Posix!NoId
<1> QED
  BY <1>1, <1>3, <1>4, <1>5 DEF Posix!IInv, Posix!Sound

(* Every step leaves clients with an ID and a place of their parent. *)
LEMMA ClientsStay ==
  ASSUME DOMAIN v7 = Clients, DOMAIN v8 = Clients, Posix!Next
  PROVE  DOMAIN v7' = Clients /\ DOMAIN v8' = Clients
BY DEF Posix!Next, Posix!receive_msg, Posix!ServerSends, Posix!ServerSent, Posix!sigint_handler,
   Posix!processVars,
       Posix!setup_queues, Posix!send_INIT, Posix!run, Posix!Polls, Posix!handle_queue_msg,
       Posix!send_STOP,
       Posix!Exit, Posix!exits, Posix!Interrupt, Posix!handle_queue_input, Posix!send_msg_to_server, Posix!send_LIST

(* Once a client was interrupted without an ID, or the server closes, that stays so. *)
LEMMA UnsettledStays ==
  ASSUME DOMAIN v7 = Clients, DOMAIN v8 = Clients, Posix!Next, Posix!Settled'
  PROVE  Posix!Settled
<1>1. v2 \in {"listen", "send"}
  BY DEF Posix!Next, Posix!Settled, Posix!receive_msg, Posix!ServerSends, Posix!ServerSent,
     Posix!sigint_handler,
     Posix!setup_queues, Posix!send_INIT, Posix!run, Posix!Polls, Posix!handle_queue_msg,
     Posix!send_STOP,
     Posix!Exit, Posix!Interrupt, Posix!handle_queue_input, Posix!send_msg_to_server,
     Posix!send_LIST,
     Posix!serverVars
<1>2. ASSUME NEW d \in Clients, Posix!StoppedWithoutId(d)
      PROVE  Posix!StoppedWithoutId(d)'
  BY <1>2, ZenonT(60) DEF Posix!StoppedWithoutId, Posix!Next, Posix!receive_msg, Posix!ServerSends,
     Posix!ServerSent,
     Posix!sigint_handler, Posix!processVars,
     Posix!setup_queues, Posix!send_INIT, Posix!run, Posix!Polls, Posix!handle_queue_msg,
     Posix!send_STOP,
     Posix!Exit, Posix!exits, Posix!Interrupt, Posix!Interrupted, Posix!handle_queue_input,
     Posix!send_msg_to_server, Posix!send_LIST
<1> QED
  BY <1>1, <1>2 DEF Posix!Settled

LEMMA ChatStays == ASSUME Posix!IInv, UNCHANGED Posix!vars PROVE Posix!IInv'
<1>1. UNCHANGED <<v1, v2, v3, v4, v5, v7, v8, v9, v10>>
  BY DEF Posix!vars
<1>2. (Posix!Settled' => Posix!Settled) /\ (DOMAIN v7 = DOMAIN v7' /\ DOMAIN v8 = DOMAIN v8')
  BY <1>1 DEF Posix!Settled, Posix!StoppedWithoutId
<1>3. ASSUME Posix!Sound PROVE Posix!Sound'
  <2>1. Posix!TypeOK' /\ Posix!Working' /\ Posix!OneStop'
    BY <1>1, <1>3 DEF Posix!Sound, Posix!TypeOK, Posix!Working, Posix!OneStop, Posix!Taken
  <2>2. ASSUME NEW c \in Clients PROVE Posix!Talking(c)' /\ Posix!Place(c)' /\ Posix!Listed(c)'
    <3>1. Posix!Talking(c) /\ Posix!Place(c) /\ Posix!Listed(c)
      BY <1>3 DEF Posix!Sound
    <3>2. Posix!Talking(c)' /\ Posix!Place(c)'
      BY <1>1, <3>1 DEF Posix!Talking, Posix!Place
    <3>3. Posix!Listed(c)'
      BY <1>1, <3>1 DEF Posix!Listed
    <3> QED
      BY <3>2, <3>3
  <2>3. \A n \in DOMAIN v4' : Posix!Honest(v4[n])'
    BY <1>1, <1>3 DEF Posix!Sound, Posix!Honest
  <2> QED
    BY <2>1, <2>2, <2>3 DEF Posix!Sound
<1> QED
  BY <1>2, <1>3 DEF Posix!IInv

-------------------------------------------------------------------------------
(* Steps, while the server runs and nobody was interrupted without an ID *)

LEMMA ChatTypes ==
  ASSUME Posix!TypeOK
  PROVE  /\ \A n \in DOMAIN v4 : v4[n] \in Posix!Requests
         /\ \A c \in Clients : /\ v7[c] \in Posix!Ids \cup {Posix!NoId} /\ v5[c] \in Seq(Posix!Replies)
                               /\ \A n \in DOMAIN v5[c] : v5[c][n] \in Posix!Replies
         /\ \A i \in Posix!Ids : v1[i] \in Clients \cup {Posix!Free}
         /\ DOMAIN v1 = Posix!Ids /\ DOMAIN v7 = Clients /\ DOMAIN v5 = Clients
         /\ DOMAIN v8 = Clients /\ DOMAIN v9 = Clients /\ DOMAIN v10 = Clients
<1>1. \A n \in DOMAIN v4 : v4[n] \in Posix!Requests
  BY SeqIsSeq DEF Posix!TypeOK
<1>2. ASSUME NEW c \in Clients
      PROVE  v5[c] \in Seq(Posix!Replies) /\ \A n \in DOMAIN v5[c] : v5[c][n] \in Posix!Replies
  <2>1. v5[c] \in Seq(Posix!Replies)
    BY DEF Posix!TypeOK
  <2> QED
    BY <2>1, SeqIsSeq
<1> QED
  BY <1>1, <1>2 DEF Posix!TypeOK

LEMMA PlaceNumbers == Posix!NoId \notin Posix!Ids /\ \A i \in Posix!Ids : i \in Nat /\ Posix!Parsed(i) = i
BY DEF Posix!NoId, Posix!Ids, Posix!Parsed

LEMMA RequestFields ==
  ASSUME NEW m \in Posix!Requests
  PROVE  m.type \in {"STOP", "LIST", "ALL", "ONE", "INIT"} /\ m.from \in Clients
BY DEF Posix!Requests, Posix!msg_type

(* What is left in the queue of the server when the first message is taken. *)
LEMMA RequestTaken ==
  ASSUME Posix!TypeOK, v4 # <<>>, NEW rest, rest = Posix!RemoveAt(v4, Posix!First(v4))
  PROVE  /\ Posix!First(v4) \in DOMAIN v4 /\ rest \in Seq(Posix!Requests)
         /\ \A n \in DOMAIN rest : \E k \in DOMAIN v4 :
              k # Posix!First(v4) /\ rest[n] = v4[k]
         /\ \A k \in DOMAIN v4 : k # Posix!First(v4) =>
              \E n \in DOMAIN rest : rest[n] = v4[k]
         /\ \A m, n \in DOMAIN rest : m # n =>
              \E j, k \in DOMAIN v4 : j # k /\ rest[m] = v4[j] /\ rest[n] = v4[k]
<1>1. v4 \in Seq(Posix!Requests)
  BY DEF Posix!TypeOK
<1>2. \A n \in DOMAIN v4 : v4[n].type \in DOMAIN Posix!msg_type
  BY ChatTypes DEF Posix!Requests
<1> QED
  BY <1>1, <1>2, MessageTaken

(* What is left in the queue of a client. *)
LEMMA ReplyTaken ==
  ASSUME Posix!TypeOK, NEW c \in Clients, v5[c] # <<>>, NEW rest, rest = Posix!RemoveAt(v5[c], Posix!First(v5[c]))
  PROVE  /\ Posix!First(v5[c]) \in DOMAIN v5[c] /\ rest \in Seq(Posix!Replies)
         /\ \A n \in DOMAIN rest : \E k \in DOMAIN v5[c] : rest[n] = v5[c][k]
         /\ \A k \in DOMAIN v5[c] : k # Posix!First(v5[c]) => \E n \in DOMAIN rest : rest[n] = v5[c][k]
<1>1. v5[c] \in Seq(Posix!Replies)
  BY DEF Posix!TypeOK
<1>2. \A n \in DOMAIN v5[c] : v5[c][n].type \in DOMAIN Posix!msg_type
  BY ChatTypes DEF Posix!Replies, Posix!msg_type
<1> QED
  BY <1>1, <1>2, MessageTaken

(* A message that is taken leaves no second STOP of its sender, and what is left stays honest. *)
LEMMA OneStopLeft ==
  ASSUME Posix!Sound, v4 # <<>>, v4' = Posix!RemoveAt(v4, Posix!First(v4))
  PROVE  Posix!OneStop'
BY RequestTaken DEF Posix!OneStop, Posix!Sound

(* A list that was asked for stays asked for, unless it is what the server now sends. *)
LEMMA StillListed ==
  ASSUME Posix!Sound, v4 # <<>>, v4' = Posix!RemoveAt(v4, Posix!First(v4)),
         v2 = "listen", UNCHANGED <<v5, v7, v8, v9>>, NEW d \in Clients,
         LET m == v4[Posix!First(v4)]
         IN  m.type = "LIST" /\ m.from = d => v3'.type = "LIST" /\ v7[d] \in v3'.to
  PROVE  Posix!Listed(d)'
<1>1. SUFFICES ASSUME v9[d] = "await LIST", v8[d] # "leave"
               PROVE  \/ \E n \in DOMAIN v5[d] : v5[d][n].type = "LIST"
                      \/ \E n \in DOMAIN v4' : v4'[n].type = "LIST" /\ v4'[n].from = d
                      \/ v3'.type = "LIST" /\ v7[d] \in v3'.to
  BY DEF Posix!Listed
<1>2. \/ \E n \in DOMAIN v5[d] : v5[d][n].type = "LIST"
      \/ \E n \in DOMAIN v4 : v4[n].type = "LIST" /\ v4[n].from = d
  BY <1>1 DEF Posix!Sound, Posix!Listed, Posix!Working
<1>3. \A k \in DOMAIN v4 : k # Posix!First(v4) =>
        \E n \in DOMAIN v4' : v4'[n] = v4[k]
  BY RequestTaken DEF Posix!Sound
<1>4. CASE \E n \in DOMAIN v5[d] : v5[d][n].type = "LIST"
  BY <1>4
<1>5. ASSUME NEW k \in DOMAIN v4, v4[k].type = "LIST", v4[k].from = d
      PROVE  \/ \E n \in DOMAIN v4' : v4'[n].type = "LIST" /\ v4'[n].from = d
             \/ v3'.type = "LIST" /\ v7[d] \in v3'.to
  <2>1. CASE k = Posix!First(v4)
    BY <1>5, <2>1
  <2>2. CASE k # Posix!First(v4)
    BY <1>3, <1>5, <2>2
  <2> QED
    BY <2>1, <2>2
<1> QED
  BY <1>2, <1>4, <1>5

(* The server takes a place for a new client. *)
LEMMA InitClientKeeps ==
  ASSUME Posix!Sound, Posix!Settled', Posix!receive_msg,
         NEW m, m = v4[Posix!First(v4)], m.type = "INIT", Posix!init_client(m.from)
  PROVE  Posix!Sound'
<1> DEFINE c == m.from  i == Posix!Min(Posix!Ids \ Posix!Taken)
<1>1. /\ v4 # <<>> /\ v4' = Posix!RemoveAt(v4, Posix!First(v4))
      /\ v2 = "listen" /\ UNCHANGED <<v5, v7, v8, v9, v10>>
  BY DEF Posix!receive_msg, Posix!processVars
<1>2. Posix!TypeOK /\ Posix!First(v4) \in DOMAIN v4 /\ m \in Posix!Requests /\ c \in Clients
  BY <1>1, RequestTaken, ChatTypes, RequestFields DEF Posix!Sound
<1>3. v2' # "closing"
  BY DEF Posix!Settled
<1>4. /\ Posix!Taken # Posix!Ids /\ v1' = [v1 EXCEPT ![i] = c]
      /\ v2' = "send" /\ v3' = [type |-> "INIT", to |-> {i}]
  BY <1>3 DEF Posix!init_client, Posix!EndsListening, Posix!exit_handler, Posix!Sends
<1>5. i \in Posix!Ids /\ v1[i] = Posix!Free
  <2>1. Posix!Ids \ Posix!Taken \in SUBSET Nat /\ Posix!Ids \ Posix!Taken # {}
    BY <1>4, PlaceNumbers DEF Posix!Taken
  <2>2. i \in Posix!Ids \ Posix!Taken
    BY <2>1, MinIsElement, SameIndices
  <2> QED
    BY <2>2 DEF Posix!Taken
<1> HIDE DEF c, i
<1>6. Posix!TypeOK'
  BY <1>1, <1>2, <1>4, <1>5, RequestTaken DEF Posix!TypeOK
<1>7. \A j \in Posix!Ids : v1[j] # Posix!Free => v1'[j] = v1[j]
  BY <1>2, <1>4, <1>5, ChatTypes
<1>8. Posix!Working'
  BY <1>2, <1>4, <1>5, ChatTypes, Slots DEF Posix!Working, Posix!Taken
<1>9. ASSUME NEW d \in Clients PROVE Posix!Talking(d)' /\ Posix!Place(d)' /\ Posix!Listed(d)'
  <2>1. Posix!Talking(d)'
    BY <1>1 DEF Posix!Sound, Posix!Talking
  <2>2. Posix!Place(d)'
    <3>1. v7[d] # Posix!NoId => v7[d] \in Posix!Ids
      BY <1>2, ChatTypes
    <3>2. \A n \in DOMAIN v5[d] : v5[d][n].id \in Posix!Ids
      BY <1>2, ChatTypes DEF Posix!Replies
    <3> QED
      BY <1>1, <1>7, <3>1, <3>2, Slots DEF Posix!Sound, Posix!Place
  <2>3. Posix!Listed(d)'
    BY <1>1, StillListed
  <2> QED
    BY <2>1, <2>2, <2>3
<1>10. ASSUME NEW n \in DOMAIN v4' PROVE Posix!Honest(v4[n])'
  <2>1. PICK k \in DOMAIN v4 : v4'[n] = v4[k]
    BY <1>1, <1>2, RequestTaken
  <2>2. Posix!Honest(v4[k]) /\ v4[k].from \in Clients
    BY <1>2, ChatTypes, RequestFields DEF Posix!Sound
  <2> QED
    BY <1>1, <1>7, <2>1, <2>2, Slots DEF Posix!Honest
<1> QED
  BY <1>1, <1>6, <1>8, <1>9, <1>10, OneStopLeft DEF Posix!Sound

(* The server frees the place of the client that has sent STOP, and no other. *)
LEMMA StopClientKeeps ==
  ASSUME Posix!Sound, Posix!Settled', Posix!receive_msg,
         NEW m, m = v4[Posix!First(v4)], m.type = "STOP", Posix!stop_client(m.sender)
  PROVE  Posix!Sound'
<1> DEFINE c == m.from  i == m.sender
<1>1. /\ v4 # <<>> /\ v4' = Posix!RemoveAt(v4, Posix!First(v4))
      /\ v2 = "listen" /\ UNCHANGED <<v5, v7, v8, v9, v10>>
  BY DEF Posix!receive_msg, Posix!processVars
<1>2. Posix!TypeOK /\ Posix!First(v4) \in DOMAIN v4 /\ m \in Posix!Requests /\ c \in Clients
  BY <1>1, RequestTaken, ChatTypes, RequestFields DEF Posix!Sound
<1>3. v8[c] \in {"leave", "left"} /\ i \in Posix!Ids /\ v1[i] = c /\ v7[c] # Posix!NoId
  BY <1>2 DEF Posix!Sound, Posix!Honest
<1>4. /\ v1' = [v1 EXCEPT ![i] = Posix!Free]
      /\ v2' = "send" /\ v3' = Posix!Nothing
  BY <1>3 DEF Posix!stop_client, Posix!EndsListening, Posix!exit_handler, Posix!Settled
<1> HIDE DEF c, i
<1>5. Posix!TypeOK'
  BY <1>1, <1>2, <1>3, <1>4, RequestTaken DEF Posix!TypeOK, Posix!Nothing
<1>6. \A j \in Posix!Ids : v1[j] # c => v1'[j] = v1[j]
  BY <1>2, <1>3, <1>4, ChatTypes
<1>7. Posix!Working'
  BY <1>4 DEF Posix!Working, Posix!Nothing
<1>8. ASSUME NEW d \in Clients PROVE Posix!Talking(d)' /\ Posix!Place(d)' /\ Posix!Listed(d)'
  <2>1. Posix!Talking(d)'
    BY <1>1 DEF Posix!Sound, Posix!Talking
  <2>2. Posix!Place(d)'
    <3>1. v7[d] # Posix!NoId => v7[d] \in Posix!Ids
      BY <1>2, ChatTypes
    <3>2. \A n \in DOMAIN v5[d] : v5[d][n].id \in Posix!Ids
      BY <1>2, ChatTypes DEF Posix!Replies
    <3> QED
      BY <1>1, <1>3, <1>6, <3>1, <3>2 DEF Posix!Sound, Posix!Place
  <2>3. Posix!Listed(d)'
    BY <1>1, StillListed
  <2> QED
    BY <2>1, <2>2, <2>3
<1>9. ASSUME NEW n \in DOMAIN v4' PROVE Posix!Honest(v4[n])'
  <2>1. PICK k \in DOMAIN v4 : k # Posix!First(v4) /\ v4'[n] = v4[k]
    BY <1>1, <1>2, RequestTaken
  <2>2. Posix!Honest(v4[k]) /\ (v4[k].type = "STOP" => v4[k].from # c)
    BY <1>2, <2>1 DEF Posix!Sound, Posix!OneStop, c
  <2> QED
    BY <1>1, <1>6, <2>1, <2>2 DEF Posix!Honest
<1> QED
  BY <1>1, <1>5, <1>7, <1>8, <1>9, OneStopLeft DEF Posix!Sound

(* The server has something to send to clients it knows. *)
LEMMA SendKeeps ==
  ASSUME Posix!Sound, Posix!receive_msg, NEW m, m = v4[Posix!First(v4)],
         m.type \in {"ONE", "ALL", "LIST"}, NEW type \in {"ONE", "LIST"},
         NEW places \in SUBSET Posix!Taken,
         Posix!Sends(type, places), UNCHANGED v1,
         m.type = "LIST" => type = "LIST" /\ places = {m.sender}
  PROVE  Posix!Sound'
<1>1. /\ v4 # <<>> /\ v4' = Posix!RemoveAt(v4, Posix!First(v4))
      /\ v2 = "listen" /\ UNCHANGED <<v5, v7, v8, v9, v10>>
  BY DEF Posix!receive_msg, Posix!processVars
<1>2. Posix!TypeOK /\ Posix!First(v4) \in DOMAIN v4
  BY <1>1, RequestTaken DEF Posix!Sound
<1>3. Posix!TypeOK'
  BY <1>1, <1>2, RequestTaken DEF Posix!TypeOK, Posix!Sends, Posix!Taken
<1>4. Posix!Working'
  BY DEF Posix!Sends, Posix!Working, Posix!Taken
<1>5. ASSUME NEW d \in Clients PROVE Posix!Talking(d)' /\ Posix!Place(d)' /\ Posix!Listed(d)'
  <2>1. Posix!Talking(d)'
    BY <1>1 DEF Posix!Sound, Posix!Talking
  <2>2. Posix!Place(d)'
    BY <1>1 DEF Posix!Sound, Posix!Place
  <2>3. Posix!Listed(d)'
    <3>1. m.type = "LIST" /\ m.from = d => v3'.type = "LIST" /\ v7[d] \in v3'.to
      BY <1>2 DEF Posix!Sound, Posix!Honest, Posix!Sends
    <3> QED
      BY <1>1, <3>1, StillListed
  <2> QED
    BY <2>1, <2>2, <2>3
<1>6. ASSUME NEW n \in DOMAIN v4' PROVE Posix!Honest(v4[n])'
  <2>1. PICK k \in DOMAIN v4 : v4'[n] = v4[k]
    BY <1>1, <1>2, RequestTaken
  <2> QED
    BY <1>1, <2>1 DEF Posix!Sound, Posix!Honest
<1> QED
  BY <1>1, <1>3, <1>4, <1>5, <1>6, OneStopLeft DEF Posix!Sound

LEMMA ReceiveKeeps == ASSUME Posix!Sound, Posix!Settled', Posix!receive_msg PROVE Posix!Sound'
<1> DEFINE m == v4[Posix!First(v4)]
<1>1. v2' # "closing"
  BY DEF Posix!Settled
<1>2. CASE m.type = "INIT" /\ Posix!init_client(m.from)
  BY <1>2, InitClientKeeps
<1>3. CASE m.type = "STOP" /\ Posix!stop_client(m.sender)
  BY <1>3, StopClientKeeps
<1>4. CASE m.type = "ALL" /\ Posix!send_to_all(m.sender)
  <2>1. Posix!Sends("ONE", Posix!Taken \ {m.sender}) /\ UNCHANGED v1
    BY <1>4 DEF Posix!send_to_all
  <2> QED
    BY <1>4, <2>1, SendKeeps
<1>5. CASE m.type = "ONE" /\ Posix!send_to_one(m.receiver)
  <2>1. m.receiver \in Posix!Taken /\ Posix!Sends("ONE", {m.receiver}) /\ UNCHANGED v1
    BY <1>1, <1>5 DEF Posix!send_to_one, Posix!EndsListening, Posix!exit_handler
  <2> QED
    BY <1>5, <2>1, SendKeeps
<1>6. CASE m.type = "LIST" /\ Posix!list_all_active_clients(m.sender)
  <2>1. m.sender \in Posix!Taken /\ Posix!Sends("LIST", {m.sender}) /\ UNCHANGED v1
    BY <1>1, <1>6 DEF Posix!list_all_active_clients, Posix!EndsListening, Posix!exit_handler
  <2> QED
    BY <1>6, <2>1, SendKeeps
<1> QED
  BY <1>2, <1>3, <1>4, <1>5, <1>6 DEF Posix!receive_msg

(* The server sends to the first of the places that are left. *)
LEMMA ServerSendsKeeps == ASSUME Posix!Sound, Posix!Settled, Posix!ServerSends PROVE Posix!Sound'
<1> DEFINE i == Posix!Min(v3.to)  c == v1[i]
<1>1. /\ v3.to # {} /\ v3.to \subseteq Posix!Taken /\ v3.type \in {"INIT", "ONE", "LIST"} /\ Posix!TypeOK
      /\ UNCHANGED <<v1, v2, v4, v7, v8, v9, v10>>
      /\ v3' = [v3 EXCEPT !.to = @ \ {i}] /\ v2 = "send"
  BY DEF Posix!ServerSends, Posix!processVars, Posix!Sound, Posix!Working, Posix!Settled,
     Posix!TypeOK
<1>2. i \in v3.to /\ i \in Posix!Ids /\ c \in Clients
  <2>1. v3.to \in SUBSET Nat
    BY <1>1, PlaceNumbers DEF Posix!Taken
  <2>2. i \in v3.to
    BY <1>1, <2>1, MinIsElement, SameIndices
  <2> QED
    BY <1>1, <2>2, ChatTypes DEF Posix!Taken
<1> DEFINE r == [type |-> v3.type, id |-> i]
<1>3. v5' = [v5 EXCEPT ![c] = Append(@, r)] /\ r \in Posix!Replies
  <2>1. Posix!Reply(v3.type, i) = r
    BY <1>1 DEF Posix!Reply
  <2>2. v5' = [v5 EXCEPT ![c] = Append(@, Posix!Reply(v3.type, i))]
    BY <1>2, Slots DEF Posix!ServerSends
  <2> QED
    BY <1>1, <1>2, <2>1, <2>2 DEF Posix!Replies
<1>4. c = v1[i] /\ r.type = v3.type /\ r.id = i
  OBVIOUS
<1>5. /\ v3'.type = v3.type /\ v3'.to \subseteq v3.to /\ \A j \in v3.to : j # i => j \in v3'.to
      /\ v3' \in [type : {"none", "INIT", "ONE", "LIST"}, to : SUBSET Posix!Ids]
  <2>1. v3 \in [type : {"none", "INIT", "ONE", "LIST"}, to : SUBSET Posix!Ids]
    BY <1>1 DEF Posix!TypeOK
  <2> QED
    BY <1>1, <2>1
<1> HIDE DEF c, i, r
<1>6. /\ v5[c] \in Seq(Posix!Replies) /\ v5'[c] = Append(v5[c], r)
      /\ \A d \in Clients : d # c => v5'[d] = v5[d]
  BY <1>1, <1>2, <1>3, ChatTypes
<1>7. /\ v5'[c] \in Seq(Posix!Replies)
      /\ \A n \in DOMAIN v5'[c] : (n \in DOMAIN v5[c] /\ v5'[c][n] = v5[c][n]) \/ v5'[c][n] = r
      /\ \A n \in DOMAIN v5[c] : n \in DOMAIN v5'[c] /\ v5'[c][n] = v5[c][n]
      /\ \E n \in DOMAIN v5'[c] : v5'[c][n] = r
  BY <1>3, <1>6, AppendKeeps
<1>8. Posix!TypeOK'
  BY <1>1, <1>2, <1>3, <1>5, <1>6, <1>7 DEF Posix!TypeOK
<1>9. Posix!Working'
  BY <1>1, <1>5 DEF Posix!Working, Posix!Taken
<1>10. Posix!OneStop' /\ \A n \in DOMAIN v4' : Posix!Honest(v4[n])'
  BY <1>1 DEF Posix!Sound, Posix!OneStop, Posix!Honest
<1>11. ASSUME NEW d \in Clients PROVE Posix!Talking(d)' /\ Posix!Place(d)' /\ Posix!Listed(d)'
  <2>1. Posix!Talking(d)'
    BY <1>1 DEF Posix!Sound, Posix!Talking
  <2>2. Posix!Place(d)'
    <3>1. Posix!Place(d)
      BY DEF Posix!Sound
    <3>2. ASSUME v7[d] = Posix!NoId, NEW n \in DOMAIN v5'[d]
          PROVE  v1[v5'[d][n].id] = d
      <4>1. CASE d = c
        BY <1>4, <1>7, <3>1, <3>2, <4>1 DEF Posix!Place
      <4>2. CASE d # c
        BY <1>6, <3>1, <3>2, <4>2 DEF Posix!Place
      <4> QED
        BY <4>1, <4>2
    <3> QED
      BY <1>1, <3>1, <3>2 DEF Posix!Place
  <2>3. Posix!Listed(d)'
    <3> SUFFICES ASSUME v9[d] = "await LIST", v8[d] # "leave"
                 PROVE  \/ \E n \in DOMAIN v5'[d] : v5'[d][n].type = "LIST"
                        \/ \E n \in DOMAIN v4 : v4[n].type = "LIST" /\ v4[n].from = d
                        \/ v3'.type = "LIST" /\ v7[d] \in v3'.to
      BY <1>1 DEF Posix!Listed
    <3>1. v1[v7[d]] = d
      BY DEF Posix!Sound, Posix!Talking, Posix!Place
    <3>2. \A n \in DOMAIN v5[d] : \E k \in DOMAIN v5'[d] : v5'[d][k] = v5[d][n]
      BY <1>6, <1>7
    <3>3. CASE v3.type = "LIST" /\ v7[d] = i
      <4>1. d = c
        BY <1>4, <3>1, <3>3
      <4> QED
        BY <1>4, <1>7, <3>3, <4>1
    <3>4. CASE ~(v3.type = "LIST" /\ v7[d] = i)
      <4>1. Posix!Listed(d)
        BY DEF Posix!Sound
      <4>2. \/ \E n \in DOMAIN v5[d] : v5[d][n].type = "LIST"
            \/ \E n \in DOMAIN v4 : v4[n].type = "LIST" /\ v4[n].from = d
            \/ v3.type = "LIST" /\ v7[d] \in v3.to
        BY <4>1 DEF Posix!Listed
      <4>3. CASE \E n \in DOMAIN v5[d] : v5[d][n].type = "LIST"
        BY <3>2, <4>3
      <4>4. CASE v3.type = "LIST" /\ v7[d] \in v3.to
        BY <1>5, <3>4, <4>4
      <4> QED
        BY <4>2, <4>3, <4>4
    <3> QED
      BY <3>3, <3>4
  <2> QED
    BY <2>1, <2>2, <2>3
<1> QED
  BY <1>8, <1>9, <1>10, <1>11 DEF Posix!Sound

LEMMA ServerSentKeeps == ASSUME Posix!Sound, Posix!ServerSent PROVE Posix!Sound'
<1>1. /\ UNCHANGED <<v1, v3, v4, v5, v7, v8, v9, v10>> /\ v3.to = {}
  BY DEF Posix!ServerSent, Posix!processVars
<1>2. Posix!TypeOK' /\ Posix!Working' /\ Posix!OneStop'
  BY <1>1 DEF Posix!Sound, Posix!TypeOK, Posix!Working, Posix!OneStop, Posix!Taken
<1>3. ASSUME NEW c \in Clients PROVE Posix!Talking(c)' /\ Posix!Place(c)' /\ Posix!Listed(c)'
  <2>1. Posix!Talking(c) /\ Posix!Place(c) /\ Posix!Listed(c)
    BY DEF Posix!Sound
  <2>2. Posix!Talking(c)' /\ Posix!Place(c)'
    BY <1>1, <2>1 DEF Posix!Talking, Posix!Place
  <2>3. Posix!Listed(c)'
    BY <1>1, <2>1 DEF Posix!Listed
  <2> QED
    BY <2>2, <2>3
<1>4. \A n \in DOMAIN v4' : Posix!Honest(v4[n])'
  BY <1>1 DEF Posix!Sound, Posix!Honest
<1> QED
  BY <1>2, <1>3, <1>4 DEF Posix!Sound

-------------------------------------------------------------------------------
(* Steps of a client *)

(* A client changes nothing of another one; it keeps its ID, and that it leaves. *)
OthersUntouched(c) ==
  /\ UNCHANGED <<v1, v2, v3>>
  /\ \A d \in Clients : d # c => /\ v7'[d] = v7[d] /\ v8'[d] = v8[d] /\ v9'[d] = v9[d]
                                 /\ v10'[d] = v10[d] /\ v5'[d] = v5[d]
  /\ v7[c] # Posix!NoId => v7'[c] = v7[c]
  /\ v8[c] \in {"leave", "left"} => v8'[c] \in {"leave", "left"}

LEMMA StaysHonest ==
  ASSUME NEW c \in Clients, OthersUntouched(c), NEW m \in Posix!Requests, Posix!Honest(m)
  PROVE  Posix!Honest(m)'
BY RequestFields DEF OthersUntouched, Posix!Honest

LEMMA OthersKeep ==
  ASSUME Posix!Sound, NEW c \in Clients, OthersUntouched(c), NEW d \in Clients, d # c,
         \A k \in DOMAIN v4 : \E n \in DOMAIN v4' : v4'[n] = v4[k]
  PROVE  Posix!Talking(d)' /\ Posix!Place(d)' /\ Posix!Listed(d)'
<1>1. Posix!Talking(d) /\ Posix!Place(d) /\ Posix!Listed(d)
  BY DEF Posix!Sound
<1>2. /\ UNCHANGED <<v1, v3>> /\ v7'[d] = v7[d] /\ v8'[d] = v8[d] /\ v9'[d] = v9[d]
      /\ v10'[d] = v10[d] /\ v5'[d] = v5[d]
  BY DEF OthersUntouched
<1>3. Posix!Talking(d)'
  BY <1>1, <1>2 DEF Posix!Talking
<1>4. Posix!Place(d)'
  BY <1>1, <1>2 DEF Posix!Place
<1>5. Posix!Listed(d)'
  BY <1>1, <1>2 DEF Posix!Listed
<1> QED
  BY <1>3, <1>4, <1>5

(* A client that sends nothing. *)
LEMMA ClientKeeps ==
  ASSUME Posix!Sound, NEW c \in Clients, OthersUntouched(c), Posix!TypeOK', UNCHANGED v4,
         Posix!Talking(c)', Posix!Place(c)', Posix!Listed(c)'
  PROVE  Posix!Sound'
<1>1. Posix!Working' /\ Posix!OneStop'
  BY DEF Posix!Sound, OthersUntouched, Posix!Working, Posix!OneStop, Posix!Taken
<1>2. ASSUME NEW d \in Clients PROVE Posix!Talking(d)' /\ Posix!Place(d)' /\ Posix!Listed(d)'
  BY OthersKeep
<1>3. ASSUME NEW n \in DOMAIN v4' PROVE Posix!Honest(v4[n])'
  <2>1. n \in DOMAIN v4 /\ Posix!Honest(v4[n]) /\ v4[n] \in Posix!Requests
    BY ChatTypes DEF Posix!Sound
  <2> QED
    BY <2>1, StaysHonest
<1> QED
  BY <1>1, <1>2, <1>3 DEF Posix!Sound

(* A client that sends a message to the server. *)
LEMMA ClientPosts ==
  ASSUME Posix!Sound, NEW c \in Clients, OthersUntouched(c), NEW m \in Posix!Requests,
  v4' = Append(v4, m),
         Posix!TypeOK', Posix!Talking(c)', Posix!Place(c)', Posix!Listed(c)', Posix!Honest(m)',
         m.type = "STOP" => m.from = c /\ v8[c] \notin {"leave", "left"}
  PROVE  Posix!Sound'
<1>1. v4 \in Seq(Posix!Requests)
  BY DEF Posix!Sound, Posix!TypeOK
<1>2. /\ DOMAIN v4' = DOMAIN v4 \cup {Len(v4) + 1}
      /\ v4'[Len(v4) + 1] = m
      /\ \A n \in DOMAIN v4 : v4'[n] = v4[n] /\ n \in DOMAIN v4'
  BY <1>1, AppendKeeps
<1>3. Posix!Working'
  BY DEF Posix!Sound, OthersUntouched, Posix!Working, Posix!Taken
<1>4. Posix!OneStop'
  <2>1. \A n \in DOMAIN v4 : v4[n].type = "STOP" =>
          v8[v4[n].from] \in {"leave", "left"}
    BY DEF Posix!Sound, Posix!Honest
  <2> QED
    BY <1>2, <2>1 DEF Posix!Sound, Posix!OneStop
<1>5. ASSUME NEW d \in Clients PROVE Posix!Talking(d)' /\ Posix!Place(d)' /\ Posix!Listed(d)'
  BY <1>2, OthersKeep
<1>6. ASSUME NEW n \in DOMAIN v4' PROVE Posix!Honest(v4[n])'
  <2>1. CASE n \in DOMAIN v4
    <3>1. Posix!Honest(v4[n]) /\ v4[n] \in Posix!Requests /\ v4'[n] = v4[n]
      BY <1>2, <2>1, ChatTypes DEF Posix!Sound
    <3>2. \A x \in Posix!Requests : Posix!Honest(x) => Posix!Honest(x)'
      BY StaysHonest
    <3> QED
      BY <3>1, <3>2 DEF Posix!Honest
  <2>2. CASE n = Len(v4) + 1
    BY <1>2, <2>2 DEF Posix!Honest
  <2> QED
    BY <1>2, <2>1, <2>2
<1> QED
  BY <1>3, <1>4, <1>5, <1>6 DEF Posix!Sound

LEMMA ClientFacts ==
  ASSUME Posix!Sound, NEW c \in Clients
  PROVE  /\ Posix!TypeOK /\ Posix!Talking(c) /\ Posix!Place(c) /\ Posix!Listed(c) /\ v7[c] \in Posix!Ids \cup {Posix!NoId}
         /\ v5[c] \in Seq(Posix!Replies) /\ DOMAIN v5 = Clients /\ DOMAIN v7 = Clients
         /\ DOMAIN v8 = Clients /\ DOMAIN v9 = Clients /\ DOMAIN v10 = Clients
BY ChatTypes DEF Posix!Sound

(* The message a client takes from its queue. *)
LEMMA TakesOne ==
  ASSUME Posix!Sound, NEW c \in Clients, Posix!Takes(c), v5[c] # <<>>
  PROVE  /\ v5' \in [Clients -> Seq(Posix!Replies)] /\ \A d \in Clients : d # c => v5'[d] = v5[d]
         /\ Posix!First(v5[c]) \in DOMAIN v5[c] /\ Posix!Next_in(c) \in Posix!Replies
         /\ \A k \in DOMAIN v5[c] : v5[c][k] = Posix!Next_in(c)
              \/ \E n \in DOMAIN v5'[c] : v5'[c][n] = v5[c][k]
<1> DEFINE rest == Posix!RemoveAt(v5[c], Posix!First(v5[c]))
<1>1. Posix!TypeOK /\ v5 \in [Clients -> Seq(Posix!Replies)]
  BY DEF Posix!Sound, Posix!TypeOK
<1>2. v5' = [v5 EXCEPT ![c] = rest]
  BY <1>1 DEF Posix!Takes
<1>3. /\ Posix!First(v5[c]) \in DOMAIN v5[c] /\ rest \in Seq(Posix!Replies)
      /\ \A k \in DOMAIN v5[c] : k # Posix!First(v5[c]) => \E n \in DOMAIN rest : rest[n] = v5[c][k]
  BY <1>1, ReplyTaken
<1>4. Posix!Next_in(c) = v5[c][Posix!First(v5[c])] /\ Posix!Next_in(c) \in Posix!Replies
  BY <1>1, <1>3, ChatTypes DEF Posix!Next_in
<1> HIDE DEF rest
<1> QED
  BY <1>1, <1>2, <1>3, <1>4

(* Steps of a parent that touch no queue, and SIGINT. *)
LEMMA ParentMoves ==
  ASSUME Posix!Sound, Posix!Settled, Posix!Settled', NEW c \in Clients,
         Posix!setup_queues(c) \/ Posix!Polls(c) \/ Posix!Exit(c) \/ Posix!Interrupt(c)
  PROVE  Posix!Sound'
<1>1. /\ Posix!TypeOK /\ Posix!Talking(c) /\ Posix!Place(c) /\ Posix!Listed(c) /\ DOMAIN v8 = Clients /\ DOMAIN v9 = Clients
  BY ClientFacts
<1>2. UNCHANGED <<Posix!serverVars, v4, v5, v7, v10>>
  BY DEF Posix!setup_queues, Posix!Polls, Posix!Exit, Posix!Interrupt
<1>3. ~Posix!StoppedWithoutId(c) /\ ~Posix!StoppedWithoutId(c)'
  BY DEF Posix!Settled
<1>4. \/ v8[c] = "start" /\ v8' = [v8 EXCEPT ![c] = "send"] /\ v9' = v9
      \/ v8[c] = "poll" /\ v8' = [v8 EXCEPT ![c] = "receive"] /\ v9' = v9
      \/ v8[c] = "leave" /\ v8' = [v8 EXCEPT ![c] = "left"] /\ v9' = [v9 EXCEPT ![c] = "gone"]
      \/ /\ v8[c] \notin {"start", "stop", "leave", "left"} /\ v7[c] # Posix!NoId
         /\ v8' = [v8 EXCEPT ![c] = "stop"] /\ v9' = v9
  <2>1. CASE Posix!setup_queues(c)
    BY <2>1 DEF Posix!setup_queues
  <2>2. CASE Posix!Polls(c)
    BY <2>2 DEF Posix!Polls
  <2>3. CASE Posix!Exit(c)
    <3>1. v7[c] # Posix!NoId /\ v9[c] # "none"
      BY <1>1, <1>3, <2>3 DEF Posix!Exit, Posix!StoppedWithoutId, Posix!Talking
    <3> QED
      BY <1>1, <2>3, <3>1 DEF Posix!Exit, Posix!exits
  <2>4. CASE Posix!Interrupt(c)
    <3>1. /\ v8[c] \notin {"start", "stop", "leave", "left"} /\ v8' = [v8 EXCEPT ![c] = "stop"]
          /\ v9' = v9
      BY <1>1, <2>4 DEF Posix!Interrupt, Posix!Interrupted
    <3>2. v7[c] # Posix!NoId
      BY <1>1, <1>2, <1>3, <3>1 DEF Posix!StoppedWithoutId
    <3> QED
      BY <3>1, <3>2
  <2> QED
    BY <2>1, <2>2, <2>3, <2>4
<1>5. Posix!TypeOK'
  BY <1>1, <1>2, <1>4 DEF Posix!TypeOK, Posix!serverVars
<1>6. OthersUntouched(c)
  BY <1>1, <1>2, <1>4 DEF OthersUntouched, Posix!serverVars
<1>7. Posix!Talking(c)'
  BY <1>1, <1>2, <1>4 DEF Posix!Talking
<1>8. Posix!Place(c)'
  BY <1>1, <1>2, <1>4 DEF Posix!Place, Posix!serverVars
<1>9. Posix!Listed(c)'
  BY <1>1, <1>2, <1>4 DEF Posix!Listed, Posix!serverVars, Posix!Talking
<1> QED
  BY <1>2, <1>5, <1>6, <1>7, <1>8, <1>9, ClientKeeps

LEMMA RunKeeps == ASSUME Posix!Sound, NEW c \in Clients, Posix!run(c) PROVE Posix!Sound'
<1>1. /\ Posix!TypeOK /\ Posix!Talking(c) /\ Posix!Place(c) /\ DOMAIN v7 = Clients
      /\ DOMAIN v8 = Clients /\ DOMAIN v9 = Clients
  BY ClientFacts
<1>2. /\ v8[c] = "await INIT" /\ v5[c] # <<>> /\ Posix!Takes(c) /\ UNCHANGED <<Posix!serverVars, v4, v10>>
      /\ v7' = [v7 EXCEPT ![c] = Posix!Next_in(c).id]
      /\ v8' = [v8 EXCEPT ![c] = "poll"] /\ v9' = [v9 EXCEPT ![c] = "input"]
  BY DEF Posix!run
<1>3. /\ v5' \in [Clients -> Seq(Posix!Replies)] /\ \A d \in Clients : d # c => v5'[d] = v5[d]
      /\ Posix!First(v5[c]) \in DOMAIN v5[c] /\ Posix!Next_in(c) \in Posix!Replies
  BY <1>2, TakesOne
<1>4. v7[c] = Posix!NoId
  BY <1>1, <1>2 DEF Posix!Talking
<1>5. v7'[c] = Posix!Next_in(c).id /\ v7'[c] \in Posix!Ids /\ v7'[c] # Posix!NoId /\ v1[v7'[c]] = c
  BY <1>1, <1>2, <1>3, <1>4, PlaceNumbers DEF Posix!Place, Posix!Next_in, Posix!Replies
<1>6. Posix!TypeOK'
  <2>1. v7' \in [Clients -> Posix!Ids \cup {Posix!NoId}]
    BY <1>1, <1>2, <1>5 DEF Posix!TypeOK
  <2> QED
    BY <1>1, <1>2, <1>3, <2>1 DEF Posix!TypeOK, Posix!serverVars
<1>7. OthersUntouched(c)
  BY <1>1, <1>2, <1>3, <1>4 DEF OthersUntouched, Posix!serverVars
<1>8. Posix!Talking(c)' /\ Posix!Listed(c)'
  BY <1>1, <1>2, <1>5 DEF Posix!Talking, Posix!Listed
<1>9. Posix!Place(c)'
  BY <1>2, <1>5 DEF Posix!Place, Posix!serverVars
<1> QED
  BY <1>2, <1>6, <1>7, <1>8, <1>9, ClientKeeps

(* What a parent or its child reads later. *)
LEMMA ClientReads ==
  ASSUME Posix!Sound, NEW c \in Clients, Posix!handle_queue_msg(c) \/ Posix!send_LIST(c)
  PROVE  Posix!Sound'
<1>1. /\ Posix!TypeOK /\ Posix!Talking(c) /\ Posix!Place(c) /\ Posix!Listed(c)
      /\ DOMAIN v8 = Clients /\ DOMAIN v9 = Clients
  BY ClientFacts
<1>2. v5[c] # <<>> /\ Posix!Takes(c) /\ UNCHANGED <<Posix!serverVars, v4, v7, v10>>
  BY DEF Posix!handle_queue_msg, Posix!send_LIST
<1>3. /\ v5' \in [Clients -> Seq(Posix!Replies)] /\ \A d \in Clients : d # c => v5'[d] = v5[d]
      /\ \A k \in DOMAIN v5[c] : v5[c][k] = Posix!Next_in(c)
           \/ \E n \in DOMAIN v5'[c] : v5'[c][n] = v5[c][k]
  BY <1>2, TakesOne
<1>4. v9[c] # "none" /\ v7[c] # Posix!NoId
  BY <1>1 DEF Posix!handle_queue_msg, Posix!send_LIST, Posix!Talking
<1>5. \/ /\ v8[c] = "receive" /\ Posix!Next_in(c).type = "ONE"
         /\ v8' = [v8 EXCEPT ![c] = "poll"] /\ v9' = v9
      \/ /\ v8[c] = "receive"
         /\ v8' = [v8 EXCEPT ![c] = "left"] /\ v9' = [v9 EXCEPT ![c] = "gone"]
      \/ /\ v9[c] = "await LIST" /\ v8' = v8 /\ v9' = [v9 EXCEPT ![c] = "input"]
  BY <1>1, <1>4 DEF Posix!handle_queue_msg, Posix!exits, Posix!send_LIST
<1>6. Posix!TypeOK'
  BY <1>1, <1>2, <1>3, <1>5, ZenonT(60) DEF Posix!TypeOK, Posix!serverVars
<1>7. OthersUntouched(c)
  BY <1>1, <1>2, <1>3, <1>4, <1>5 DEF OthersUntouched, Posix!serverVars
<1>8. Posix!Talking(c)'
  BY <1>1, <1>2, <1>4, <1>5 DEF Posix!Talking
<1>9. Posix!Place(c)'
  BY <1>1, <1>2, <1>4, <1>5 DEF Posix!Place, Posix!serverVars
<1>10. Posix!Listed(c)'
  BY <1>1, <1>2, <1>3, <1>5, ZenonT(60) DEF Posix!Listed, Posix!serverVars
<1> QED
  BY <1>2, <1>6, <1>7, <1>8, <1>9, <1>10, ClientKeeps

LEMMA CommandFacts ==
  ASSUME NEW c \in Clients, v7[c] \in Posix!Ids, NEW m \in Posix!Commands(c)
  PROVE  /\ m \in Posix!Requests /\ m.from = c /\ m.type \in {"LIST", "ALL", "ONE"}
         /\ m.type = "LIST" => m.sender = v7[c]
<1>1. ASSUME NEW type \in {"LIST", "ALL", "ONE"}, NEW i \in Posix!Ids, NEW j \in Nat, m = Posix!Msg(type, c, i, j)
      PROVE  m \in Posix!Requests /\ m.from = c /\ m.type = type /\ m.sender = i
  BY <1>1, PlaceNumbers DEF Posix!Msg, Posix!Requests, Posix!msg_type
<1>2. \/ m = Posix!Msg("LIST", c, v7[c], 0)
      \/ \E i \in Posix!Ids : m = Posix!Msg("ALL", c, i, 0)
      \/ \E i \in Posix!Ids : i \in Nat /\ m = Posix!Msg("ONE", c, v7[c], i)
  BY PlaceNumbers DEF Posix!Commands
<1> QED
  BY <1>1, <1>2

(* A command, and the SIGINT to the parent that some of them bring. *)
LEMMA InputKeeps ==
  ASSUME Posix!Sound, NEW c \in Clients, Posix!handle_queue_input(c)
  PROVE  Posix!Sound'
<1>1. /\ Posix!TypeOK /\ Posix!Talking(c) /\ Posix!Place(c) /\ Posix!Listed(c) /\ v7[c] \in Posix!Ids \cup {Posix!NoId}
      /\ DOMAIN v8 = Clients /\ DOMAIN v9 = Clients /\ DOMAIN v10 = Clients
  BY ClientFacts
<1>2. UNCHANGED <<Posix!serverVars, v4, v5, v7>> /\ v9[c] = "input" /\ v7[c] # Posix!NoId /\ v7[c] \in Posix!Ids
  BY <1>1 DEF Posix!handle_queue_input, Posix!Talking
<1>3. /\ v8' = v8 \/ v8' = [v8 EXCEPT ![c] = Posix!Interrupted(@)]
      /\ \/ v9' = [v9 EXCEPT ![c] = "gone"] /\ v10' = v10
         \/ \E m \in Posix!Commands(c) : v9' = [v9 EXCEPT ![c] = "send"] /\ v10' = [v10 EXCEPT ![c] = m]
  BY DEF Posix!handle_queue_input
<1>4. /\ v8' \in [Clients -> {"start", "send", "await INIT", "poll", "receive", "stop", "leave", "left"}]
      /\ \A d \in Clients : d # c => v8'[d] = v8[d]
      /\ v8'[c] = v8[c] \/ (v8'[c] = "stop" /\ v8[c] \notin {"start", "leave", "left"})
  <2>1. CASE v8' = v8
    BY <1>1, <2>1 DEF Posix!TypeOK
  <2>2. CASE v8' = [v8 EXCEPT ![c] = Posix!Interrupted(@)]
    <3>1. \/ Posix!Interrupted(v8[c]) = v8[c]
          \/ Posix!Interrupted(v8[c]) = "stop" /\ v8[c] \notin {"start", "leave", "left"}
      BY DEF Posix!Interrupted
    <3>2. v8'[c] = Posix!Interrupted(v8[c]) /\ \A d \in Clients : d # c => v8'[d] = v8[d]
      BY <1>1, <2>2
    <3>3. v8[c] \in {"start", "send", "await INIT", "poll", "receive", "stop", "leave", "left"}
      BY <1>1 DEF Posix!TypeOK
    <3> HIDE DEF Posix!Interrupted
    <3>4. v8' \in [Clients -> {"start", "send", "await INIT", "poll", "receive", "stop", "leave", "left"}]
      BY <1>1, <2>2, <3>1, <3>3 DEF Posix!TypeOK
    <3> QED
      BY <3>1, <3>2, <3>4
  <2> QED
    BY <1>3, <2>1, <2>2
<1>5. /\ v9' \in [Clients -> {"none", "input", "send", "await LIST", "gone"}] /\ v10' \in [Clients -> Posix!Requests]
      /\ \A d \in Clients : d # c => v9'[d] = v9[d] /\ v10'[d] = v10[d]
      /\ \/ v9'[c] = "gone"
         \/ /\ v9'[c] = "send" /\ v10'[c].from = c /\ v10'[c].type \in {"LIST", "ALL", "ONE"}
            /\ v10'[c].type = "LIST" => v10'[c].sender = v7[c]
  <2>1. CASE v9' = [v9 EXCEPT ![c] = "gone"] /\ v10' = v10
    BY <1>1, <2>1 DEF Posix!TypeOK
  <2>2. ASSUME NEW m \in Posix!Commands(c), v9' = [v9 EXCEPT ![c] = "send"], v10' = [v10 EXCEPT ![c] = m]
        PROVE  /\ v9' \in [Clients -> {"none", "input", "send", "await LIST", "gone"}]
               /\ v10' \in [Clients -> Posix!Requests]
               /\ \A d \in Clients : d # c => v9'[d] = v9[d] /\ v10'[d] = v10[d]
               /\ v9'[c] = "send" /\ v10'[c].from = c /\ v10'[c].type \in {"LIST", "ALL", "ONE"}
               /\ v10'[c].type = "LIST" => v10'[c].sender = v7[c]
    <3>1. /\ m \in Posix!Requests /\ m.from = c /\ m.type \in {"LIST", "ALL", "ONE"}
          /\ m.type = "LIST" => m.sender = v7[c]
      BY <1>2, CommandFacts
    <3>2. v10'[c] = m /\ v10' \in [Clients -> Posix!Requests] /\ \A d \in Clients : d # c => v10'[d] = v10[d]
      BY <1>1, <2>2, <3>1 DEF Posix!TypeOK
    <3>3. /\ v9' \in [Clients -> {"none", "input", "send", "await LIST", "gone"}]
          /\ v9'[c] = "send" /\ \A d \in Clients : d # c => v9'[d] = v9[d]
      BY <1>1, <2>2 DEF Posix!TypeOK
    <3> QED
      BY <3>1, <3>2, <3>3
  <2> QED
    BY <1>3, <2>1, <2>2
<1>6. Posix!TypeOK'
  BY <1>1, <1>2, <1>4, <1>5 DEF Posix!TypeOK, Posix!serverVars
<1>7. OthersUntouched(c)
  BY <1>2, <1>4, <1>5 DEF OthersUntouched, Posix!serverVars
<1>8. Posix!Talking(c)'
  BY <1>1, <1>2, <1>4, <1>5 DEF Posix!Talking
<1>9. Posix!Place(c)'
  BY <1>1, <1>2, <1>4 DEF Posix!Place, Posix!serverVars
<1>10. Posix!Listed(c)'
  BY <1>5 DEF Posix!Listed
<1> QED
  BY <1>2, <1>6, <1>7, <1>8, <1>9, <1>10, ClientKeeps

LEMMA HelloIsRequest == ASSUME NEW c \in Clients PROVE Posix!Hello(c) \in Posix!Requests /\ Posix!Hello(c).type = "INIT"
BY DEF Posix!Hello, Posix!Msg, Posix!Parsed, Posix!NoId, Posix!Requests, Posix!msg_type

LEMMA SendInitKeeps == ASSUME Posix!Sound, NEW c \in Clients, Posix!send_INIT(c) PROVE Posix!Sound'
<1>1. Posix!TypeOK /\ Posix!Talking(c) /\ Posix!Place(c) /\ DOMAIN v8 = Clients
  BY ClientFacts
<1> DEFINE m == Posix!Hello(c)
<1>2. m \in Posix!Requests /\ m.type = "INIT"
  BY HelloIsRequest
<1>3. /\ v8[c] = "send" /\ v8' = [v8 EXCEPT ![c] = "await INIT"] /\ v4' = Append(v4, m)
      /\ UNCHANGED <<Posix!serverVars, v5, v7, v9, v10>>
  BY DEF Posix!send_INIT, Posix!Posted
<1> HIDE DEF m
<1>4. Posix!TypeOK'
  <2>1. v4' \in Seq(Posix!Requests)
    BY <1>1, <1>2, <1>3, AppendKeeps DEF Posix!TypeOK
  <2> QED
    BY <1>1, <1>3, <2>1 DEF Posix!TypeOK, Posix!serverVars
<1>5. OthersUntouched(c)
  BY <1>1, <1>3 DEF OthersUntouched, Posix!serverVars
<1>6. Posix!Talking(c)' /\ Posix!Listed(c)'
  BY <1>1, <1>3 DEF Posix!Talking, Posix!Listed
<1>7. Posix!Place(c)'
  BY <1>1, <1>3 DEF Posix!Place, Posix!serverVars
<1>8. Posix!Honest(m)'
  BY <1>2 DEF Posix!Honest
<1> QED
  BY <1>2, <1>3, <1>4, <1>5, <1>6, <1>7, <1>8, ClientPosts

LEMMA SendStopKeeps == ASSUME Posix!Sound, Posix!Settled, NEW c \in Clients, Posix!send_STOP(c) PROVE Posix!Sound'
<1>1. Posix!TypeOK /\ Posix!Talking(c) /\ Posix!Place(c) /\ DOMAIN v8 = Clients /\ v7[c] \in Posix!Ids \cup {Posix!NoId}
  BY ClientFacts
<1>0. PICK m : m = Posix!Msg("STOP", c, v7[c], 0)
  OBVIOUS
<1>2. /\ v8[c] = "stop" /\ v8' = [v8 EXCEPT ![c] = "leave"] /\ v4' = Append(v4, m)
      /\ UNCHANGED <<Posix!serverVars, v5, v7, v9, v10>>
  BY <1>0 DEF Posix!send_STOP, Posix!Posted
<1>3. v7[c] # Posix!NoId /\ v7[c] \in Posix!Ids /\ v1[v7[c]] = c
  BY <1>1, <1>2 DEF Posix!Settled, Posix!StoppedWithoutId, Posix!Place
<1>4. m \in Posix!Requests /\ m.type = "STOP" /\ m.from = c /\ m.sender = v7[c]
  BY <1>0, <1>3, PlaceNumbers DEF Posix!Msg, Posix!Requests, Posix!msg_type
<1>5. Posix!TypeOK'
  <2>1. v4' \in Seq(Posix!Requests)
    BY <1>1, <1>2, <1>4, AppendKeeps DEF Posix!TypeOK
  <2> QED
    BY <1>1, <1>2, <2>1 DEF Posix!TypeOK, Posix!serverVars
<1>6. OthersUntouched(c)
  BY <1>1, <1>2 DEF OthersUntouched, Posix!serverVars
<1>7. Posix!Talking(c)' /\ Posix!Listed(c)'
  BY <1>1, <1>2 DEF Posix!Talking, Posix!Listed
<1>8. Posix!Place(c)'
  BY <1>1, <1>2, <1>3 DEF Posix!Place, Posix!serverVars
<1>9. Posix!Honest(m)'
  BY <1>1, <1>2, <1>3, <1>4 DEF Posix!Honest, Posix!serverVars
<1> QED
  BY <1>2, <1>4, <1>5, <1>6, <1>7, <1>8, <1>9, ClientPosts

LEMMA SendMsgKeeps == ASSUME Posix!Sound, NEW c \in Clients, Posix!send_msg_to_server(c) PROVE Posix!Sound'
<1>1. /\ Posix!TypeOK /\ Posix!Talking(c) /\ Posix!Place(c) /\ Posix!Listed(c) /\ DOMAIN v9 = Clients /\ DOMAIN v10 = Clients
  BY ClientFacts
<1>0. PICK m : m = v10[c]
  OBVIOUS
<1>2. /\ v9[c] = "send" /\ v4' = Append(v4, m)
      /\ v9' = [v9 EXCEPT ![c] = IF m.type = "LIST" THEN "await LIST" ELSE "input"]
      /\ v10' = [v10 EXCEPT ![c] = Posix!Hello(c)] /\ UNCHANGED <<Posix!serverVars, v5, v7, v8>>
  BY <1>0, <1>1 DEF Posix!send_msg_to_server, Posix!Posted
<1>3. /\ m \in Posix!Requests /\ m.type \in {"LIST", "ALL", "ONE"} /\ m.from = c /\ v7[c] # Posix!NoId
      /\ m.type = "LIST" => m.sender = v7[c]
  BY <1>0, <1>1, <1>2 DEF Posix!TypeOK, Posix!Talking
<1>4. v9'[c] = IF m.type = "LIST" THEN "await LIST" ELSE "input"
  BY <1>1, <1>2
<1>5. Posix!TypeOK' /\ \E n \in DOMAIN v4' : v4'[n] = m
  <2>1. v4' \in Seq(Posix!Requests) /\ \E n \in DOMAIN v4' : v4'[n] = m
    <3>1. v4 \in Seq(Posix!Requests)
      BY <1>1 DEF Posix!TypeOK
    <3>2. v4' = Append(v4, m) /\ m \in Posix!Requests
      BY <1>2, <1>3
    <3>3. /\ v4' \in Seq(Posix!Requests) /\ Len(v4) + 1 \in DOMAIN v4'
          /\ v4'[Len(v4) + 1] = m
      BY <3>1, <3>2, AppendKeeps
    <3> QED
      BY <3>3
  <2>2. v10' \in [Clients -> Posix!Requests]
    BY <1>1, <1>2, HelloIsRequest DEF Posix!TypeOK
  <2>3. v9' \in [Clients -> {"none", "input", "send", "await LIST", "gone"}]
    BY <1>1, <1>2 DEF Posix!TypeOK
  <2> QED
    BY <1>1, <1>2, <2>1, <2>2, <2>3 DEF Posix!TypeOK, Posix!serverVars
<1>6. OthersUntouched(c)
  BY <1>1, <1>2 DEF OthersUntouched, Posix!serverVars
<1>7. Posix!Talking(c)'
  BY <1>1, <1>2, <1>4 DEF Posix!Talking
<1>8. Posix!Place(c)'
  BY <1>1, <1>2 DEF Posix!Place, Posix!serverVars
<1>9. Posix!Listed(c)'
  BY <1>3, <1>4, <1>5 DEF Posix!Listed
<1>10. Posix!Honest(m)'
  BY <1>2, <1>3 DEF Posix!Honest, Posix!serverVars
<1> QED
  BY <1>2, <1>3, <1>5, <1>6, <1>7, <1>8, <1>9, <1>10, ClientPosts

-------------------------------------------------------------------------------
(* The invariant *)

LEMMA ChatKeeps == ASSUME Posix!IInv, Posix!Next PROVE Posix!IInv'
<1>1. DOMAIN v7 = Clients /\ DOMAIN v8 = Clients
  BY DEF Posix!IInv
<1>2. DOMAIN v7' = Clients /\ DOMAIN v8' = Clients
  BY <1>1, ClientsStay
<1>3. ASSUME Posix!Settled' PROVE Posix!Sound'
  <2>1. Posix!Settled /\ Posix!Sound
    BY <1>1, <1>3, UnsettledStays DEF Posix!IInv
  <2>2. CASE Posix!receive_msg
    BY <1>3, <2>1, <2>2, ReceiveKeeps
  <2>3. CASE Posix!ServerSends
    BY <2>1, <2>3, ServerSendsKeeps
  <2>4. CASE Posix!ServerSent
    BY <2>1, <2>4, ServerSentKeeps
  <2>5. CASE Posix!sigint_handler
    BY <1>3, <2>5 DEF Posix!sigint_handler, Posix!EndsListening, Posix!exit_handler, Posix!Settled
  <2>6. ASSUME NEW c \in Clients, Posix!setup_queues(c) \/ Posix!Polls(c) \/ Posix!Exit(c) \/ Posix!Interrupt(c)
        PROVE  Posix!Sound'
    BY <1>3, <2>1, <2>6, ParentMoves
  <2>7. ASSUME NEW c \in Clients,
               Posix!send_INIT(c) \/ Posix!run(c) \/ Posix!send_STOP(c) \/ Posix!send_msg_to_server(c) \/ Posix!handle_queue_input(c)
        PROVE  Posix!Sound'
    BY <2>1, <2>7, SendInitKeeps, RunKeeps, SendStopKeeps, SendMsgKeeps, InputKeeps
  <2>8. ASSUME NEW c \in Clients, Posix!handle_queue_msg(c) \/ Posix!send_LIST(c)
        PROVE  Posix!Sound'
    BY <2>1, <2>8, ClientReads
  <2> QED
    BY <2>2, <2>3, <2>4, <2>5, <2>6, <2>7, <2>8 DEF Posix!Next
<1> QED
  BY <1>2, <1>3 DEF Posix!IInv

LEMMA PlaceIsKept == ASSUME Posix!IInv PROVE Posix!KeepsItsPlace
BY DEF Posix!IInv, Posix!Sound, Posix!Settled, Posix!Place, Posix!KeepsItsPlace

(* The list is on its way to a place that is still the client's own. *)
LEMMA ListComes == ASSUME Posix!IInv PROVE Posix!ListIsComing
<1> SUFFICES ASSUME NEW c \in Clients, v9[c] = "await LIST", v8[c] # "leave", Posix!Settled
             PROVE  \/ v5[c] # <<>>
                    \/ \E n \in DOMAIN v4 : v4[n].type = "LIST" /\ v4[n].from = c
                    \/ v3.type = "LIST" /\ \E i \in v3.to : v1[i] = c
  BY DEF Posix!ListIsComing, Posix!Settled
<1>1. Posix!Sound /\ Posix!Listed(c) /\ v1[v7[c]] = c
  <2>1. Posix!Sound
    BY DEF Posix!IInv
  <2> QED
    BY <2>1, ClientFacts DEF Posix!Talking, Posix!Place
<1>2. \A n \in DOMAIN v5[c] : v5[c] # <<>>
  BY <1>1, ChatTypes, NotEmpty DEF Posix!Sound
<1> QED
  BY <1>1, <1>2 DEF Posix!Listed

-------------------------------------------------------------------------------
(* Lab 4, zad3b: signals with confirmations *)

LEMMA ConfirmedBegins == ASSUME Confirmed!Init PROVE Confirmed!IInv
BY Bounds DEF Confirmed!Init, Confirmed!IInv, Confirmed!TypeOK, Confirmed!Sending, Confirmed!InStep, Confirmed!Counting,
   Confirmed!Protected, Confirmed!Phase, Confirmed!Processes, Confirmed!Signals, Confirmed!One

LEMMA OtherProcess == Confirmed!Other("sender") = "catcher" /\ Confirmed!Other("catcher") = "sender"
BY DEF Confirmed!Other, Confirmed!Processes

(* What each of the two does in a state where a signal or confirmation is on its way *)
LEMMA SendingKeeps ==
  ASSUME Confirmed!TypeOK, Confirmed!Sending, Confirmed!Protected, Confirmed!Next
  PROVE  Confirmed!IInv'
<1> USE OtherProcess DEF Confirmed!Phase, Confirmed!Processes, Confirmed!Signals, Confirmed!TypeOK, Confirmed!IInv,
    Confirmed!GoesTo, Confirmed!Gone, Confirmed!Sending, Confirmed!InStep, Confirmed!OneAhead,
    Confirmed!Counting, Confirmed!Protected, Confirmed!One
<1>1. ASSUME Confirmed!Confirmed PROVE Confirmed!IInv'
  BY <1>1 DEF Confirmed!Confirmed, Confirmed!At, Confirmed!Deliverable, Confirmed!Stopping
<1>2. ASSUME Confirmed!Caught PROVE Confirmed!IInv'
  BY <1>2 DEF Confirmed!Caught, Confirmed!At, Confirmed!Deliverable
<1>3. ASSUME Confirmed!send_signal("sender") PROVE Confirmed!IInv'
  <2>1. CASE v2["sender"] = "kill"
    <3>1. /\ v2' = [v2 EXCEPT !["sender"] = "count"] /\ UNCHANGED <<v1, v3, v5, v6, v7>>
          /\ v4' = [v4 EXCEPT !["catcher"] = v4["catcher"] \cup {"target"}]
      BY <1>3, <2>1 DEF Confirmed!send_signal, Confirmed!At, Confirmed!Kills
    <3> QED
      BY <2>1, <3>1
  <2>2. CASE v2["sender"] # "kill"
    <3>1. /\ v2["sender"] = "count" /\ v2' = [v2 EXCEPT !["sender"] = "suspend"]
          /\ UNCHANGED <<v1, v3, v4, v6, v7>> /\ v5' = [v5 EXCEPT !["sender"] = v5["sender"] + 1]
      BY <1>3, <2>2 DEF Confirmed!send_signal, Confirmed!At
    <3> QED
      BY <2>2, <3>1
  <2> QED
    BY <2>1, <2>2
<1>4. ASSUME Confirmed!send_signal("catcher") PROVE Confirmed!IInv'
  BY <1>4 DEF Confirmed!send_signal, Confirmed!At, Confirmed!Deliverable, Confirmed!Kills
<1>5. ASSUME NEW p \in {"sender", "catcher"}, Confirmed!send_stop(p) PROVE Confirmed!IInv'
  BY <1>5 DEF Confirmed!send_stop, Confirmed!At
<1>6. ASSUME NEW p \in {"sender", "catcher"}, Confirmed!sigsuspend(p) PROVE Confirmed!IInv'
  BY <1>6 DEF Confirmed!sigsuspend, Confirmed!At
<1>7. ASSUME Confirmed!Deliver("sender") PROVE Confirmed!IInv'
  <2>1. "target" \in v4["sender"] /\ ~v3["sender"] /\ "stop" \notin v4["sender"]
    BY <1>7 DEF Confirmed!Deliver, Confirmed!Deliverable, Confirmed!Notices
  <2>2. /\ v2' = [v2 EXCEPT !["sender"] = "handle"] /\ v3' = [v3 EXCEPT !["sender"] = TRUE]
        /\ v4' = [v4 EXCEPT !["sender"] = v4["sender"] \ {"target"}] /\ UNCHANGED <<v1, v5, v6>>
        /\ v7' = IF v2["sender"] \in {"count", "stopped"} THEN v7 \cup {"target"} ELSE v7
    BY <1>7, <2>1 DEF Confirmed!Deliver, Confirmed!Deliverable, Confirmed!Notices
  <2>3. v2["sender"] \in {"count", "suspend"} /\ v4' = [q \in {"sender", "catcher"} |-> {}]
    BY <2>1, <2>2, ZenonT(60)
  <2> QED
    BY <2>1, <2>2, <2>3
<1>8. ASSUME Confirmed!Deliver("catcher") PROVE Confirmed!IInv'
  <2>1. "target" \in v4["catcher"] /\ ~v3["catcher"] /\ "stop" \notin v4["catcher"]
    BY <1>8 DEF Confirmed!Deliver, Confirmed!Deliverable, Confirmed!Notices
  <2>2. /\ v2' = [v2 EXCEPT !["catcher"] = "handle"] /\ v3' = [v3 EXCEPT !["catcher"] = TRUE]
        /\ v4' = [v4 EXCEPT !["catcher"] = v4["catcher"] \ {"target"}] /\ UNCHANGED <<v1, v5, v6, v7>>
    BY <1>8, <2>1 DEF Confirmed!Deliver, Confirmed!Deliverable, Confirmed!Notices
  <2>3. v2["catcher"] \in {"count", "suspend"} /\ v4' = [q \in {"sender", "catcher"} |-> {}]
    BY <2>1, <2>2, ZenonT(60)
  <2> QED
    BY <2>1, <2>2, <2>3
<1> QED
  BY <1>1, <1>2, <1>3, <1>4, <1>5, <1>6, <1>7, <1>8 DEF Confirmed!Next

LEMMA StoppingKeeps ==
  ASSUME Confirmed!TypeOK, Confirmed!Stopping, Confirmed!Protected, Confirmed!Next
  PROVE  Confirmed!IInv'
<1> USE OtherProcess DEF Confirmed!Phase, Confirmed!Processes, Confirmed!Signals, Confirmed!TypeOK, Confirmed!IInv,
    Confirmed!GoesTo, Confirmed!Gone, Confirmed!Stopping, Confirmed!Protected, Confirmed!One
<1>1. ~Confirmed!Confirmed /\ ~Confirmed!Caught
  BY DEF Confirmed!Confirmed, Confirmed!Caught, Confirmed!At
<1>3. ASSUME NEW p \in {"sender", "catcher"}, Confirmed!send_signal(p) PROVE Confirmed!IInv'
  BY <1>3 DEF Confirmed!send_signal, Confirmed!At
<1>4. ASSUME Confirmed!send_stop("sender") PROVE Confirmed!IInv'
  BY <1>4 DEF Confirmed!send_stop, Confirmed!At, Confirmed!Kills
<1>5. ASSUME Confirmed!send_stop("catcher") PROVE Confirmed!IInv'
  BY <1>5 DEF Confirmed!send_stop, Confirmed!At, Confirmed!Kills
<1>6. ASSUME NEW p \in {"sender", "catcher"}, Confirmed!sigsuspend(p) PROVE Confirmed!IInv'
  BY <1>6 DEF Confirmed!sigsuspend, Confirmed!At
<1>7. ASSUME Confirmed!Deliver("sender") PROVE Confirmed!IInv'
  <2>1. /\ v4["sender"] = {"stop"} /\ v4["catcher"] = {} /\ v2["sender"] \in {"stopped", "suspend"}
        /\ v2["catcher"] \in {"stopped", "ended"}
    BY <1>7 DEF Confirmed!Deliver, Confirmed!Deliverable
  <2>2. /\ v2' = [v2 EXCEPT !["sender"] = "ended"] /\ v4' = [v4 EXCEPT !["sender"] = {}]
        /\ v7' = IF v2["sender"] = "stopped" THEN v7 \cup {"stop"} ELSE v7
        /\ UNCHANGED <<v1, v3, v5, v6>>
    BY <1>7, <2>1 DEF Confirmed!Deliver, Confirmed!Deliverable, Confirmed!Notices
  <2> QED
    BY <2>1, <2>2
<1>8. ASSUME Confirmed!Deliver("catcher") PROVE Confirmed!IInv'
  <2>1. /\ v4["sender"] = {} /\ v4["catcher"] = {"stop"} /\ v2["sender"] \in {"stopped", "suspend"}
        /\ v2["catcher"] \in {"count", "suspend"}
    BY <1>8 DEF Confirmed!Deliver, Confirmed!Deliverable
  <2>2. /\ v2' = [v2 EXCEPT !["catcher"] = "stop"] /\ v4' = [v4 EXCEPT !["catcher"] = {}]
        /\ UNCHANGED <<v1, v3, v5, v6, v7>>
    BY <1>8, <2>1 DEF Confirmed!Deliver, Confirmed!Deliverable, Confirmed!Notices
  <2> QED
    BY <2>1, <2>2
<1> QED
  BY <1>1, <1>3, <1>4, <1>5, <1>6, <1>7, <1>8 DEF Confirmed!Next

LEMMA ConfirmedKeeps == ASSUME Confirmed!IInv, Confirmed!Next PROVE Confirmed!IInv'
BY SendingKeeps, StoppingKeeps DEF Confirmed!IInv

LEMMA ConfirmedAgree == ASSUME Confirmed!IInv PROVE Confirmed!EndsInAgreement
<1> USE DEF Confirmed!Quiet, Confirmed!Phase, Confirmed!Processes, Confirmed!TypeOK, Confirmed!IInv, Confirmed!Gone
<1>1. Confirmed!Sending => ~Confirmed!Quiet
  BY DEF Confirmed!Sending, Confirmed!InStep, Confirmed!OneAhead
<1>2. ASSUME Confirmed!Stopping, Confirmed!Quiet PROVE v2["sender"] = "ended" /\ v2["catcher"] = "ended"
  BY <1>2 DEF Confirmed!Stopping
<1>3. v2["sender"] = "ended" /\ v2["catcher"] = "ended" => v2 = [p \in Confirmed!Processes |-> "ended"]
  OBVIOUS
<1> QED
  BY <1>1, <1>2, <1>3 DEF Confirmed!EndsInAgreement, Confirmed!Stopping

-------------------------------------------------------------------------------
(* Lab 4, zad3a: a burst of signals *)

LEMMA BurstCardinality == \A S : Burst!Cardinality(S) = Cardinality(S)
BY DEF Burst!Cardinality, Cardinality

(* The stack of handlers has a top, and something below it. *)
LEMMA StackTop ==
  ASSUME Burst!TypeOK, v7 # <<>>
  PROVE  /\ Len(v7) \in Nat /\ Len(v7) >= 1 /\ DOMAIN v7 = 1 .. Len(v7)
         /\ Burst!Top = v7[Len(v7)] /\ Burst!Top \in Burst!Frames
         /\ Burst!Below \in Seq(Burst!Frames) /\ Len(Burst!Below) = Len(v7) - 1
         /\ \A n \in 1 .. Len(v7) - 1 : Burst!Below[n] = v7[n]
<1>1. v7 \in Seq(Burst!Frames) /\ Len(v7) \in Nat /\ Len(v7) >= 1 /\ DOMAIN v7 = 1 .. Len(v7)
  BY DEF Burst!TypeOK
<1>2. /\ Len(v7) - 1 \in Nat
      /\ \A k \in 1 .. Len(v7) - 1 : v7[k] \in Burst!Frames /\ 1 + k - 1 = k
      /\ (IF 1 <= Len(v7) - 1 THEN Len(v7) - 1 - 1 + 1 ELSE 0) = Len(v7) - 1
      /\ Len(v7) - 1 - 1 + 1 = Len(v7) - 1
      /\ v7[Len(v7)] \in Burst!Frames
  BY <1>1
<1>3. /\ Burst!Below \in Seq(Burst!Frames) /\ Len(Burst!Below) = Len(v7) - 1
      /\ \A n \in 1 .. Len(v7) - 1 : Burst!Below[n] = v7[n]
  BY <1>1, <1>2, SubSeqProperties DEF Burst!Below
<1> QED
  BY <1>1, <1>2, <1>3 DEF Burst!Top

LEMMA StackFinite ==
  ASSUME Burst!TypeOK
  PROVE  IsFiniteSet(Burst!Uncounted)
<1>1. Len(v7) \in Nat /\ DOMAIN v7 = 1 .. Len(v7)
  BY DEF Burst!TypeOK
<1>2. IsFiniteSet(1 .. Len(v7)) /\ Burst!Uncounted \subseteq 1 .. Len(v7)
  BY <1>1, FS_Interval DEF Burst!Uncounted
<1> QED
  BY <1>2, FS_Subset

(* The top of the stack goes to another place. *)
LEMMA TopGoes ==
  ASSUME Burst!TypeOK, v7 # <<>>, NEW place \in Burst!Places, Burst!GoesTo(place)
  PROVE  /\ v7' \in Seq(Burst!Frames) /\ v7' # <<>> /\ Len(v7') = Len(v7)
         /\ DOMAIN v7' = DOMAIN v7 /\ Burst!Top' = [at |-> place, blocked |-> Burst!Top.blocked]
         /\ \A n \in 1 .. Len(v7) - 1 : v7'[n] = v7[n]
         /\ v7'[Len(v7)] = Burst!Top'
         /\ Cardinality(Burst!Uncounted') = Cardinality(Burst!Uncounted)
              + (IF place = "target" THEN 1 ELSE 0) - (IF Burst!Top.at = "target" THEN 1 ELSE 0)
<1> DEFINE l == Len(v7)
           f == [Burst!Top EXCEPT !.at = place]
           b == Burst!Below
<1>1. /\ l \in Nat /\ l >= 1 /\ DOMAIN v7 = 1 .. l
      /\ Burst!Top = v7[l] /\ Burst!Top \in Burst!Frames
      /\ b \in Seq(Burst!Frames) /\ Len(b) = l - 1
      /\ \A n \in 1 .. l - 1 : b[n] = v7[n]
  BY StackTop
<1>2. f = [at |-> place, blocked |-> Burst!Top.blocked] /\ f \in Burst!Frames
  BY <1>1 DEF Burst!Frames
<1>3. v7' = Append(b, f)
  BY DEF Burst!GoesTo
<1> HIDE DEF l, f, b
<1>4. /\ Append(b, f) \in Seq(Burst!Frames) /\ Len(Append(b, f)) = l /\ DOMAIN Append(b, f) = 1 .. l
      /\ \A n \in 1 .. l - 1 : Append(b, f)[n] = b[n]
      /\ Append(b, f)[l] = f
  BY <1>1, <1>2
<1>5. /\ v7' \in Seq(Burst!Frames) /\ Len(v7') = l /\ DOMAIN v7' = 1 .. l
      /\ \A n \in 1 .. l - 1 : v7'[n] = v7[n]
      /\ v7'[l] = f
  BY <1>1, <1>3, <1>4
<1>6. v7' # <<>> /\ Burst!Top' = f
  BY <1>1, <1>5 DEF Burst!Top
<1>7. Burst!Uncounted' \ {l} = Burst!Uncounted \ {l}
  BY <1>1, <1>5 DEF Burst!Uncounted
<1>8. /\ l \in Burst!Uncounted <=> Burst!Top.at = "target"
      /\ l \in Burst!Uncounted' <=> place = "target"
  BY <1>1, <1>2, <1>5 DEF Burst!Uncounted
<1>9. Cardinality(Burst!Uncounted') = Cardinality(Burst!Uncounted)
              + (IF l \in Burst!Uncounted' THEN 1 ELSE 0) - (IF l \in Burst!Uncounted THEN 1 ELSE 0)
  BY <1>7, StackFinite, CountStep
<1>10. Cardinality(Burst!Uncounted') = Cardinality(Burst!Uncounted)
              + (IF place = "target" THEN 1 ELSE 0) - (IF Burst!Top.at = "target" THEN 1 ELSE 0)
  BY <1>8, <1>9
<1> QED
  BY <1>1, <1>2, <1>5, <1>6, <1>10, SMTT(30) DEF l

(* A handler starts on top of what runs. *)
LEMMA HandlerStarts ==
  ASSUME Burst!TypeOK, NEW s \in Burst!Signals, Burst!Deliver(s)
  PROVE  /\ v7' \in Seq(Burst!Frames) /\ v7' # <<>> /\ Len(v7') = Len(v7) + 1
         /\ DOMAIN v7' = 1 .. Len(v7) + 1 /\ Burst!Top' = [at |-> s, blocked |-> v8]
         /\ \A n \in 1 .. Len(v7) - 1 : v7'[n] = v7[n]
         /\ v7'[Len(v7)].at = IF Burst!Top.at = "suspended" THEN "resumed" ELSE Burst!Top.at
         /\ v7'[Len(v7) + 1] = Burst!Top'
         /\ Cardinality(Burst!Uncounted') = Cardinality(Burst!Uncounted) + (IF s = "target" THEN 1 ELSE 0)
<1> DEFINE l == Len(v7)
           i == IF Burst!Top.at = "suspended" THEN [Burst!Top EXCEPT !.at = "resumed"] ELSE Burst!Top
           h == [at |-> s, blocked |-> v8]
           b == Burst!Below
<1>0. v7 # <<>>
  BY SMTT(30) DEF Burst!Deliver, Burst!Deliverable, Burst!CatcherRuns
<1>1. /\ l \in Nat /\ l >= 1 /\ DOMAIN v7 = 1 .. l
      /\ Burst!Top = v7[l] /\ Burst!Top \in Burst!Frames
      /\ b \in Seq(Burst!Frames) /\ Len(b) = l - 1
      /\ \A n \in 1 .. l - 1 : b[n] = v7[n]
  BY <1>0, StackTop
<1>2. /\ h \in Burst!Frames /\ i \in Burst!Frames
      /\ i.at = IF Burst!Top.at = "suspended" THEN "resumed" ELSE Burst!Top.at
  <2>1. h \in Burst!Frames
    BY DEF Burst!TypeOK, Burst!Frames, Burst!Places, Burst!Signals
  <2>2. CASE Burst!Top.at = "suspended"
    <3>1. i = [at |-> "resumed", blocked |-> Burst!Top.blocked]
      BY <1>1, <2>2 DEF Burst!Frames
    <3> QED
      BY <1>1, <2>1, <2>2, <3>1 DEF Burst!Frames, Burst!Places
  <2>3. CASE Burst!Top.at # "suspended"
    BY <1>1, <2>1, <2>3
  <2> QED
    BY <2>2, <2>3
<1>3. v7' = b \o <<i, h>>
  BY DEF Burst!Deliver, Burst!Frame
<1> HIDE DEF l, i, h, b
<1>4. /\ b \o <<i, h>> \in Seq(Burst!Frames) /\ Len(b \o <<i, h>>) = l + 1
      /\ DOMAIN (b \o <<i, h>>) = 1 .. l + 1
      /\ \A n \in 1 .. l - 1 : (b \o <<i, h>>)[n] = b[n]
      /\ (b \o <<i, h>>)[l] = i /\ (b \o <<i, h>>)[l + 1] = h
  <2>1. /\ <<i, h>> \in Seq(Burst!Frames) /\ Len(<<i, h>>) = 2 /\ <<i, h>>[1] = i /\ <<i, h>>[2] = h
    BY <1>2
  <2> DEFINE c == b \o <<i, h>>
             t == <<i, h>>
  <2>2. /\ c \in Seq(Burst!Frames) /\ Len(c) = Len(b) + Len(t)
        /\ \A n \in 1 .. Len(b) + Len(t) : c[n] = IF n <= Len(b) THEN b[n] ELSE t[n - Len(b)]
    BY <1>1, <2>1, ConcatProperties
  <2> HIDE DEF c, t
  <2>3. /\ c \in Seq(Burst!Frames) /\ Len(c) = l + 1
        /\ \A n \in 1 .. l + 1 : c[n] = IF n <= l - 1 THEN b[n] ELSE t[n - (l - 1)]
    BY <1>1, <2>1, <2>2 DEF t
  <2>4. /\ l \in 1 .. l + 1 /\ l + 1 \in 1 .. l + 1 /\ ~(l <= l - 1) /\ ~(l + 1 <= l - 1)
        /\ l - (l - 1) = 1 /\ l + 1 - (l - 1) = 2
        /\ \A n \in 1 .. l - 1 : n <= l - 1 /\ n \in 1 .. l + 1
    BY <1>1
  <2>5. c[l] = t[1] /\ c[l + 1] = t[2]
    BY <2>3, <2>4
  <2>6. \A n \in 1 .. l - 1 : c[n] = b[n]
    BY <2>3, <2>4
  <2>7. DOMAIN c = 1 .. l + 1
    BY <1>1, <2>3
  <2> QED
    BY <2>1, <2>3, <2>5, <2>6, <2>7 DEF c, t
<1>5. /\ v7' \in Seq(Burst!Frames) /\ Len(v7') = l + 1 /\ DOMAIN v7' = 1 .. l + 1
      /\ \A n \in 1 .. l - 1 : v7'[n] = v7[n]
      /\ v7'[l] = i /\ v7'[l + 1] = h
  BY <1>1, <1>3, <1>4
<1>6. v7' # <<>> /\ Burst!Top' = h
  BY <1>1, <1>5 DEF Burst!Top
<1>7. Burst!Uncounted' \ {l + 1} = Burst!Uncounted \ {l + 1}
  <2>1. /\ v7'[l].at = "target" <=> v7[l].at = "target"
        /\ 1 .. l = (1 .. l - 1) \cup {l} /\ (1 .. l + 1) \ {l + 1} = 1 .. l
    BY <1>1, <1>2, <1>5
  <2>2. ASSUME NEW n \in 1 .. l PROVE v7'[n].at = "target" <=> v7[n].at = "target"
    BY <1>1, <1>5, <2>1
  <2> QED
    BY <1>1, <1>5, <2>1, <2>2 DEF Burst!Uncounted
<1>8. /\ l + 1 \notin Burst!Uncounted
      /\ l + 1 \in Burst!Uncounted' <=> s = "target"
  BY <1>1, <1>5 DEF Burst!Uncounted, h
<1>9. Cardinality(Burst!Uncounted') = Cardinality(Burst!Uncounted)
              + (IF l + 1 \in Burst!Uncounted' THEN 1 ELSE 0) - (IF l + 1 \in Burst!Uncounted THEN 1 ELSE 0)
      /\ Cardinality(Burst!Uncounted) \in Nat
  BY <1>7, StackFinite, CountStep
<1>10. Cardinality(Burst!Uncounted') = Cardinality(Burst!Uncounted) + (IF s = "target" THEN 1 ELSE 0)
  BY <1>8, <1>9
<1> QED
  BY <1>1, <1>2, <1>5, <1>6, <1>10 DEF l, h

(* A handler ends, and what it interrupted goes on. *)
LEMMA HandlerReturns ==
  ASSUME Burst!TypeOK, Burst!Return
  PROVE  /\ v7' \in Seq(Burst!Frames) /\ Len(v7) - 1 \in Nat
         /\ Len(v7') = Len(v7) - 1 /\ DOMAIN v7' = 1 .. Len(v7) - 1
         /\ \A n \in 1 .. Len(v7) - 1 : v7'[n] = v7[n]
         /\ v7' # <<>> => Len(v7) - 1 \in 1 .. Len(v7) - 1 /\ Burst!Top' = v7[Len(v7) - 1]
         /\ v8' = Burst!Top.blocked /\ v8' \subseteq Burst!Signals
         /\ Cardinality(Burst!Uncounted') = Cardinality(Burst!Uncounted)
<1> DEFINE l == Len(v7)
<1>0. v7 # <<>> /\ Burst!Top.at = "return" /\ v7' = Burst!Below /\ v8' = Burst!Top.blocked
  BY SMTT(30) DEF Burst!Return, Burst!At, Burst!CatcherRuns
<1>1. /\ l \in Nat /\ l >= 1 /\ DOMAIN v7 = 1 .. l
      /\ Burst!Top = v7[l] /\ Burst!Top \in Burst!Frames
      /\ v7' \in Seq(Burst!Frames) /\ Len(v7') = l - 1
      /\ \A n \in 1 .. l - 1 : v7'[n] = v7[n]
  BY <1>0, StackTop
<1> HIDE DEF l
<1>2. DOMAIN v7' = 1 .. l - 1 /\ l - 1 \in Nat /\ (v7' # <<>> => l - 1 \in 1 .. l - 1)
  BY <1>1
<1>3. v7' # <<>> => Burst!Top' = v7[l - 1]
  BY <1>1, <1>2 DEF Burst!Top
<1>4. Burst!Uncounted' = Burst!Uncounted
  BY <1>0, <1>1, <1>2 DEF Burst!Uncounted
<1> QED
  BY <1>0, <1>1, <1>2, <1>3, <1>4 DEF l, Burst!Frames

LEMMA BurstBegins == ASSUME Burst!Init PROVE Burst!IInv
<1>1. v7 = <<[at |-> "suspended", blocked |-> {}]>> /\ Len(v7) = 1 /\ DOMAIN v7 = {1} /\ v7[1].at = "suspended"
  BY DEF Burst!Init
<1>2. /\ v5 = [p \in {"sender", "catcher"} |-> [s \in {"target", "stop"} |-> 0]]
      /\ v6 = [p \in {"sender", "catcher"} |-> 0] /\ v2 \in Nat /\ v4 = v2
      /\ v1 \in {"standard", "sigrt"} /\ v3 = "send" /\ v8 = {} /\ v9 = FALSE /\ v10 = 0
  BY Bounds DEF Burst!Init, Burst!None, Burst!Signals
<1>3. [at |-> "suspended", blocked |-> {}] \in Burst!Frames
  BY DEF Burst!Frames, Burst!Places
<1>4. Burst!TypeOK
  <2>1. v7 \in Seq(Burst!Frames)
    BY <1>1, <1>3
  <2>2. v5 \in [{"sender", "catcher"} -> [{"target", "stop"} -> Nat]]
    BY <1>2
  <2> QED
    BY <1>2, <2>1, <2>2 DEF Burst!TypeOK, Burst!Counters, Burst!Signals
<1>5. Burst!OneStop /\ Burst!Uninterrupted /\ Burst!Returned
  BY <1>1, <1>2 DEF Burst!OneStop, Burst!Nowhere, Burst!Uninterrupted, Burst!Returned, Burst!Top
<1>6. Burst!Counted
  <2>1. Burst!Uncounted = {}
    BY <1>1 DEF Burst!Uncounted
  <2> QED
    BY <1>2, <2>1, FS_EmptySet, BurstCardinality DEF Burst!Counted
<1> QED
  BY <1>4, <1>5, <1>6 DEF Burst!IInv

(* The counters and what is pending, whatever the sender and the catcher do. *)
LEMMA BurstKeepsTypes ==
  ASSUME Burst!TypeOK, Burst!Next
  PROVE  Burst!TypeOK'
<1> USE DEF Burst!TypeOK, Burst!Counters, Burst!Signals, Burst!catcherVars, Burst!senderVars
<1>1. ASSUME NEW p \in {"sender", "catcher"}, NEW s \in Burst!Signals,
             Burst!send_signal(p, s) \/ Burst!Takes(p, s)
      PROVE  v5' \in [{"sender", "catcher"} -> [{"target", "stop"} -> Nat]]
  <2>1. CASE Burst!send_signal(p, s)
    <3>1. (IF v1 = "sigrt" THEN v5[p][s] + 1 ELSE 1) \in Nat
      OBVIOUS
    <3> QED
      BY <2>1, <3>1 DEF Burst!send_signal
  <2>2. CASE Burst!Takes(p, s)
    <3>1. v5[p][s] - 1 \in Nat
      BY <2>2 DEF Burst!Takes
    <3> QED
      BY <2>2, <3>1 DEF Burst!Takes
  <2> QED
    BY <1>1, <2>1, <2>2
<1>2. ASSUME NEW place \in Burst!Places, v7 # <<>>, Burst!GoesTo(place)
      PROVE  v7' \in Seq(Burst!Frames)
  BY <1>2, TopGoes
<1>3. CASE Burst!send_signals
  BY <1>1, <1>3 DEF Burst!send_signals
<1>4. CASE Burst!pause
  BY <1>4 DEF Burst!pause
<1>5. ASSUME NEW s \in Burst!Signals, Burst!SenderHandles(s) PROVE Burst!TypeOK'
  <2>1. v5' \in [{"sender", "catcher"} -> [{"target", "stop"} -> Nat]]
    BY <1>1, <1>5 DEF Burst!SenderHandles
  <2>2. v6' \in [{"sender", "catcher"} -> Nat]
    BY <1>5 DEF Burst!SenderHandles
  <2> QED
    BY <1>5, <2>1, <2>2 DEF Burst!SenderHandles
<1>6. ASSUME NEW s \in Burst!Signals, Burst!Deliver(s) PROVE Burst!TypeOK'
  <2>1. v5' \in [{"sender", "catcher"} -> [{"target", "stop"} -> Nat]]
    BY <1>1, <1>6 DEF Burst!Deliver
  <2>2. v7' \in Seq(Burst!Frames)
    BY <1>6, HandlerStarts
  <2> QED
    BY <1>6, <2>1, <2>2 DEF Burst!Deliver
<1>7. CASE Burst!target_signal_handler
  <2>1. v7 # <<>> /\ v6' \in [{"sender", "catcher"} -> Nat]
    BY <1>7 DEF Burst!target_signal_handler, Burst!At, Burst!CatcherRuns
  <2>2. (IF v6'["catcher"] = 1 THEN "first" ELSE "return") \in Burst!Places
    BY DEF Burst!Places
  <2>3. v7' \in Seq(Burst!Frames)
    BY <1>2, <1>7, <2>1, <2>2 DEF Burst!target_signal_handler
  <2> QED
    BY <1>7, <2>1, <2>3 DEF Burst!target_signal_handler
<1>8. ASSUME NEW place \in Burst!Places, v7 # <<>>, Burst!update_mode(place) PROVE Burst!TypeOK'
  <2>1. v7' \in Seq(Burst!Frames)
    BY <1>2, <1>8 DEF Burst!update_mode
  <2> QED
    BY <1>8, <2>1 DEF Burst!update_mode
<1>9. CASE Burst!FirstTarget
  BY <1>8, <1>9 DEF Burst!FirstTarget, Burst!At, Burst!CatcherRuns, Burst!Places
<1>10. CASE Burst!sigsuspend
  <2>1. v7' \in Seq(Burst!Frames)
    BY <1>2, <1>10 DEF Burst!sigsuspend, Burst!At, Burst!CatcherRuns, Burst!Places
  <2> QED
    BY <1>10, <2>1 DEF Burst!sigsuspend
<1>11. CASE Burst!Resumed
  <2>1. v7' \in Seq(Burst!Frames)
    BY <1>2, <1>11 DEF Burst!Resumed, Burst!Leaves, Burst!At, Burst!CatcherRuns, Burst!Places
  <2> QED
    BY <1>11, <2>1 DEF Burst!Resumed
<1>12. CASE Burst!Return
  BY <1>12, HandlerReturns DEF Burst!Return
<1>13. CASE Burst!stop_signal_handler
  <2>1. v7 # <<>> /\ "answer" \in Burst!Places /\ "stop" \in Burst!Places
    BY <1>13 DEF Burst!stop_signal_handler, Burst!At, Burst!CatcherRuns, Burst!Places
  <2>2. CASE v9
    <3>1. v7' \in Seq(Burst!Frames)
      BY <1>2, <1>13, <2>1, <2>2 DEF Burst!stop_signal_handler
    <3> QED
      BY <1>13, <2>2, <3>1 DEF Burst!stop_signal_handler
  <2>3. CASE ~v9
    BY <1>8, <1>13, <2>1, <2>3 DEF Burst!stop_signal_handler
  <2> QED
    BY <2>2, <2>3
<1>14. CASE Burst!Answer
  <2>1. v7 # <<>> /\ "exiting" \in Burst!Places /\ "answered" \in Burst!Places
    BY <1>14 DEF Burst!Answer, Burst!At, Burst!CatcherRuns, Burst!Places
  <2>2. v7' \in Seq(Burst!Frames)
    BY <1>2, <1>14, <2>1 DEF Burst!Answer, Burst!Leaves
  <2>3. v5' \in [{"sender", "catcher"} -> [{"target", "stop"} -> Nat]]
    BY <1>1, <1>14 DEF Burst!Answer
  <2>4. v10' \in Nat
    BY <1>14 DEF Burst!Answer
  <2> QED
    BY <1>14, <2>2, <2>3, <2>4 DEF Burst!Answer
<1>15. CASE Burst!Answered
  <2>1. v7' \in Seq(Burst!Frames)
    BY <1>2, <1>15 DEF Burst!Answered, Burst!Leaves, Burst!At, Burst!CatcherRuns, Burst!Places
  <2> QED
    BY <1>15, <2>1 DEF Burst!Answered
<1>16. CASE Burst!Exit
  BY <1>16 DEF Burst!Exit
<1> QED
  BY <1>3, <1>4, <1>5, <1>6, <1>7, <1>9, <1>10, <1>11, <1>12, <1>13, <1>14, <1>15, <1>16 DEF Burst!Next

(* What the sender does *)
LEMMA BurstSenderKeeps ==
  ASSUME Burst!TypeOK, v1 = "sigrt", v7 # <<>>,
         Burst!OneStop, Burst!Uninterrupted, Burst!Counted, Burst!Returned,
         Burst!send_signals \/ Burst!pause \/ \E s \in Burst!Signals : Burst!SenderHandles(s)
  PROVE  Burst!OneStop' /\ Burst!Uninterrupted' /\ Burst!Counted' /\ Burst!Returned'
<1>0. /\ v5 \in [{"sender", "catcher"} -> [{"target", "stop"} -> Nat]]
      /\ v6 \in [{"sender", "catcher"} -> Nat] /\ v2 \in Nat /\ v4 \in Nat /\ v10 \in Nat
      /\ v3 \in {"send", "sent", "pause", "woken", "ended", "failed"}
  BY DEF Burst!TypeOK, Burst!Counters, Burst!Signals
<1>1. /\ UNCHANGED <<v2, v7, v8, v9, v10>>
  BY DEF Burst!send_signals, Burst!pause, Burst!SenderHandles, Burst!catcherVars, Burst!senderVars
<1>2. Burst!Top' = Burst!Top /\ Burst!Uncounted' = Burst!Uncounted
  BY <1>1 DEF Burst!Top, Burst!Uncounted
<1>3. \A n \in 1 .. Len(v7) - 1 : v7'[n].at \notin {"answer", "answered", "exiting"}
  BY <1>1 DEF Burst!Uninterrupted
<1>4. Cardinality(Burst!Uncounted) \in Nat
  BY StackFinite, FS_CardinalityType
<1> DEFINE u == Cardinality(Burst!Uncounted)
<1>5. v2 - v4 = v6["catcher"] + v5["catcher"]["target"] + u
  BY BurstCardinality DEF Burst!Counted
<1>6. SUFFICES /\ Burst!OneStop' /\ Burst!Uninterrupted' /\ Burst!Returned'
               /\ v2' - v4' = v6'["catcher"] + v5'["catcher"]["target"] + u
  BY <1>2, BurstCardinality DEF Burst!Counted
<1> HIDE DEF u
<1>7. CASE Burst!send_signals
  <2>1. /\ v3 = "send" /\ v6' = v6 /\ v5["catcher"]["stop"] = 0
        /\ Burst!Nowhere({"stop", "answer", "answered"})
    BY <1>7 DEF Burst!send_signals, Burst!OneStop
  <2>2. Burst!Top.at \notin {"stop", "answer", "answered"}
    BY <2>1, StackTop DEF Burst!Nowhere
  <2>3. CASE v4 > 0
    <3>1. /\ v5' = [v5 EXCEPT !["catcher"]["target"] = v5["catcher"]["target"] + 1] /\ v4' = v4 - 1 /\ v3' = v3
      BY <1>7, <2>3 DEF Burst!send_signals, Burst!send_signal, Burst!CatcherRuns
    <3>2. /\ v5'["catcher"]["target"] = v5["catcher"]["target"] + 1
          /\ v5'["catcher"]["stop"] = 0 /\ v5'["sender"] = v5["sender"]
      BY <1>0, <2>1, <3>1
    <3>3. v2' - v4' = v6'["catcher"] + v5'["catcher"]["target"] + u
      <4>1. v2' = v2 /\ v4' = v4 - 1 /\ v6'["catcher"] = v6["catcher"] /\ u \in Nat
            /\ v6["catcher"] \in Nat /\ v5["catcher"]["target"] \in Nat
        BY <1>0, <1>1, <1>4, <2>1, <3>1 DEF u
      <4>2. \A a, b, r, t, w \in Nat : a - b = r + t + w => a - (b - 1) = r + (t + 1) + w
        OBVIOUS
      <4>3. v2 - (v4 - 1) = v6["catcher"] + (v5["catcher"]["target"] + 1) + u
        BY <1>0, <1>5, <4>1, <4>2, SMTT(30)
      <4> QED
        BY <3>2, <4>1, <4>3
    <3> QED
      BY <1>0, <1>1, <1>2, <1>3, <2>1, <2>2, <3>1, <3>2, <3>3
      DEF Burst!OneStop, Burst!Uninterrupted, Burst!Returned, Burst!Nowhere
  <2>4. CASE ~(v4 > 0)
    <3>1. /\ v5' = [v5 EXCEPT !["catcher"]["stop"] = v5["catcher"]["stop"] + 1] /\ v4' = v4 /\ v3' = "sent"
      BY <1>7, <2>4 DEF Burst!send_signals, Burst!send_signal, Burst!CatcherRuns
    <3> QED
      BY <1>0, <1>1, <1>2, <1>3, <1>5, <2>1, <2>2, <3>1
      DEF Burst!OneStop, Burst!Uninterrupted, Burst!Returned, Burst!Nowhere
  <2> QED
    BY <2>3, <2>4
<1>8. CASE Burst!pause
  <2>1. v3 # "send" /\ v3' # "send" /\ UNCHANGED <<v4, v5, v6>>
    BY <1>8 DEF Burst!pause
  <2> QED
    BY <1>1, <1>2, <1>5, <2>1 DEF Burst!OneStop, Burst!Uninterrupted, Burst!Returned, Burst!Nowhere
<1>9. ASSUME NEW s \in Burst!Signals, Burst!SenderHandles(s)
      PROVE  Burst!OneStop' /\ Burst!Uninterrupted' /\ Burst!Returned'
             /\ v2' - v4' = v6'["catcher"] + v5'["catcher"]["target"] + u
  <2>1. /\ v5["sender"][s] > 0 /\ v5' = [v5 EXCEPT !["sender"][s] = v5["sender"][s] - 1]
        /\ v6' = [v6 EXCEPT !["sender"] = IF s = "target" THEN v6["sender"] + 1 ELSE v6["sender"]]
        /\ (v3' = "send") <=> (v3 = "send")
        /\ v4' = v4
    BY <1>9 DEF Burst!SenderHandles, Burst!Takes
  <2>2. v5'["catcher"] = v5["catcher"] /\ v6'["catcher"] = v6["catcher"]
    BY <1>0, <2>1
  <2>3. v6'["sender"] + v5'["sender"]["target"] = v6["sender"] + v5["sender"]["target"]
    <3>1. CASE s = "target"
      BY <1>0, <2>1, <3>1
    <3>2. CASE s = "stop"
      BY <1>0, <2>1, <3>2
    <3> QED
      BY <3>1, <3>2 DEF Burst!Signals
  <2> QED
    BY <1>1, <1>2, <1>5, <2>1, <2>2, <2>3 DEF Burst!OneStop, Burst!Uninterrupted, Burst!Returned, Burst!Nowhere
<1> QED
  BY <1>7, <1>8, <1>9

(* The catcher: the places of a handler are taken one after the other. *)
LEMMA BurstMovesKeep ==
  ASSUME Burst!TypeOK, v1 = "sigrt", v7 # <<>>,
         Burst!OneStop, Burst!Uninterrupted, Burst!Counted, Burst!Returned,
         NEW place \in Burst!Places \ {"stop", "target", "answer", "answered"},
         Burst!GoesTo(place), UNCHANGED <<v2, v3, v4, v5, v6>>,
         Burst!Top.at # "target", place = "exiting" \/ Burst!Top.at \notin {"answer", "answered", "exiting"}
  PROVE  Burst!OneStop' /\ Burst!Uninterrupted' /\ Burst!Counted' /\ Burst!Returned'
<1> DEFINE l == Len(v7)
<1>0. l \in Nat /\ DOMAIN v7 = 1 .. l /\ l >= 1
  BY StackTop
<1>1. /\ Len(v7') = l /\ DOMAIN v7' = 1 .. l
      /\ Burst!Top'.at = place /\ v7'[l].at = place
      /\ \A n \in 1 .. l - 1 : v7'[n] = v7[n]
      /\ Cardinality(Burst!Uncounted') = Cardinality(Burst!Uncounted)
  <2>1. Cardinality(Burst!Uncounted) \in Nat
    BY StackFinite, FS_CardinalityType
  <2> QED
    BY <1>0, <2>1, TopGoes
<1> HIDE DEF l
<1>2. ASSUME NEW n \in 1 .. l, v7'[n].at \in {"stop", "answer", "answered"}
      PROVE  v7[n].at \in {"stop", "answer", "answered"}
  BY <1>0, <1>1, <1>2
<1>3. Burst!OneStop'
  BY <1>0, <1>1, <1>2 DEF Burst!OneStop, Burst!Nowhere
<1>4. Burst!Uninterrupted'
  BY <1>0, <1>1 DEF Burst!Uninterrupted, l
<1>5. Burst!Counted'
  BY <1>1, BurstCardinality DEF Burst!Counted
<1>6. Burst!Returned'
  BY <1>1 DEF Burst!Returned
<1> QED
  BY <1>3, <1>4, <1>5, <1>6

LEMMA BurstCountsOne ==
  ASSUME Burst!TypeOK, v1 = "sigrt", v7 # <<>>,
         Burst!OneStop, Burst!Uninterrupted, Burst!Counted, Burst!Returned,
         Burst!target_signal_handler
  PROVE  Burst!OneStop' /\ Burst!Uninterrupted' /\ Burst!Counted' /\ Burst!Returned'
<1> DEFINE l == Len(v7)
           place == IF v6'["catcher"] = 1 THEN "first" ELSE "return"
           u == Cardinality(Burst!Uncounted)
<1>0. l \in Nat /\ DOMAIN v7 = 1 .. l /\ l >= 1 /\ Burst!Top = v7[l]
  BY StackTop
<1>1. /\ Burst!Top.at = "target" /\ Burst!GoesTo(place) /\ place \in Burst!Places
      /\ UNCHANGED <<v2, v3, v4, v5>>
      /\ v6' = [v6 EXCEPT !["catcher"] = v6["catcher"] + 1]
  BY DEF Burst!target_signal_handler, Burst!At, Burst!senderVars, Burst!Places
<1>2. /\ v6 \in [{"sender", "catcher"} -> Nat] /\ v5["catcher"]["target"] \in Nat
      /\ v6'["catcher"] = v6["catcher"] + 1 /\ v6'["sender"] = v6["sender"] /\ v6["catcher"] \in Nat
  BY <1>1 DEF Burst!TypeOK, Burst!Counters, Burst!Signals
<1>3. /\ Len(v7') = l /\ DOMAIN v7' = 1 .. l
      /\ Burst!Top'.at = place /\ v7'[l].at = place
      /\ \A n \in 1 .. l - 1 : v7'[n] = v7[n]
      /\ Cardinality(Burst!Uncounted') = u - 1 /\ u \in Nat
  <2>1. u \in Nat
    BY StackFinite, FS_CardinalityType
  <2>2. place # "target"
    OBVIOUS
  <2>3. /\ Len(v7') = l /\ DOMAIN v7' = 1 .. l
        /\ Burst!Top' = [at |-> place, blocked |-> Burst!Top.blocked] /\ v7'[l] = Burst!Top'
        /\ \A n \in 1 .. l - 1 : v7'[n] = v7[n]
        /\ Cardinality(Burst!Uncounted') = u
              + (IF place = "target" THEN 1 ELSE 0) - (IF Burst!Top.at = "target" THEN 1 ELSE 0)
    <3> HIDE DEF place
    <3> QED
      BY <1>0, <1>1, TopGoes
  <2> HIDE DEF u, place
  <2>4. Cardinality(Burst!Uncounted') = u - 1
    BY <1>1, <2>1, <2>2, <2>3
  <2> QED
    BY <2>1, <2>3, <2>4
<1>4. place \in {"first", "return"}
  OBVIOUS
<1> HIDE DEF l, u, place
<1>5. ASSUME NEW n \in 1 .. l, v7'[n].at \in {"stop", "answer", "answered"}
      PROVE  v7[n].at \in {"stop", "answer", "answered"}
  BY <1>0, <1>3, <1>4, <1>5
<1>6. Burst!OneStop'
  BY <1>0, <1>1, <1>3, <1>5 DEF Burst!OneStop, Burst!Nowhere
<1>7. Burst!Uninterrupted'
  BY <1>0, <1>3, <1>4 DEF Burst!Uninterrupted, l
<1>8. Burst!Counted'
  <2>1. v2 - v4 = v6["catcher"] + v5["catcher"]["target"] + u
    BY BurstCardinality DEF Burst!Counted, u
  <2>2. v2' - v4' = v6'["catcher"] + v5'["catcher"]["target"] + (u - 1)
    BY <1>1, <1>2, <1>3, <2>1
  <2> QED
    BY <1>3, <2>2, BurstCardinality DEF Burst!Counted
<1>9. Burst!Returned'
  BY <1>1, <1>2, <1>3, <1>4 DEF Burst!Returned
<1> QED
  BY <1>6, <1>7, <1>8, <1>9

LEMMA BurstDelivers ==
  ASSUME Burst!TypeOK, v1 = "sigrt", v7 # <<>>,
         Burst!OneStop, Burst!Uninterrupted, Burst!Counted, Burst!Returned,
         NEW s \in Burst!Signals, Burst!Deliver(s)
  PROVE  Burst!OneStop' /\ Burst!Uninterrupted' /\ Burst!Counted' /\ Burst!Returned'
<1> DEFINE l == Len(v7)
           u == Cardinality(Burst!Uncounted)
<1>0. l \in Nat /\ DOMAIN v7 = 1 .. l /\ l >= 1 /\ Burst!Top = v7[l] /\ u \in Nat
  BY StackTop, StackFinite, FS_CardinalityType
<1>1. /\ Burst!Top.at # "exiting" /\ v5["catcher"][s] > 0 /\ s \notin v8
      /\ UNCHANGED <<v2, v3, v4, v6>>
      /\ v5' = [v5 EXCEPT !["catcher"][s] = v5["catcher"][s] - 1]
      /\ v8' = v8 \cup {s}
  BY DEF Burst!Deliver, Burst!Deliverable, Burst!Takes, Burst!senderVars
<1>2. /\ Len(v7') = l + 1 /\ DOMAIN v7' = 1 .. l + 1
      /\ Burst!Top'.at = s /\ v7'[l + 1].at = s
      /\ \A n \in 1 .. l - 1 : v7'[n] = v7[n]
      /\ v7'[l].at = IF Burst!Top.at = "suspended" THEN "resumed" ELSE Burst!Top.at
      /\ Cardinality(Burst!Uncounted') = u + (IF s = "target" THEN 1 ELSE 0)
  BY HandlerStarts
<1>3. s = "target" \/ s = "stop"
  BY DEF Burst!Signals
<1>4. v5 \in [{"sender", "catcher"} -> [{"target", "stop"} -> Nat]] /\ v6["catcher"] \in Nat
  BY DEF Burst!TypeOK, Burst!Counters, Burst!Signals
<1>5. /\ v5'["sender"] = v5["sender"]
      /\ v5'["catcher"][s] = v5["catcher"][s] - 1
      /\ \A r \in {"target", "stop"} \ {s} : v5'["catcher"][r] = v5["catcher"][r]
  BY <1>1, <1>3, <1>4
<1> HIDE DEF l, u
(* Nothing is delivered while the answer is sent. *)
<1>6. Burst!Top.at \notin {"answer", "answered", "exiting"}
  <2>1. CASE s = "target"
    BY <1>1, <2>1 DEF Burst!Uninterrupted
  <2>2. CASE s = "stop"
    BY <1>0, <1>1, <2>2 DEF Burst!OneStop, Burst!Nowhere
  <2> QED
    BY <1>1, <1>3, <2>1, <2>2
<1>7. ASSUME NEW n \in 1 .. l, v7'[n].at \in {"stop", "answer", "answered", "exiting"}
      PROVE  v7[n].at = v7'[n].at
  BY <1>0, <1>2, <1>7
<1>8. Burst!OneStop'
  <2>1. CASE s = "target"
    <3>1. v5'["catcher"]["stop"] = v5["catcher"]["stop"]
      BY <1>5, <2>1
    <3>2. v7'[l + 1].at \notin {"stop", "answer", "answered"} /\ 1 .. l + 1 = (1 .. l) \cup {l + 1}
      BY <1>0, <1>2, <2>1
    <3> QED
      BY <1>0, <1>1, <1>2, <1>7, <3>1, <3>2 DEF Burst!OneStop, Burst!Nowhere
  <2>2. CASE s = "stop"
    <3>1. v3' # "send" /\ v5'["catcher"]["stop"] = 0
      BY <1>1, <1>5, <2>2 DEF Burst!OneStop
    <3> QED
      BY <3>1 DEF Burst!OneStop
  <2> QED
    BY <1>3, <2>1, <2>2
<1>9. Burst!Uninterrupted'
  <2>1. ASSUME NEW n \in 1 .. l PROVE v7'[n].at \notin {"answer", "answered", "exiting"}
    <3>1. CASE n = l
      BY <1>2, <1>6, <3>1
    <3>2. CASE n # l
      <4>1. n \in 1 .. l - 1
        BY <1>0, <3>2
      <4>2. \A m \in 1 .. l - 1 : v7[m].at \notin {"answer", "answered", "exiting"}
        BY DEF Burst!Uninterrupted, l
      <4> QED
        BY <1>2, <4>1, <4>2
    <3> QED
      BY <3>1, <3>2
  <2>2. Len(v7') - 1 = l
    BY <1>0, <1>2
  <2> QED
    BY <1>2, <1>3, <2>1, <2>2 DEF Burst!Uninterrupted
<1>10. Burst!Counted'
  <2>1. v2 - v4 = v6["catcher"] + v5["catcher"]["target"] + u
    BY BurstCardinality DEF Burst!Counted, u
  <2>2. v2' - v4' = v6'["catcher"] + v5'["catcher"]["target"] + Cardinality(Burst!Uncounted')
    <3>1. CASE s = "target"
      <4>1. v5["catcher"]["target"] \in Nat
        BY <1>4
      <4> QED
        BY <1>0, <1>1, <1>2, <1>4, <1>5, <2>1, <3>1, <4>1
    <3>2. CASE s = "stop"
      BY <1>0, <1>1, <1>2, <1>5, <2>1, <3>2
    <3> QED
      BY <1>3, <3>1, <3>2
  <2> QED
    BY <2>2, BurstCardinality DEF Burst!Counted
<1>11. Burst!Returned'
  BY <1>1, <1>2, <1>3, <1>5, <1>6 DEF Burst!Returned
<1> QED
  BY <1>8, <1>9, <1>10, <1>11

LEMMA BurstReturns ==
  ASSUME Burst!TypeOK, v1 = "sigrt", v7 # <<>>,
         Burst!OneStop, Burst!Uninterrupted, Burst!Counted, Burst!Returned,
         Burst!Return, v7' # <<>>
  PROVE  Burst!OneStop' /\ Burst!Uninterrupted' /\ Burst!Counted' /\ Burst!Returned'
<1> DEFINE l == Len(v7)
<1>0. /\ l - 1 \in Nat /\ l \in Nat /\ DOMAIN v7 = 1 .. l
      /\ Burst!Top.at = "return" /\ UNCHANGED <<v2, v3, v4, v5, v6>>
  BY StackTop DEF Burst!Return, Burst!At, Burst!senderVars
<1>1. /\ Len(v7') = l - 1 /\ DOMAIN v7' = 1 .. l - 1
      /\ \A n \in 1 .. l - 1 : v7'[n] = v7[n]
      /\ l - 1 \in 1 .. l - 1 /\ Burst!Top' = v7[l - 1]
      /\ Cardinality(Burst!Uncounted') = Cardinality(Burst!Uncounted)
  BY HandlerReturns
<1>2. \A n \in 1 .. l - 1 : v7[n].at \notin {"answer", "answered", "exiting"}
  BY DEF Burst!Uninterrupted
<1> HIDE DEF l
<1>3. Burst!OneStop'
  BY <1>0, <1>1 DEF Burst!OneStop, Burst!Nowhere
<1>4. Burst!Top'.at \notin {"answer", "answered", "exiting"}
  BY <1>1, <1>2
<1>5. Burst!Uninterrupted'
  BY <1>0, <1>1, <1>2, <1>4 DEF Burst!Uninterrupted
<1>6. Burst!Counted'
  BY <1>0, <1>1, BurstCardinality DEF Burst!Counted
<1>7. Burst!Returned'
  BY <1>0, <1>4 DEF Burst!Returned
<1> QED
  BY <1>3, <1>5, <1>6, <1>7

(* The handler of STOP: it waits for nothing, and answers as many as have been counted. *)
LEMMA BurstStops ==
  ASSUME Burst!TypeOK, v1 = "sigrt", v7 # <<>>,
         Burst!OneStop, Burst!Uninterrupted, Burst!Counted, Burst!Returned,
         Burst!stop_signal_handler
  PROVE  Burst!OneStop' /\ Burst!Uninterrupted' /\ Burst!Counted' /\ Burst!Returned'
<1> DEFINE l == Len(v7)
           place == IF v9 THEN "answer" ELSE "stop"
           u == Cardinality(Burst!Uncounted)
<1>0. l \in Nat /\ DOMAIN v7 = 1 .. l /\ l >= 1 /\ Burst!Top = v7[l] /\ u \in Nat
  BY StackTop, StackFinite, FS_CardinalityType
<1>1. /\ Burst!Top.at = "stop" /\ Burst!GoesTo(place) /\ place \in Burst!Places
      /\ \A s \in Burst!Signals : ~Burst!Deliverable(s)
      /\ UNCHANGED <<v2, v3, v4, v5, v6>>
      /\ place = "answer" => v10' = v6["catcher"] /\ v8' = v8
  BY DEF Burst!stop_signal_handler, Burst!update_mode, Burst!At, Burst!senderVars, Burst!Places
<1>2. place = "answer" \/ place = "stop"
  OBVIOUS
<1> HIDE DEF l, place, u
<1>3. /\ Len(v7') = l /\ DOMAIN v7' = 1 .. l
      /\ Burst!Top'.at = place /\ v7'[l].at = place
      /\ \A n \in 1 .. l - 1 : v7'[n] = v7[n]
      /\ Cardinality(Burst!Uncounted') = u
  <2>1. /\ Len(v7') = Len(v7) /\ DOMAIN v7' = DOMAIN v7
        /\ Burst!Top' = [at |-> place, blocked |-> Burst!Top.blocked] /\ v7'[Len(v7)] = Burst!Top'
        /\ \A n \in 1 .. Len(v7) - 1 : v7'[n] = v7[n]
        /\ Cardinality(Burst!Uncounted') = u
              + (IF place = "target" THEN 1 ELSE 0) - (IF Burst!Top.at = "target" THEN 1 ELSE 0)
    BY <1>1, TopGoes DEF u
  <2>2. Cardinality(Burst!Uncounted') = u
    BY <1>0, <1>1, <1>2, <2>1
  <2> QED
    BY <1>0, <2>1, <2>2 DEF l
<1>4. v3 # "send" /\ v5["catcher"]["stop"] # 1
  BY <1>0, <1>1 DEF Burst!OneStop, Burst!Nowhere
<1>5. Burst!OneStop'
  BY <1>1, <1>4 DEF Burst!OneStop
<1>6. Burst!Uninterrupted'
  <2>1. \A n \in 1 .. Len(v7') - 1 : v7'[n].at \notin {"answer", "answered", "exiting"}
    BY <1>0, <1>3 DEF Burst!Uninterrupted, l
  <2>2. "target" \in v8 \/ v5["catcher"]["target"] = 0
    <3>1. v5["catcher"]["target"] \in Nat
      BY DEF Burst!TypeOK, Burst!Signals
    <3> QED
      BY <1>1, <3>1 DEF Burst!Deliverable, Burst!CatcherRuns, Burst!Signals
  <2> QED
    BY <1>1, <1>2, <1>3, <2>1, <2>2 DEF Burst!Uninterrupted
<1>7. Burst!Counted'
  BY <1>1, <1>3, BurstCardinality DEF Burst!Counted, u
<1>8. Burst!Returned'
  <2>1. v6["catcher"] \in Nat
    BY DEF Burst!TypeOK, Burst!Counters
  <2> QED
    BY <1>1, <1>2, <1>3, <2>1 DEF Burst!Returned
<1> QED
  BY <1>5, <1>6, <1>7, <1>8

(* What the catcher sends back *)
LEMMA BurstAnswers ==
  ASSUME Burst!TypeOK, v1 = "sigrt", v7 # <<>>,
         Burst!OneStop, Burst!Uninterrupted, Burst!Counted, Burst!Returned,
         Burst!Answer
  PROVE  Burst!OneStop' /\ Burst!Uninterrupted' /\ Burst!Counted' /\ Burst!Returned'
<1> DEFINE l == Len(v7)
<1>0. l \in Nat /\ DOMAIN v7 = 1 .. l /\ l >= 1 /\ Burst!Top = v7[l]
  BY StackTop
<1>1. /\ Burst!Top.at = "answer" /\ UNCHANGED <<v2, v3, v4, v6, v8>>
      /\ v5 \in [{"sender", "catcher"} -> [{"target", "stop"} -> Nat]]
      /\ v6 \in [{"sender", "catcher"} -> Nat] /\ v10 \in Nat
  BY DEF Burst!Answer, Burst!At, Burst!senderVars, Burst!TypeOK, Burst!Counters, Burst!Signals
<1>2. CASE Burst!Leaves(1) /\ UNCHANGED v5
  BY <1>1, <1>2, BurstMovesKeep DEF Burst!Leaves, Burst!Places
<1>3. CASE v10 > 0 /\ Burst!send_signal("sender", "target") /\ v10' = v10 - 1 /\ UNCHANGED v7
  <2>1. Burst!Top' = Burst!Top /\ Burst!Uncounted' = Burst!Uncounted
    BY <1>3 DEF Burst!Top, Burst!Uncounted
  <2>2. /\ v5'["catcher"] = v5["catcher"]
        /\ v5'["sender"]["target"] = v5["sender"]["target"] + 1
    BY <1>1, <1>3 DEF Burst!send_signal
  <2>3. Burst!Returned'
    BY <1>1, <1>3, <2>1, <2>2, SMTT(30) DEF Burst!Returned
  <2> QED
    BY <1>1, <1>3, <2>1, <2>2, <2>3 DEF Burst!OneStop, Burst!Nowhere, Burst!Uninterrupted, Burst!Counted
<1>4. CASE v10 = 0 /\ Burst!send_signal("sender", "stop") /\ Burst!GoesTo("answered")
  <2> HIDE DEF l
  <2>1. /\ v5'["catcher"] = v5["catcher"]
        /\ v5'["sender"]["target"] = v5["sender"]["target"]
    BY <1>1, <1>4 DEF Burst!send_signal
  <2>2. /\ Len(v7') = l /\ DOMAIN v7' = 1 .. l
        /\ Burst!Top'.at = "answered" /\ v7'[l].at = "answered"
        /\ \A n \in 1 .. l - 1 : v7'[n] = v7[n]
        /\ Cardinality(Burst!Uncounted') = Cardinality(Burst!Uncounted)
    <3>1. Cardinality(Burst!Uncounted) \in Nat
      BY StackFinite, FS_CardinalityType
    <3> QED
      BY <1>0, <1>1, <1>4, <3>1, TopGoes DEF l, Burst!Places
  <2>3. Burst!OneStop'
    BY <1>0, <1>1, <2>1 DEF Burst!OneStop, Burst!Nowhere
  <2>4. Burst!Uninterrupted'
    BY <1>0, <1>1, <2>1, <2>2 DEF Burst!Uninterrupted, l
  <2>5. Burst!Counted'
    BY <1>1, <2>1, <2>2, BurstCardinality DEF Burst!Counted
  <2>6. Burst!Returned'
    BY <1>1, <1>4, <2>1, <2>2 DEF Burst!Returned
  <2> QED
    BY <2>3, <2>4, <2>5, <2>6
<1> QED
  BY <1>1, <1>2, <1>3, <1>4 DEF Burst!Answer

LEMMA BurstKeeps == ASSUME Burst!IInv, Burst!Next PROVE Burst!IInv'
<1>1. Burst!TypeOK /\ Burst!TypeOK' /\ v1' = v1
  BY BurstKeepsTypes DEF Burst!IInv, Burst!Next, Burst!send_signals, Burst!pause, Burst!target_signal_handler,
     Burst!FirstTarget, Burst!update_mode, Burst!sigsuspend, Burst!Resumed, Burst!Return, Burst!stop_signal_handler,
     Burst!Answer, Burst!Answered, Burst!Exit, Burst!SenderHandles, Burst!Deliver, Burst!senderVars
<1>2. SUFFICES ASSUME v1 = "sigrt", v7' # <<>>
               PROVE  Burst!OneStop' /\ Burst!Uninterrupted' /\ Burst!Counted' /\ Burst!Returned'
  BY <1>1 DEF Burst!IInv, Burst!CatcherRuns
<1>3. v7 # <<>>
  BY <1>2 DEF Burst!Next, Burst!send_signals, Burst!pause, Burst!target_signal_handler, Burst!At, Burst!CatcherRuns,
     Burst!FirstTarget, Burst!sigsuspend, Burst!Resumed, Burst!Return, Burst!stop_signal_handler, Burst!Deliverable,
     Burst!Answer, Burst!Answered, Burst!Exit, Burst!SenderHandles, Burst!Deliver, Burst!catcherVars
<1>4. Burst!OneStop /\ Burst!Uninterrupted /\ Burst!Counted /\ Burst!Returned
  BY <1>1, <1>2, <1>3 DEF Burst!IInv, Burst!CatcherRuns
<1>5. CASE Burst!send_signals \/ Burst!pause \/ \E s \in Burst!Signals : Burst!SenderHandles(s)
  BY <1>1, <1>2, <1>3, <1>4, <1>5, BurstSenderKeeps
<1>6. CASE Burst!target_signal_handler
  BY <1>1, <1>2, <1>3, <1>4, <1>6, BurstCountsOne
<1>7. CASE Burst!Return
  BY <1>1, <1>2, <1>3, <1>4, <1>7, BurstReturns
<1>8. CASE Burst!stop_signal_handler
  BY <1>1, <1>2, <1>3, <1>4, <1>8, BurstStops
<1>9. CASE Burst!Answer
  BY <1>1, <1>2, <1>3, <1>4, <1>9, BurstAnswers
<1>10. ASSUME NEW s \in Burst!Signals, Burst!Deliver(s)
       PROVE  Burst!OneStop' /\ Burst!Uninterrupted' /\ Burst!Counted' /\ Burst!Returned'
  BY <1>1, <1>2, <1>3, <1>4, <1>10, BurstDelivers
<1>11. CASE Burst!FirstTarget
  BY <1>1, <1>2, <1>3, <1>4, <1>11, BurstMovesKeep
  DEF Burst!FirstTarget, Burst!update_mode, Burst!At, Burst!senderVars, Burst!Places
<1>12. CASE Burst!sigsuspend
  BY <1>1, <1>2, <1>3, <1>4, <1>12, BurstMovesKeep
  DEF Burst!sigsuspend, Burst!At, Burst!senderVars, Burst!Places
<1>13. CASE Burst!Resumed
  BY <1>1, <1>2, <1>3, <1>4, <1>13, BurstMovesKeep
  DEF Burst!Resumed, Burst!Leaves, Burst!At, Burst!senderVars, Burst!Places
<1>14. CASE Burst!Answered
  BY <1>1, <1>2, <1>3, <1>4, <1>14, BurstMovesKeep
  DEF Burst!Answered, Burst!Leaves, Burst!At, Burst!senderVars, Burst!Places
<1>15. ~Burst!Exit
  BY <1>2 DEF Burst!Exit
<1> QED
  BY <1>5, <1>6, <1>7, <1>8, <1>9, <1>10, <1>11, <1>12, <1>13, <1>14, <1>15 DEF Burst!Next

LEMMA BurstSendsBack == ASSUME Burst!IInv PROVE Burst!SendsBackWhatItCounted
BY DEF Burst!IInv, Burst!SendsBackWhatItCounted, Burst!Counted, Burst!Returned

-------------------------------------------------------------------------------
(* Lab 5, zad3: producers and consumers over a FIFO *)

LEMMA ChunksAre ==
  /\ ManyToMany!NoChunk \notin ManyToMany!Chunks
  /\ \A x \in ManyToMany!Chunks : /\ x.row \in Producers /\ x.row \in Nat \ {0} /\ x.n \in Nat
                                  /\ x.n \in DOMAIN v1[x.row] /\ x = [row |-> x.row, n |-> x.n]
<1>1. 0 \notin Producers /\ ManyToMany!NoChunk.row = 0
  BY RealProducers DEF ManyToMany!NoChunk
<1>2. \A x \in [row : Producers, n : Nat] : /\ x.row \in Producers /\ x.row \in Nat \ {0} /\ x.n \in Nat
                                            /\ x = [row |-> x.row, n |-> x.n]
  <2> SUFFICES ASSUME NEW x \in [row : Producers, n : Nat]
               PROVE  x.row \in Producers /\ x.row \in Nat \ {0} /\ x.n \in Nat /\ x = [row |-> x.row, n |-> x.n]
    OBVIOUS
  <2>1. x.row \in Producers /\ x.n \in Nat /\ x = [row |-> x.row, n |-> x.n]
    OBVIOUS
  <2> QED
    BY <2>1, RealProducers
<1>3. \A x \in ManyToMany!Chunks : x \in [row : Producers, n : Nat] /\ x.n \in DOMAIN v1[x.row]
  BY DEF ManyToMany!Chunks
<1> QED
  BY <1>1, <1>2, <1>3

LEMMA FunctionInSeq ==
  ASSUME NEW S, NEW n \in Nat, NEW f \in [1 .. n -> S]
  PROVE  f \in Seq(S) /\ Len(f) = n /\ DOMAIN f = 1 .. n
OBVIOUS

(* Where a line of a text goes when another one is written anew. *)
Moved(i, r, m) == IF i <= r THEN i ELSE i + m

LinesMoved(rows, r, line, m, R) ==
  /\ R \in Seq(Seq(ManyToMany!Chunks)) /\ r \in DOMAIN R /\ R[r] = line
  /\ \A i \in DOMAIN rows : i # r => Moved(i, r, m) \in DOMAIN R /\ R[Moved(i, r, m)] = rows[i]
  /\ \A j \in DOMAIN R :
       \/ j = r \/ R[j] = <<>>
       \/ \E i \in DOMAIN rows : i # r /\ R[j] = rows[i] /\ j = Moved(i, r, m)
  /\ \A i \in Nat \ {0} : i < r \/ (i # r /\ m = 0) => ManyToMany!Line(R, i) = ManyToMany!Line(rows, i)
  /\ ManyToMany!Line(R, r) = line

LEMMA LinesMove ==
  ASSUME NEW rows \in Seq(Seq(ManyToMany!Chunks)), NEW r \in Nat \ {0}, NEW line \in Seq(ManyToMany!Chunks), NEW m \in Nat,
         NEW R, R = ManyToMany!Rewritten(rows, r, line, m)
  PROVE  LinesMoved(rows, r, line, m, R)
<1> DEFINE l == Len(rows)  b == IF r <= l THEN l ELSE r
<1>1. l \in Nat /\ b \in Nat /\ l <= b /\ r <= b /\ DOMAIN rows = 1 .. l /\ \A i \in 1 .. l : rows[i] \in Seq(ManyToMany!Chunks)
  BY SeqIsSeq
<1>2. <<>> \in Seq(ManyToMany!Chunks)
  OBVIOUS
<1>3. \A i \in Nat \ {0} : ManyToMany!Line(rows, i) \in Seq(ManyToMany!Chunks) /\ (i > l => ManyToMany!Line(rows, i) = <<>>) /\ (i <= l => ManyToMany!Line(rows, i) = rows[i])
  BY <1>1, <1>2 DEF ManyToMany!Line
<1>4. R = [i \in 1 .. b + m |-> IF i < r THEN ManyToMany!Line(rows, i) ELSE IF i = r THEN line
                               ELSE IF i <= r + m THEN <<>> ELSE ManyToMany!Line(rows, i - m)]
  BY DEF ManyToMany!Rewritten
<1> HIDE DEF b
<1>5. \A i \in 1 .. b + m : R[i] \in Seq(ManyToMany!Chunks)
  <2> SUFFICES ASSUME NEW i \in 1 .. b + m PROVE R[i] \in Seq(ManyToMany!Chunks)
    OBVIOUS
  <2>1. CASE i > r + m
    <3>1. i - m \in Nat \ {0} /\ R[i] = ManyToMany!Line(rows, i - m)
      BY <1>1, <1>4, <2>1
    <3> QED
      BY <1>3, <3>1
  <2> QED
    BY <1>1, <1>2, <1>3, <1>4, <2>1
<1>6. b + m \in Nat /\ R \in Seq(Seq(ManyToMany!Chunks)) /\ DOMAIN R = 1 .. b + m /\ Len(R) = b + m
  <2>1. b + m \in Nat
    BY <1>1
  <2>2. R = [i \in 1 .. b + m |-> R[i]]
    BY <1>4
  <2>3. R \in [1 .. b + m -> Seq(ManyToMany!Chunks)]
    BY <1>5, <2>2
  <2> QED
    BY <2>1, <2>3, FunctionInSeq
<1>7. r \in DOMAIN R /\ R[r] = line
  BY <1>1, <1>4, <1>6
<1>8. ASSUME NEW i \in DOMAIN rows, i # r
      PROVE  Moved(i, r, m) \in DOMAIN R /\ R[Moved(i, r, m)] = rows[i]
  <2>1. i \in Nat \ {0} /\ i <= l /\ ManyToMany!Line(rows, i) = rows[i]
    BY <1>1, <1>3, <1>8
  <2>2. CASE i < r
    BY <1>1, <1>4, <1>6, <2>1, <2>2 DEF Moved
  <2>3. CASE i > r
    <3>1. /\ i + m \in 1 .. b + m /\ ~(i + m < r) /\ i + m # r /\ ~(i + m <= r + m) /\ (i + m) - m = i
          /\ Moved(i, r, m) = i + m
      BY <1>1, <2>1, <2>3 DEF Moved
    <3> QED
      BY <1>4, <1>6, <2>1, <3>1
  <2> QED
    BY <1>8, <2>1, <2>2, <2>3
<1>9. ASSUME NEW j \in DOMAIN R, j # r, R[j] # <<>>
      PROVE  \E i \in DOMAIN rows : i # r /\ R[j] = rows[i] /\ j = Moved(i, r, m)
  <2>1. j \in 1 .. b + m
    BY <1>6
  <2>2. CASE j < r
    <3>1. R[j] = ManyToMany!Line(rows, j) /\ j \in Nat \ {0}
      BY <1>4, <2>1, <2>2
    <3>2. j <= l /\ R[j] = rows[j]
      <4>1. ~(j > l)
        BY <1>3, <1>9, <3>1
      <4>2. j <= l
        BY <1>1, <3>1, <4>1
      <4> QED
        BY <1>3, <3>1, <4>2
    <3>3. j \in DOMAIN rows /\ j = Moved(j, r, m)
      BY <1>1, <2>2, <3>1, <3>2 DEF Moved
    <3> QED
      BY <1>9, <3>2, <3>3
  <2>3. CASE j > r
    <3>1. R[j] # <<>> /\ ~(j < r) /\ j # r
      BY <1>1, <1>9, <2>1, <2>3
    <3>2. ~(j <= r + m) /\ R[j] = ManyToMany!Line(rows, j - m)
      BY <1>4, <2>1, <3>1
    <3>3. j - m \in Nat \ {0} /\ j - m > r /\ (j - m) + m = j
      BY <1>1, <2>1, <3>2
    <3>4. j - m <= l /\ R[j] = rows[j - m]
      <4>1. ~(j - m > l)
        BY <1>3, <3>1, <3>2, <3>3
      <4>2. j - m <= l
        BY <1>1, <3>3, <4>1
      <4> QED
        BY <1>3, <3>2, <3>3, <4>2
    <3>5. j - m \in DOMAIN rows /\ j = Moved(j - m, r, m) /\ j - m # r
      BY <1>1, <3>3, <3>4 DEF Moved
    <3> QED
      BY <3>4, <3>5
  <2> QED
    BY <1>9, <2>1, <2>2, <2>3
<1>10. ASSUME NEW i \in Nat \ {0}, i < r \/ (i # r /\ m = 0)
       PROVE  ManyToMany!Line(R, i) = ManyToMany!Line(rows, i)
  <2>1. CASE i <= b + m
    <3>1. i \in 1 .. b + m /\ ManyToMany!Line(R, i) = R[i]
      BY <1>6, <2>1 DEF ManyToMany!Line
    <3>2. CASE i < r
      BY <1>4, <3>1, <3>2
    <3>3. CASE ~(i < r)
      <4>1. m = 0 /\ i > r /\ i - m = i /\ ~(i <= r + m)
        BY <1>10, <3>3
      <4> QED
        BY <1>4, <3>1, <3>3, <4>1
    <3> QED
      BY <3>2, <3>3
  <2>2. CASE ~(i <= b + m)
    <3>1. ManyToMany!Line(R, i) = <<>> /\ i > l
      BY <1>1, <1>6, <2>2 DEF ManyToMany!Line
    <3> QED
      BY <1>3, <3>1
  <2> QED
    BY <2>1, <2>2
<1>11. ManyToMany!Line(R, r) = line
  BY <1>1, <1>6, <1>7 DEF ManyToMany!Line
<1> QED
  BY <1>6, <1>7, <1>8, <1>9, <1>10, <1>11 DEF LinesMoved

(* What stands where after a chunk was appended. *)
LEMMA ChunkStored ==
  ASSUME NEW rows \in ManyToMany!Rows, NEW x \in ManyToMany!Chunks, ManyToMany!TypeOK, NEW R, R = ManyToMany!append_to_file_row(rows, x)
  PROVE  /\ R \in ManyToMany!Rows
         /\ \A j \in DOMAIN R : \A k \in DOMAIN R[j] :
              \/ R[j][k] = x /\ j = x.row /\ k = Len(ManyToMany!Line(rows, x.row)) + 1
              \/ \E i \in DOMAIN rows : /\ k \in DOMAIN rows[i] /\ rows[i][k] = R[j][k]
                                        /\ j = Moved(i, x.row, v1[x.row][x.n])
         /\ \A i \in DOMAIN rows : \A k \in DOMAIN rows[i] :
              \E j \in DOMAIN R : k \in DOMAIN R[j] /\ R[j][k] = rows[i][k]
         /\ \E j \in DOMAIN R : \E k \in DOMAIN R[j] : R[j][k] = x
         /\ ManyToMany!Line(R, x.row) = Append(ManyToMany!Line(rows, x.row), x)
         /\ \A i \in Nat \ {0} : i < x.row \/ (i # x.row /\ v1[x.row][x.n] = 0) => ManyToMany!Line(R, i) = ManyToMany!Line(rows, i)
<1> DEFINE r == x.row  m == v1[r][x.n]  old == ManyToMany!Line(rows, r)  new == Append(old, x)
<1>1. /\ r \in Nat \ {0} /\ m \in Nat /\ rows \in Seq(Seq(ManyToMany!Chunks)) /\ R = ManyToMany!Rewritten(rows, r, new, m)
  <2>1. r \in Producers /\ r \in Nat \ {0} /\ x.n \in DOMAIN v1[r] /\ v1[r] \in Seq(Nat)
    BY ChunksAre DEF ManyToMany!TypeOK
  <2>2. m \in Nat
    BY <2>1, SeqIsSeq
  <2> QED
    BY <2>1, <2>2 DEF ManyToMany!Rows, ManyToMany!append_to_file_row
<1>2. old \in Seq(ManyToMany!Chunks) /\ new \in Seq(ManyToMany!Chunks)
  <2>1. old \in Seq(ManyToMany!Chunks)
    BY <1>1, SeqIsSeq DEF ManyToMany!Line
  <2> QED
    BY <2>1
<1>3. /\ Len(old) \in Nat /\ DOMAIN old = 1 .. Len(old) /\ DOMAIN new = 1 .. Len(old) + 1
      /\ new[Len(old) + 1] = x /\ \A k \in 1 .. Len(old) : new[k] = old[k]
  BY <1>2, SeqIsSeq
<1>4. /\ r \notin DOMAIN rows => DOMAIN old = {}
      /\ r \in DOMAIN rows => old = rows[r]
  BY <1>1, SeqIsSeq DEF ManyToMany!Line
<1> HIDE DEF r, m, old, new
<1>5. /\ R \in Seq(Seq(ManyToMany!Chunks)) /\ r \in DOMAIN R /\ R[r] = new
      /\ \A i \in DOMAIN rows : i # r => Moved(i, r, m) \in DOMAIN R /\ R[Moved(i, r, m)] = rows[i]
      /\ \A j \in DOMAIN R :
           \/ j = r \/ R[j] = <<>>
           \/ \E i \in DOMAIN rows : i # r /\ R[j] = rows[i] /\ j = Moved(i, r, m)
      /\ \A i \in Nat \ {0} : i < r \/ (i # r /\ m = 0) => ManyToMany!Line(R, i) = ManyToMany!Line(rows, i)
      /\ ManyToMany!Line(R, r) = new
  <2>1. LinesMoved(rows, r, new, m, R)
    BY <1>1, <1>2, LinesMove
  <2> QED
    BY <2>1 DEF LinesMoved
<1>6. ASSUME NEW j \in DOMAIN R, NEW k \in DOMAIN R[j]
      PROVE  \/ R[j][k] = x /\ j = r /\ k = Len(old) + 1
             \/ \E i \in DOMAIN rows : k \in DOMAIN rows[i] /\ rows[i][k] = R[j][k] /\ j = Moved(i, r, m)
  <2>1. CASE j = r
    <3>1. k \in 1 .. Len(old) + 1 /\ R[j] = new
      BY <1>3, <1>5, <1>6, <2>1
    <3>2. CASE k = Len(old) + 1
      BY <1>3, <2>1, <3>1, <3>2
    <3>3. CASE k # Len(old) + 1
      <4>1. k \in 1 .. Len(old) /\ k \in DOMAIN old /\ new[k] = old[k]
        BY <1>3, <3>1, <3>3
      <4>2. r \in DOMAIN rows /\ old = rows[r] /\ j = Moved(r, r, m)
        BY <1>1, <1>4, <2>1, <4>1 DEF Moved
      <4> QED
        BY <3>1, <4>1, <4>2
    <3> QED
      BY <3>2, <3>3
  <2>2. CASE j # r
    <3>1. R[j] # <<>>
      <4>1. DOMAIN <<>> = {}
        OBVIOUS
      <4> QED
        BY <1>6, <4>1
    <3> QED
      BY <1>5, <1>6, <2>2, <3>1
  <2> QED
    BY <2>1, <2>2
<1>7. ASSUME NEW i \in DOMAIN rows, NEW k \in DOMAIN rows[i]
      PROVE  \E j \in DOMAIN R : k \in DOMAIN R[j] /\ R[j][k] = rows[i][k]
  <2>1. CASE i = r
    <3>1. k \in 1 .. Len(old) /\ k \in DOMAIN new /\ new[k] = rows[i][k]
      BY <1>3, <1>4, <1>7, <2>1
    <3> QED
      BY <1>5, <3>1
  <2>2. CASE i # r
    BY <1>5, <1>7, <2>2
  <2> QED
    BY <2>1, <2>2
<1>8. \E j \in DOMAIN R : \E k \in DOMAIN R[j] : R[j][k] = x
  <2>1. Len(old) + 1 \in DOMAIN new
    BY <1>3
  <2> QED
    BY <1>3, <1>5, <2>1
<1>9. R \in ManyToMany!Rows
  BY <1>5 DEF ManyToMany!Rows
<1> QED
  BY <1>5, <1>6, <1>7, <1>8, <1>9 DEF r, m, old, new

-------------------------------------------------------------------------------
InPlaces ==
  /\ ManyToMany!Once /\ ManyToMany!Stored \cup ManyToMany!InHand \cup ManyToMany!Coming = ManyToMany!Written
  /\ ManyToMany!Alone => \A p \in Producers : ManyToMany!Straight(p) => ManyToMany!InOrder(p) /\ ManyToMany!NextOfLine(p)

LEMMA SameChunks == ASSUME UNCHANGED v1 PROVE ManyToMany!Chunks' = ManyToMany!Chunks /\ ManyToMany!Rows' = ManyToMany!Rows
BY DEF ManyToMany!Chunks, ManyToMany!Rows

LEMMA FifoBegins == ASSUME ManyToMany!Init PROVE ManyToMany!IInv
<1>1. /\ v1 \in [Producers -> ManyToMany!Files] /\ v3 = [p \in Producers |-> 0]
      /\ v2 = [p \in Producers |-> "start"] /\ v5 \in [Consumers -> {"none", "start"}]
      /\ v4 = <<>> /\ v8 = <<>> /\ v9 = FALSE
      /\ v6 = [c \in Consumers |-> ManyToMany!NoChunk] /\ v7 = [c \in Consumers |-> <<>>]
  BY DEF ManyToMany!Init, ManyToMany!NoRows
<1>2. \A f \in ManyToMany!Files : f \in Seq(Nat) /\ Len(f) \in Nat
  <2> SUFFICES ASSUME NEW f \in ManyToMany!Files PROVE f \in Seq(Nat) /\ Len(f) \in Nat
    OBVIOUS
  <2>1. PICK n \in 0 .. MaxChunks : f \in [1 .. n -> 0 .. MaxNewlines]
    BY DEF ManyToMany!Files
  <2>2. n \in Nat /\ f \in [1 .. n -> Nat]
    BY <2>1
  <2> QED
    BY <2>2, FunctionInSeq
<1>3. ManyToMany!TypeOK
  <2>1. /\ v1 \in [Producers -> Seq(Nat)] /\ \A p \in Producers : v3[p] <= Len(v1[p])
    BY <1>1, <1>2
  <2>2. v4 \in Seq(ManyToMany!Chunks) /\ v8 \in ManyToMany!Rows /\ v7 \in [Consumers -> ManyToMany!Rows]
    BY <1>1 DEF ManyToMany!Rows
  <2> QED
    BY <1>1, <2>1, <2>2 DEF ManyToMany!TypeOK
<1>4. DOMAIN v4 = {} /\ DOMAIN v8 = {} /\ Len(v8) = 0
  BY <1>1
<1>5. ManyToMany!Stored = {} /\ ManyToMany!InHand = {} /\ ManyToMany!Coming = {} /\ ManyToMany!Written = {}
  <2>1. \A p \in Producers : 1 .. v3[p] = {}
    BY <1>1
  <2> QED
    BY <1>1, <1>4, <2>1 DEF ManyToMany!Stored, ManyToMany!InHand, ManyToMany!Coming, ManyToMany!Written, ManyToMany!Elements
<1>6. \A p \in Producers : DOMAIN ManyToMany!Line(v8, p) = {} /\ ~\E c \in Consumers : v6[c].row = p
  <2> SUFFICES ASSUME NEW p \in Producers PROVE DOMAIN ManyToMany!Line(v8, p) = {} /\ ~\E c \in Consumers : v6[c].row = p
    OBVIOUS
  <2>1. p \in Nat \ {0}
    BY RealProducers
  <2>2. ManyToMany!Line(v8, p) = <<>>
    BY <1>4, <2>1 DEF ManyToMany!Line
  <2>3. \A c \in Consumers : v6[c].row = 0
    BY <1>1 DEF ManyToMany!NoChunk
  <2> QED
    BY <2>1, <2>2, <2>3
<1> QED
  BY <1>1, <1>3, <1>4, <1>5, <1>6
  DEF ManyToMany!IInv, ManyToMany!Hands, ManyToMany!InTurn, ManyToMany!OneSaves, ManyToMany!Saving, ManyToMany!Once, ManyToMany!Settled, ManyToMany!InOrder, ManyToMany!NextOfLine

(* A step by which no chunk gets to another place, unless the FIFO loses all. *)
SameHands == \A c \in Consumers : /\ v5'[c] \in {"load", "store"} <=> v5[c] \in {"load", "store"}
                                  /\ v5'[c] = "store" <=> v5[c] = "store"
                                  /\ v5'[c] = "none" <=> v5[c] = "none"

LEMMA SameActive ==
  ASSUME \A c \in Consumers : v5'[c] = "none" <=> v5[c] = "none"
  PROVE  ManyToMany!Alone' = ManyToMany!Alone
<1>1. {c \in Consumers : v5'[c] # "none"} = {c \in Consumers : v5[c] # "none"}
  OBVIOUS
<1> QED
  BY <1>1 DEF ManyToMany!Alone

LEMMA SamePlaces ==
  ASSUME UNCHANGED <<v1, v3, v4, v6, v8>>, ManyToMany!Alone' = ManyToMany!Alone, InPlaces, ManyToMany!InTurn, ManyToMany!Settled
  PROVE  InPlaces' /\ ManyToMany!InTurn' /\ ManyToMany!Settled'
<1>1. /\ ManyToMany!Stored' = ManyToMany!Stored /\ ManyToMany!InHand' = ManyToMany!InHand /\ ManyToMany!Coming' = ManyToMany!Coming /\ ManyToMany!Written' = ManyToMany!Written
      /\ \A p : ManyToMany!Straight(p)' = ManyToMany!Straight(p) /\ ManyToMany!InOrder(p)' = ManyToMany!InOrder(p) /\ ManyToMany!NextOfLine(p)' = ManyToMany!NextOfLine(p)
  BY DEF ManyToMany!Stored, ManyToMany!InHand, ManyToMany!Coming, ManyToMany!Written, ManyToMany!Straight, ManyToMany!InOrder, ManyToMany!NextOfLine, ManyToMany!Elements
<1>2. ManyToMany!Once' = ManyToMany!Once
  BY <1>1 DEF ManyToMany!Once
<1>3. InPlaces'
  BY <1>1, <1>2 DEF InPlaces
<1>4. ManyToMany!InTurn'
  BY DEF ManyToMany!InTurn
<1>5. ManyToMany!Settled'
  BY <1>1 DEF ManyToMany!Settled
<1> QED
  BY <1>3, <1>4, <1>5

LEMMA NothingMoves ==
  ASSUME ManyToMany!IInv, ManyToMany!TypeOK', SameHands, UNCHANGED <<v1, v3, v6, v7>>,
         ~v9' => ~v9 /\ UNCHANGED <<v4, v8>>
  PROVE  ManyToMany!IInv'
<1>1. ManyToMany!Hands'
  BY DEF ManyToMany!IInv, ManyToMany!Hands, ManyToMany!NoChunk, SameHands
<1>2. ASSUME ~v9' PROVE ManyToMany!InTurn' /\ ManyToMany!OneSaves' /\ ManyToMany!Settled' /\ InPlaces'
  <2>1. ~v9 /\ UNCHANGED <<v1, v3, v4, v6, v7, v8>>
    BY <1>2
  <2>2. ManyToMany!Alone' = ManyToMany!Alone
    BY SameActive DEF SameHands
  <2>3. ManyToMany!OneSaves'
    <3>1. ManyToMany!Saving' = ManyToMany!Saving
      BY DEF SameHands, ManyToMany!Saving
    <3> QED
      BY <2>1, <3>1 DEF ManyToMany!IInv, ManyToMany!OneSaves
  <2> QED
    BY <2>1, <2>2, <2>3, SamePlaces DEF ManyToMany!IInv, InPlaces
<1> QED
  BY <1>1, <1>2 DEF ManyToMany!IInv, InPlaces

LEMMA OpenKeeps ==
  ASSUME ManyToMany!IInv,
         \/ \E p \in Producers : ManyToMany!OpenForWriting(p)
         \/ \E c \in Consumers : ManyToMany!OpenForReading(c)
  PROVE  ManyToMany!IInv'
<1>1. UNCHANGED <<v1, v3, v4, v6, v7, v8, v9>> /\ ManyToMany!TypeOK /\ ManyToMany!Chunks' = ManyToMany!Chunks /\ ManyToMany!Rows' = ManyToMany!Rows
  <2>1. UNCHANGED <<v1, v3, v4, v6, v7, v8, v9>> /\ ManyToMany!TypeOK
    BY DEF ManyToMany!OpenForWriting, ManyToMany!OpenForReading, ManyToMany!IInv
  <2> QED
    BY <2>1, SameChunks
<1>2. CASE \E p \in Producers : ManyToMany!OpenForWriting(p)
  <2>1. ManyToMany!TypeOK' /\ SameHands
    BY <1>1, <1>2 DEF ManyToMany!TypeOK, ManyToMany!OpenForWriting, ManyToMany!ConsumersWoken, SameHands
  <2> QED
    BY <1>1, <2>1, NothingMoves
<1>3. CASE \E c \in Consumers : ManyToMany!OpenForReading(c)
  <2>1. ManyToMany!TypeOK' /\ SameHands
    BY <1>1, <1>3 DEF ManyToMany!TypeOK, ManyToMany!OpenForReading, ManyToMany!ProducersWoken, SameHands
  <2> QED
    BY <1>1, <2>1, NothingMoves
<1> QED
  BY <1>2, <1>3

LEMMA EmptyFileKeeps ==
  ASSUME ManyToMany!IInv, NEW c \in Consumers, ManyToMany!create_empty_file(c)
  PROVE  ManyToMany!IInv'
<1>1. ManyToMany!Chunks' = ManyToMany!Chunks /\ ManyToMany!Rows' = ManyToMany!Rows /\ <<>> \in ManyToMany!Rows
  <2>1. ManyToMany!Chunks' = ManyToMany!Chunks /\ ManyToMany!Rows' = ManyToMany!Rows
    BY SameChunks DEF ManyToMany!create_empty_file
  <2> QED
    BY <2>1 DEF ManyToMany!Rows
<1>2. ManyToMany!TypeOK'
  BY <1>1 DEF ManyToMany!IInv, ManyToMany!TypeOK, ManyToMany!create_empty_file, ManyToMany!NoRows
<1>3. SameHands
  BY DEF ManyToMany!IInv, ManyToMany!TypeOK, ManyToMany!create_empty_file, SameHands
<1> QED
  BY <1>2, <1>3, NothingMoves DEF ManyToMany!create_empty_file

LEMMA CloseKeeps ==
  ASSUME ManyToMany!IInv, NEW c \in Consumers, ManyToMany!Close(c)
  PROVE  ManyToMany!IInv'
<1>1. v4 \in Seq(ManyToMany!Chunks) /\ v4' \in Seq(ManyToMany!Chunks) /\ v9' \in BOOLEAN
  BY DEF ManyToMany!IInv, ManyToMany!TypeOK, ManyToMany!Close, ManyToMany!Leave
<1>2. ManyToMany!Chunks' = ManyToMany!Chunks /\ ManyToMany!Rows' = ManyToMany!Rows
  BY SameChunks DEF ManyToMany!Close
<1>3. ManyToMany!TypeOK' /\ SameHands
  BY <1>1, <1>2 DEF ManyToMany!IInv, ManyToMany!TypeOK, ManyToMany!Close, SameHands
<1> QED
  BY <1>3, NothingMoves DEF ManyToMany!Close, ManyToMany!Leave

(* The end of a FIFO read *)
LEMMA EndOfFifoKeeps ==
  ASSUME ManyToMany!IInv, NEW c \in Consumers, v5[c] = "read", v5' = [v5 EXCEPT ![c] = "close"],
         UNCHANGED <<v1, v2, v3, v4, v6, v7, v8, v9>>
  PROVE  ManyToMany!IInv'
<1>1. ManyToMany!Chunks' = ManyToMany!Chunks /\ ManyToMany!Rows' = ManyToMany!Rows
  BY SameChunks
<1>2. ManyToMany!TypeOK' /\ SameHands
  BY <1>1 DEF ManyToMany!IInv, ManyToMany!TypeOK, SameHands
<1> QED
  BY <1>2, NothingMoves

LEMMA LoadKeeps ==
  ASSUME ManyToMany!IInv, NEW c \in Consumers, ManyToMany!Load(c)
  PROVE  ManyToMany!IInv'
<1>1. /\ v5[c] = "load" /\ v5' = [v5 EXCEPT ![c] = "store"]
      /\ v7' = [v7 EXCEPT ![c] = v8]
      /\ UNCHANGED <<v1, v2, v3, v4, v6, v8>> /\ v9' = (v9 \/ ManyToMany!Saving # {})
  BY DEF ManyToMany!Load
<1>2. ManyToMany!TypeOK'
  <2>1. ManyToMany!Chunks' = ManyToMany!Chunks /\ ManyToMany!Rows' = ManyToMany!Rows
    BY <1>1, SameChunks
  <2> QED
    BY <1>1, <2>1 DEF ManyToMany!IInv, ManyToMany!TypeOK
<1>3. /\ v5'[c] = "store" /\ (\A d \in Consumers \ {c} : v5'[d] = v5[d]) /\ v7'[c] = v8
      /\ ManyToMany!Saving' = ManyToMany!Saving \cup {c}
  BY <1>1 DEF ManyToMany!IInv, ManyToMany!TypeOK, ManyToMany!Saving
<1>4. ManyToMany!Hands'
  BY <1>1, <1>3 DEF ManyToMany!IInv, ManyToMany!Hands, ManyToMany!NoChunk
<1>5. ASSUME ~v9' PROVE ManyToMany!InTurn' /\ ManyToMany!OneSaves' /\ ManyToMany!Settled' /\ InPlaces'
  <2>1. ~v9 /\ ManyToMany!Saving = {}
    BY <1>1, <1>5
  <2>2. ManyToMany!OneSaves'
    BY <1>1, <1>3, <2>1 DEF ManyToMany!OneSaves
  <2>3. ManyToMany!Alone' = ManyToMany!Alone
    BY <1>1, <1>3, SameActive
  <2> QED
    BY <1>1, <2>1, <2>2, <2>3, SamePlaces DEF ManyToMany!IInv, InPlaces
<1> QED
  BY <1>2, <1>4, <1>5 DEF ManyToMany!IInv, InPlaces

LEMMA WrittenIs ==
  ASSUME ManyToMany!TypeOK
  PROVE  \A x : x \in ManyToMany!Written <=> /\ x \in [row : Producers, n : Nat]
                                             /\ x.n \in 1 .. v3[x.row]
<1>1. \A p \in Producers : v3[p] \in Nat
  BY DEF ManyToMany!TypeOK
<1>2. ASSUME NEW x, x \in ManyToMany!Written
      PROVE  x \in [row : Producers, n : Nat] /\ x.n \in 1 .. v3[x.row]
  BY <1>1, <1>2 DEF ManyToMany!Written
<1>3. ASSUME NEW x \in [row : Producers, n : Nat], x.n \in 1 .. v3[x.row]
      PROVE  x \in ManyToMany!Written
  <2>1. x = [row |-> x.row, n |-> x.n] /\ x.row \in Producers
    OBVIOUS
  <2> QED
    BY <1>3, <2>1 DEF ManyToMany!Written
<1> QED
  BY <1>2, <1>3

LEMMA ProduceKeeps ==
  ASSUME ManyToMany!IInv, NEW p \in Producers, ManyToMany!produce(p)
  PROVE  ManyToMany!IInv'
<1>0. UNCHANGED <<v1, v5, v6, v7, v8>> /\ SameHands /\ ManyToMany!Chunks' = ManyToMany!Chunks /\ ManyToMany!Rows' = ManyToMany!Rows
  BY SameChunks DEF ManyToMany!produce, SameHands
<1>1. CASE UNCHANGED v3 /\ \E writers, readers : ManyToMany!Leave(writers, readers)
  <2>1. (v4' = v4 \/ v4' = <<>>) /\ v9' = (v9 \/ v4' # v4)
    BY <1>1 DEF ManyToMany!Leave
  <2>2. ManyToMany!TypeOK'
    <3>1. v4 \in Seq(ManyToMany!Chunks) /\ v9 \in BOOLEAN
      BY DEF ManyToMany!IInv, ManyToMany!TypeOK
    <3>2. <<>> \in Seq(ManyToMany!Chunks) /\ \A a, b : (a \/ b) \in BOOLEAN
      OBVIOUS
    <3>3. v4' \in Seq(ManyToMany!Chunks) /\ v9' \in BOOLEAN
      BY <2>1, <3>1, <3>2
    <3>4. v2' \in [Producers -> {"start", "opening", "produce", "ended", "killed"}]
      BY DEF ManyToMany!IInv, ManyToMany!TypeOK, ManyToMany!produce
    <3> QED
      BY <1>0, <1>1, <3>3, <3>4 DEF ManyToMany!IInv, ManyToMany!TypeOK
  <2> QED
    BY <1>0, <1>1, <2>1, <2>2, NothingMoves
<1>2. ASSUME v3[p] # Len(v1[p]), v3' = [v3 EXCEPT ![p] = v3[p] + 1], UNCHANGED <<v2, v9>>,
             v4' = Append(v4, [row |-> p, n |-> v3'[p]])
      PROVE  ManyToMany!IInv'
  <2> DEFINE x == [row |-> p, n |-> v3'[p]]
  <2>0. ManyToMany!TypeOK
    BY DEF ManyToMany!IInv
  <2>1. /\ v3[p] \in Nat /\ v3'[p] = v3[p] + 1 /\ v3' \in [Producers -> Nat]
        /\ \A q \in Producers : q # p => v3'[q] = v3[q]
        /\ v1[p] \in Seq(Nat) /\ Len(v1[p]) \in Nat /\ v3'[p] <= Len(v1[p])
        /\ \A q \in Producers : v3[q] \in Nat
    BY <1>2, <2>0 DEF ManyToMany!TypeOK
  <2>2. x \in ManyToMany!Chunks /\ x.row = p /\ x.n = v3[p] + 1 /\ x \in [row : Producers, n : Nat]
    <3>1. x \in [row : Producers, n : Nat] /\ x.row = p /\ x.n = v3[p] + 1
      BY <2>1
    <3>2. x.n \in DOMAIN v1[p]
      BY <2>1, <3>1, SeqIsSeq
    <3> QED
      BY <3>1, <3>2 DEF ManyToMany!Chunks
  <2>3. v4 \in Seq(ManyToMany!Chunks) /\ v4' = Append(v4, x)
    BY <1>2, <2>0 DEF ManyToMany!TypeOK
  <2> HIDE DEF x
  <2>4. /\ Len(v4) \in Nat /\ DOMAIN v4 = 1 .. Len(v4) /\ v4' \in Seq(ManyToMany!Chunks)
        /\ DOMAIN v4' = (DOMAIN v4) \cup {Len(v4) + 1}
        /\ v4'[Len(v4) + 1] = x /\ (\A k \in DOMAIN v4 : v4'[k] = v4[k] /\ v4[k] \in ManyToMany!Chunks)
        /\ \A k \in DOMAIN v4 : k < Len(v4) + 1
    <3>1. Len(v4) \in Nat /\ DOMAIN v4 = 1 .. Len(v4)
      BY <2>3, SeqIsSeq
    <3> QED
      BY <2>2, <2>3, <3>1, AppendKeeps, SeqIsSeq
  <2>5. ManyToMany!TypeOK'
    <3>1. \A q \in Producers : v3'[q] <= Len(v1[q])
      BY <2>0, <2>1 DEF ManyToMany!TypeOK
    <3> QED
      BY <1>0, <1>2, <2>0, <2>1, <2>4, <3>1 DEF ManyToMany!TypeOK
  <2>6. ManyToMany!Hands'
    BY <1>0 DEF ManyToMany!IInv, ManyToMany!Hands, ManyToMany!NoChunk
  <2>7. ASSUME ~v9' PROVE ManyToMany!InTurn' /\ ManyToMany!OneSaves' /\ ManyToMany!Settled' /\ InPlaces'
    <3>1. ~v9 /\ InPlaces /\ ManyToMany!InTurn /\ ManyToMany!Settled /\ ManyToMany!OneSaves
      BY <1>2, <2>7 DEF ManyToMany!IInv, InPlaces
    <3>2. ManyToMany!OneSaves'
      BY <1>0, <3>1 DEF ManyToMany!OneSaves, ManyToMany!Saving
    <3>3. ManyToMany!Alone' = ManyToMany!Alone
      BY <1>0, SameActive
    <3>4. /\ ManyToMany!Stored' = ManyToMany!Stored /\ ManyToMany!InHand' = ManyToMany!InHand /\ ManyToMany!Coming' = ManyToMany!Coming \cup {x}
          /\ \A q : ManyToMany!Straight(q)' = ManyToMany!Straight(q) /\ ManyToMany!InOrder(q)' = ManyToMany!InOrder(q) /\ ManyToMany!NextOfLine(q)' = ManyToMany!NextOfLine(q)
      <4>1. /\ ManyToMany!Stored' = ManyToMany!Stored /\ ManyToMany!InHand' = ManyToMany!InHand
            /\ \A q : ManyToMany!Straight(q)' = ManyToMany!Straight(q) /\ ManyToMany!InOrder(q)' = ManyToMany!InOrder(q) /\ ManyToMany!NextOfLine(q)' = ManyToMany!NextOfLine(q)
        BY <1>0 DEF ManyToMany!Stored, ManyToMany!InHand, ManyToMany!Straight, ManyToMany!InOrder, ManyToMany!NextOfLine, ManyToMany!Elements
      <4>2. ManyToMany!Coming' = ManyToMany!Coming \cup {x}
        BY <2>4 DEF ManyToMany!Coming, ManyToMany!Elements
      <4> QED
        BY <4>1, <4>2
    <3>5. x \notin ManyToMany!Written /\ ManyToMany!Written' = ManyToMany!Written \cup {x}
      <4>1. x \notin ManyToMany!Written
        BY <2>0, <2>1, <2>2, WrittenIs
      <4>2. \A y : y \in ManyToMany!Written' <=> y \in [row : Producers, n : Nat] /\ y.n \in 1 .. v3'[y.row]
        BY <2>1 DEF ManyToMany!Written
      <4>3. \A y \in [row : Producers, n : Nat] :
              /\ y.row \in Producers /\ y.n \in Nat
              /\ y.row = p /\ y.n = v3[p] + 1 => y = x
        BY <2>2
      <4>4. \A y \in [row : Producers, n : Nat] : y.n \in 1 .. v3'[y.row] <=> y.n \in 1 .. v3[y.row] \/ y = x
        BY <2>1, <2>2, <4>3
      <4> QED
        BY <2>0, <2>2, <4>1, <4>2, <4>4, WrittenIs
    <3>6. InPlaces'
      <4>1. x \notin ManyToMany!Stored /\ x \notin ManyToMany!InHand /\ x \notin ManyToMany!Coming
        BY <3>1, <3>5 DEF InPlaces
      <4>2. \A k \in DOMAIN v4 : v4[k] # x
        BY <4>1 DEF ManyToMany!Coming, ManyToMany!Elements
      <4>3. \A k, l \in DOMAIN v4' : v4'[k] = v4'[l] => k = l
        BY <2>4, <3>1, <4>2 DEF InPlaces, ManyToMany!Once
      <4>4. ManyToMany!Once'
        BY <1>0, <3>1, <3>4, <4>1, <4>3 DEF InPlaces, ManyToMany!Once
      <4>5. (ManyToMany!Stored \cup ManyToMany!InHand \cup ManyToMany!Coming = ManyToMany!Written)'
        BY <3>1, <3>4, <3>5 DEF InPlaces
      <4> QED
        BY <3>1, <3>3, <3>4, <4>4, <4>5 DEF InPlaces
    <3>7. ManyToMany!InTurn'
      <4> SUFFICES ASSUME NEW k \in DOMAIN v4', NEW n \in v4'[k].n + 1 .. v3'[v4'[k].row]
                   PROVE  \E j \in DOMAIN v4' : j > k /\ v4'[j] = [row |-> v4'[k].row, n |-> n]
        BY DEF ManyToMany!InTurn
      <4>1. CASE k = Len(v4) + 1
        BY <2>1, <2>2, <2>4, <4>1
      <4>2. CASE k \in DOMAIN v4
        <5>1. /\ v4'[k] = v4[k] /\ v4[k] \in ManyToMany!Chunks /\ v4[k].row \in Producers /\ v4[k].n \in Nat
          BY <2>4, <4>2, ChunksAre
        <5>2. CASE n \in v4[k].n + 1 .. v3[v4[k].row]
          <6>1. PICK j \in DOMAIN v4 : j > k /\ v4[j] = [row |-> v4[k].row, n |-> n]
            BY <3>1, <4>2, <5>2 DEF ManyToMany!InTurn
          <6> QED
            BY <2>4, <5>1, <6>1
        <5>3. CASE n \notin v4[k].n + 1 .. v3[v4[k].row]
          <6>1. v4[k].row = p /\ n = v3[p] + 1
            BY <2>1, <5>1, <5>3
          <6>2. x = [row |-> v4[k].row, n |-> n]
            BY <2>1, <6>1 DEF x
          <6> QED
            BY <2>4, <4>2, <5>1, <6>2
        <5> QED
          BY <5>2, <5>3
      <4> QED
        BY <2>4, <4>1, <4>2
    <3>8. ManyToMany!Settled'
      BY <1>0, <3>1, <3>4 DEF ManyToMany!Settled
    <3> QED
      BY <3>2, <3>6, <3>7, <3>8
  <2> QED
    BY <2>5, <2>6, <2>7 DEF ManyToMany!IInv, InPlaces
<1> QED
  BY <1>1, <1>2 DEF ManyToMany!produce

LEMMA SameCardinality == \A S : ManyToMany!Cardinality(S) = Cardinality(S)
BY DEF ManyToMany!Cardinality, Cardinality

LEMMA OnlyOne ==
  ASSUME ManyToMany!Alone, NEW c \in Consumers, NEW d \in Consumers, v5[c] # "none", v5[d] # "none"
  PROVE  c = d
<1> DEFINE A == {e \in Consumers : v5[e] # "none"}
<1>1. IsFiniteSet(A) /\ Cardinality(A) = 1
  BY RealProducers, SameCardinality, FS_Subset DEF ManyToMany!Alone
<1>2. \E x : A = {x}
  BY <1>1, FS_Singleton
<1> QED
  BY <1>2

LEMMA ReadKeeps ==
  ASSUME ManyToMany!IInv, NEW c \in Consumers, v5[c] = "read", v4 # <<>>, v4' = Tail(v4),
         v6' = [v6 EXCEPT ![c] = Head(v4)], v5' = [v5 EXCEPT ![c] = "load"],
         UNCHANGED <<v1, v2, v3, v7, v8, v9>>
  PROVE  ManyToMany!IInv'
<1> DEFINE x == v4[1]
<1>1. /\ ManyToMany!TypeOK /\ v4 \in Seq(ManyToMany!Chunks) /\ v6 \in [Consumers -> ManyToMany!Chunks \cup {ManyToMany!NoChunk}]
      /\ v5 \in [Consumers -> {"none", "start", "open", "opening", "read", "load", "store", "close", "ended"}]
      /\ ManyToMany!Chunks' = ManyToMany!Chunks /\ ManyToMany!Rows' = ManyToMany!Rows
  BY SameChunks DEF ManyToMany!IInv, ManyToMany!TypeOK
<1>2. /\ 1 \in DOMAIN v4 /\ Head(v4) = x /\ v4' \in Seq(ManyToMany!Chunks) /\ DOMAIN v4 \subseteq Nat \ {0}
      /\ DOMAIN v4' = {k \in Nat \ {0} : k + 1 \in DOMAIN v4}
      /\ \A k \in DOMAIN v4' : v4'[k] = v4[k + 1]
  <2>1. Len(v4) \in Nat /\ DOMAIN v4 = 1 .. Len(v4) /\ Len(v4) >= 1
    BY <1>1, SeqIsSeq
  <2>2. /\ Head(v4) = x /\ v4' \in Seq(ManyToMany!Chunks) /\ DOMAIN v4' = 1 .. Len(v4) - 1
        /\ \A k \in 1 .. Len(v4) - 1 : v4'[k] = v4[k + 1]
    BY <1>1, <2>1
  <2> QED
    BY <2>1, <2>2
<1>3. x \in ManyToMany!Chunks /\ x # ManyToMany!NoChunk /\ x.row \in Producers /\ x.n \in Nat /\ x = [row |-> x.row, n |-> x.n]
  <2>1. x \in ManyToMany!Chunks
    BY <1>1, <1>2, SeqIsSeq
  <2> QED
    BY <2>1, ChunksAre
<1>4. /\ v6'[c] = x /\ v5'[c] = "load" /\ v6[c] = ManyToMany!NoChunk
      /\ \A d \in Consumers \ {c} : v6'[d] = v6[d] /\ v5'[d] = v5[d]
  BY <1>1, <1>2 DEF ManyToMany!IInv, ManyToMany!Hands
<1> HIDE DEF x
<1>5. ManyToMany!TypeOK'
  <2>1. v6' \in [Consumers -> ManyToMany!Chunks \cup {ManyToMany!NoChunk}]
    BY <1>1, <1>2, <1>3
  <2>2. v5' \in [Consumers -> {"none", "start", "open", "opening", "read", "load", "store", "close", "ended"}]
    BY <1>1
  <2> QED
    BY <1>1, <1>2, <2>1, <2>2 DEF ManyToMany!TypeOK
<1>6. ManyToMany!Hands'
  <2>1. \A d \in Consumers : v6'[d] # ManyToMany!NoChunk <=> v5'[d] \in {"load", "store"}
    BY <1>3, <1>4 DEF ManyToMany!IInv, ManyToMany!Hands
  <2> QED
    BY <2>1 DEF ManyToMany!Hands, ManyToMany!NoChunk
<1>7. ASSUME ~v9' PROVE ManyToMany!InTurn' /\ ManyToMany!OneSaves' /\ ManyToMany!Settled' /\ InPlaces'
  <2>1. ~v9 /\ InPlaces /\ ManyToMany!InTurn /\ ManyToMany!Settled /\ ManyToMany!OneSaves /\ ManyToMany!Once
    BY <1>7 DEF ManyToMany!IInv, InPlaces
  <2>2. ManyToMany!OneSaves'
    <3>1. ManyToMany!Saving' = ManyToMany!Saving
      BY <1>4 DEF ManyToMany!Saving
    <3> QED
      BY <2>1, <3>1 DEF ManyToMany!OneSaves
  <2>3. ManyToMany!Alone' = ManyToMany!Alone
    BY <1>4, SameActive
  <2>4. /\ ManyToMany!Stored' = ManyToMany!Stored /\ ManyToMany!Written' = ManyToMany!Written
        /\ \A q : ManyToMany!Straight(q)' = ManyToMany!Straight(q) /\ ManyToMany!InOrder(q)' = ManyToMany!InOrder(q)
    BY DEF ManyToMany!Stored, ManyToMany!Written, ManyToMany!Straight, ManyToMany!InOrder, ManyToMany!Elements
  <2>5. /\ ManyToMany!Coming = ManyToMany!Coming' \cup {x} /\ x \notin ManyToMany!Coming' /\ ManyToMany!InHand' = ManyToMany!InHand \cup {x}
    <3>1. \A y : y \in ManyToMany!Coming <=> \E k \in DOMAIN v4 : v4[k] = y
      BY DEF ManyToMany!Coming, ManyToMany!Elements
    <3>2. \A y : y \in ManyToMany!Coming' <=> \E k \in DOMAIN v4 : k # 1 /\ v4[k] = y
      <4>1. \A k \in DOMAIN v4 : k # 1 => k - 1 \in DOMAIN v4' /\ (k - 1) + 1 = k
        BY <1>2
      <4>2. \A k \in DOMAIN v4' : k + 1 # 1
        BY <1>2
      <4> QED
        BY <1>2, <4>1, <4>2 DEF ManyToMany!Coming, ManyToMany!Elements
    <3>3. ManyToMany!Coming = ManyToMany!Coming' \cup {x} /\ x \notin ManyToMany!Coming'
      BY <1>2, <2>1, <3>1, <3>2 DEF ManyToMany!Once, x
    <3>4. ManyToMany!InHand' = ManyToMany!InHand \cup {x}
      <4>1. \A y : y \in ManyToMany!InHand <=> y # ManyToMany!NoChunk /\ \E d \in Consumers \ {c} : v6[d] = y
        BY <1>4 DEF ManyToMany!InHand
      <4>2. \A y : y \in ManyToMany!InHand' <=> y # ManyToMany!NoChunk /\ \E d \in Consumers : v6'[d] = y
        BY DEF ManyToMany!InHand, ManyToMany!NoChunk
      <4> QED
        BY <1>3, <1>4, <4>1, <4>2
    <3> QED
      BY <3>3, <3>4
  <2>6. x \notin ManyToMany!Stored /\ x \notin ManyToMany!InHand
    BY <2>1, <2>5 DEF ManyToMany!Once
  <2>7. ManyToMany!Once'
    <3>1. \A d, e \in Consumers : v6'[d] = v6'[e] => d = e \/ v6'[d] = ManyToMany!NoChunk
      <4>1. \A d \in Consumers : v6[d] = x => FALSE
        BY <1>3, <2>6 DEF ManyToMany!InHand
      <4> QED
        BY <1>4, <2>1, <4>1 DEF ManyToMany!Once
    <3>2. \A k, l \in DOMAIN v4' : v4'[k] = v4'[l] => k = l
      <4> SUFFICES ASSUME NEW k \in DOMAIN v4', NEW l \in DOMAIN v4', v4'[k] = v4'[l] PROVE k = l
        OBVIOUS
      <4>1. k + 1 = l + 1 /\ k \in Nat /\ l \in Nat
        BY <1>2, <2>1 DEF ManyToMany!Once
      <4> QED
        BY <4>1
    <3>3. (\A d, e \in Consumers : v6[d] = v6[e] => d = e \/ v6[d] = ManyToMany!NoChunk)'
      BY <3>1 DEF ManyToMany!NoChunk
    <3>4. (ManyToMany!Stored \cap ManyToMany!InHand = {} /\ ManyToMany!Stored \cap ManyToMany!Coming = {} /\ ManyToMany!InHand \cap ManyToMany!Coming = {})'
      BY <2>1, <2>4, <2>5, <2>6 DEF ManyToMany!Once
    <3>5. (\A i, j \in DOMAIN v8 : \A k \in DOMAIN v8[i], l \in DOMAIN v8[j] :
             v8[i][k] = v8[j][l] => i = j /\ k = l)'
      BY <2>1 DEF ManyToMany!Once
    <3> QED
      BY <3>2, <3>3, <3>4, <3>5 DEF ManyToMany!Once
  <2>8. ManyToMany!InTurn'
    <3> SUFFICES ASSUME NEW k \in DOMAIN v4', NEW n \in v4'[k].n + 1 .. v3[v4'[k].row]
                 PROVE  \E j \in DOMAIN v4' : j > k /\ v4'[j] = [row |-> v4'[k].row, n |-> n]
      BY DEF ManyToMany!InTurn
    <3>1. k \in Nat /\ k + 1 \in DOMAIN v4 /\ v4'[k] = v4[k + 1]
      BY <1>2
    <3>2. PICK j \in DOMAIN v4 : j > k + 1 /\ v4[j] = [row |-> v4'[k].row, n |-> n]
      BY <2>1, <3>1 DEF ManyToMany!InTurn
    <3>3. j - 1 \in Nat \ {0} /\ (j - 1) + 1 = j /\ j - 1 > k
      BY <1>2, <3>1, <3>2
    <3>4. j - 1 \in DOMAIN v4' /\ v4'[j - 1] = v4[j]
      BY <1>2, <3>3
    <3> QED
      BY <3>2, <3>3, <3>4
  <2>9. ManyToMany!Settled'
    BY <2>1, <2>4 DEF ManyToMany!Settled
  <2>10. ASSUME ManyToMany!Alone, NEW p \in Producers, ManyToMany!Straight(p) PROVE ManyToMany!NextOfLine(p)'
    <3> DEFINE line == ManyToMany!Line(v8, p)
    <3>1. \A d \in Consumers : d # c => v6'[d].row # p
      <4> SUFFICES ASSUME NEW d \in Consumers, d # c PROVE v6'[d].row # p
        OBVIOUS
      <4>1. v5[d] = "none"
        BY <2>10, OnlyOne
      <4>2. v6'[d] = ManyToMany!NoChunk
        BY <1>4, <4>1 DEF ManyToMany!IInv, ManyToMany!Hands
      <4> QED
        BY <4>2, RealProducers DEF ManyToMany!NoChunk
    <3>2. ASSUME x.row = p PROVE x.n = Len(line) + 1
      <4>1. /\ line \in Seq(ManyToMany!Chunks) /\ Len(line) \in Nat /\ DOMAIN line = 1 .. Len(line)
            /\ \A n \in DOMAIN line : line[n] = [row |-> p, n |-> n]
        <5>1. v8 \in Seq(Seq(ManyToMany!Chunks)) /\ p \in Nat \ {0}
          BY <1>1, RealProducers DEF ManyToMany!TypeOK, ManyToMany!Rows
        <5>2. line \in Seq(ManyToMany!Chunks)
          BY <5>1, SeqIsSeq DEF ManyToMany!Line
        <5>3. ManyToMany!InOrder(p)
          BY <2>1, <2>10 DEF InPlaces
        <5> QED
          BY <5>2, <5>3, SeqIsSeq DEF ManyToMany!InOrder
      <4>2. \A n \in DOMAIN line : [row |-> p, n |-> n] \in ManyToMany!Stored
        <5>1. \A n \in DOMAIN line : p \in DOMAIN v8 /\ line = v8[p]
          <6>1. v8 \in Seq(Seq(ManyToMany!Chunks)) /\ p \in Nat \ {0} /\ DOMAIN <<>> = {}
            BY <1>1, RealProducers DEF ManyToMany!TypeOK, ManyToMany!Rows
          <6> QED
            BY <6>1, SeqIsSeq DEF ManyToMany!Line
        <5> HIDE DEF line
        <5> QED
          BY <4>1, <5>1 DEF ManyToMany!Stored, ManyToMany!Elements
      <4>3. x.n \notin DOMAIN line
        BY <1>3, <2>6, <3>2, <4>2
      <4>4. \A y \in ManyToMany!Stored : y.row = p => y \in ManyToMany!Elements(line)
        <5> SUFFICES ASSUME NEW y \in ManyToMany!Stored, y.row = p PROVE y \in ManyToMany!Elements(line)
          OBVIOUS
        <5>1. PICK i \in DOMAIN v8 : \E k \in DOMAIN v8[i] : v8[i][k] = y
          BY DEF ManyToMany!Stored, ManyToMany!Elements
        <5>2. i = p
          BY <2>1, <2>10, <5>1 DEF ManyToMany!Settled
        <5>3. line = v8[p]
          BY <1>1, <5>1, <5>2, SeqIsSeq DEF ManyToMany!Line, ManyToMany!TypeOK, ManyToMany!Rows
        <5> QED
          BY <5>1, <5>2, <5>3 DEF ManyToMany!Elements
      <4>5. ASSUME NEW n \in Nat \ {0}, n < x.n PROVE n \in DOMAIN line
        <5> DEFINE y == [row |-> p, n |-> n]
        <5>1. x \in ManyToMany!Written /\ v3[p] \in Nat
          BY <1>1, <2>1, <2>5 DEF InPlaces, ManyToMany!TypeOK
        <5>2. y \in ManyToMany!Written /\ x.n \in 1 .. v3[p]
          BY <1>1, <1>3, <3>2, <4>5, <5>1, WrittenIs
        <5>3. y \notin ManyToMany!InHand
          <6>1. \A d \in Consumers : v6[d].row # p
            BY <1>4, <3>1, RealProducers DEF ManyToMany!NoChunk
          <6> QED
            BY <6>1 DEF ManyToMany!InHand
        <5>4. y \notin ManyToMany!Coming
          <6> SUFFICES ASSUME NEW k \in DOMAIN v4, v4[k] = y PROVE FALSE
            BY DEF ManyToMany!Coming, ManyToMany!Elements
          <6>1. v4[k].n = n /\ v4[k].row = p /\ x.n \in n + 1 .. v3[p]
            BY <1>3, <4>5, <5>2
          <6>2. PICK j \in DOMAIN v4 : j > k /\ v4[j] = [row |-> p, n |-> x.n]
            BY <2>1, <6>1 DEF ManyToMany!InTurn
          <6>3. v4[j] = v4[1]
            BY <1>3, <3>2, <6>2 DEF x
          <6>4. j = 1
            BY <1>2, <2>1, <6>3 DEF ManyToMany!Once
          <6> QED
            BY <1>2, <6>2, <6>4
        <5>5. y \in ManyToMany!Stored /\ y.row = p /\ y.n = n
          BY <2>1, <5>2, <5>3, <5>4 DEF InPlaces
        <5> QED
          BY <4>1, <4>4, <5>5 DEF ManyToMany!Elements
      <4>6. x.n > 0
        BY <1>1, <1>3, <2>1, <2>5, WrittenIs DEF InPlaces, ManyToMany!TypeOK
      <4> HIDE DEF line
      <4>7. ~(Len(line) + 1 < x.n)
        BY <4>1, <4>5
      <4>8. ~(x.n <= Len(line))
        BY <1>3, <4>1, <4>3, <4>6
      <4> QED
        BY <1>3, <4>1, <4>7, <4>8
    <3> QED
      BY <1>4, <3>1, <3>2 DEF ManyToMany!NextOfLine
  <2>11. InPlaces'
    <3>1. (ManyToMany!Stored \cup ManyToMany!InHand \cup ManyToMany!Coming = ManyToMany!Written)'
      BY <2>1, <2>4, <2>5 DEF InPlaces
    <3> QED
      BY <2>1, <2>3, <2>4, <2>7, <2>10, <3>1 DEF InPlaces
  <2> QED
    BY <2>2, <2>8, <2>9, <2>11
<1> QED
  BY <1>5, <1>6, <1>7 DEF ManyToMany!IInv, InPlaces

LEMMA StoreKeeps ==
  ASSUME ManyToMany!IInv, NEW c \in Consumers, ManyToMany!Store(c)
  PROVE  ManyToMany!IInv'
<1> DEFINE x == v6[c]  r == x.row  m == v1[r][x.n]
<1>1. /\ v5[c] = "store" /\ v5' = [v5 EXCEPT ![c] = "read"]
      /\ UNCHANGED <<v1, v2, v3, v4, v9>>
      /\ v8' = ManyToMany!append_to_file_row(v7[c], x)
      /\ v6' = [v6 EXCEPT ![c] = ManyToMany!NoChunk] /\ v7' = [v7 EXCEPT ![c] = <<>>]
  BY DEF ManyToMany!Store, ManyToMany!NoRows
<1>2. /\ ManyToMany!TypeOK /\ x \in ManyToMany!Chunks /\ x # ManyToMany!NoChunk /\ r \in Producers /\ r \in Nat \ {0} /\ m \in Nat
      /\ v7 \in [Consumers -> ManyToMany!Rows] /\ v7[c] \in ManyToMany!Rows /\ <<>> \in ManyToMany!Rows
      /\ v6 \in [Consumers -> ManyToMany!Chunks \cup {ManyToMany!NoChunk}]
      /\ v5 \in [Consumers -> {"none", "start", "open", "opening", "read", "load", "store", "close", "ended"}]
      /\ ManyToMany!Chunks' = ManyToMany!Chunks /\ ManyToMany!Rows' = ManyToMany!Rows
  <2>1. /\ v7 \in [Consumers -> ManyToMany!Rows] /\ v6 \in [Consumers -> ManyToMany!Chunks \cup {ManyToMany!NoChunk}]
        /\ v5 \in [Consumers -> {"none", "start", "open", "opening", "read", "load", "store", "close", "ended"}]
        /\ ManyToMany!Chunks' = ManyToMany!Chunks /\ ManyToMany!Rows' = ManyToMany!Rows /\ ManyToMany!TypeOK
    BY <1>1, SameChunks DEF ManyToMany!IInv, ManyToMany!TypeOK
  <2>2. x # ManyToMany!NoChunk /\ x \in ManyToMany!Chunks
    BY <1>1, <2>1 DEF ManyToMany!IInv, ManyToMany!Hands
  <2>3. r \in Producers /\ r \in Nat \ {0} /\ x.n \in DOMAIN v1[r] /\ v1[r] \in Seq(Nat)
    BY <2>1, <2>2, ChunksAre DEF ManyToMany!TypeOK
  <2>4. m \in Nat
    BY <2>3, SeqIsSeq
  <2>5. <<>> \in ManyToMany!Rows
    BY DEF ManyToMany!Rows
  <2> QED
    BY <2>1, <2>2, <2>3, <2>4, <2>5
<1>3. /\ v6'[c] = ManyToMany!NoChunk /\ v5'[c] = "read"
      /\ \A d \in Consumers \ {c} : v6'[d] = v6[d] /\ v5'[d] = v5[d]
  BY <1>1, <1>2
<1> HIDE DEF x, r, m
<1>4. /\ v8' \in ManyToMany!Rows
      /\ \A j \in DOMAIN v8' : \A k \in DOMAIN v8'[j] :
           \/ v8'[j][k] = x /\ j = r /\ k = Len(ManyToMany!Line(v7[c], r)) + 1
           \/ \E i \in DOMAIN v7[c] : /\ k \in DOMAIN v7[c][i] /\ v7[c][i][k] = v8'[j][k]
                                        /\ j = Moved(i, r, m)
      /\ \A i \in DOMAIN v7[c] : \A k \in DOMAIN v7[c][i] :
           \E j \in DOMAIN v8' : k \in DOMAIN v8'[j] /\ v8'[j][k] = v7[c][i][k]
      /\ \E j \in DOMAIN v8' : \E k \in DOMAIN v8'[j] : v8'[j][k] = x
      /\ ManyToMany!Line(v8', r) = Append(ManyToMany!Line(v7[c], r), x)
      /\ \A i \in Nat \ {0} : i < r \/ (i # r /\ m = 0) => ManyToMany!Line(v8', i) = ManyToMany!Line(v7[c], i)
  BY <1>1, <1>2, ChunkStored DEF r, m
<1>5. ManyToMany!TypeOK'
  <2>1. v6' \in [Consumers -> ManyToMany!Chunks \cup {ManyToMany!NoChunk}] /\ v7' \in [Consumers -> ManyToMany!Rows]
    BY <1>1, <1>2
  <2>2. v5' \in [Consumers -> {"none", "start", "open", "opening", "read", "load", "store", "close", "ended"}]
    BY <1>1, <1>2
  <2> QED
    BY <1>1, <1>2, <1>4, <2>1, <2>2 DEF ManyToMany!TypeOK
<1>6. ManyToMany!Hands'
  <2>1. \A d \in Consumers : v6'[d] # ManyToMany!NoChunk <=> v5'[d] \in {"load", "store"}
    BY <1>3 DEF ManyToMany!IInv, ManyToMany!Hands
  <2> QED
    BY <2>1 DEF ManyToMany!Hands, ManyToMany!NoChunk
<1>7. ASSUME ~v9' PROVE ManyToMany!InTurn' /\ ManyToMany!OneSaves' /\ ManyToMany!Settled' /\ InPlaces'
  <2>1. /\ ~v9 /\ ManyToMany!Saving = {c} /\ v7[c] = v8 /\ InPlaces /\ ManyToMany!Once /\ ManyToMany!Settled /\ ManyToMany!InTurn
        /\ DOMAIN v8 \subseteq Nat \ {0} /\ r \in Nat \ {0} /\ m \in Nat
    <3>1. ~v9 /\ c \in ManyToMany!Saving
      BY <1>1, <1>7 DEF ManyToMany!Saving
    <3>2. DOMAIN v8 \subseteq Nat \ {0}
      BY <1>2, SeqIsSeq DEF ManyToMany!TypeOK, ManyToMany!Rows
    <3> QED
      BY <1>2, <3>1, <3>2 DEF ManyToMany!IInv, ManyToMany!OneSaves, InPlaces
  <2>2. ManyToMany!OneSaves'
    <3>1. ManyToMany!Saving' = {}
      BY <1>3, <2>1 DEF ManyToMany!Saving
    <3> QED
      BY <3>1 DEF ManyToMany!OneSaves
  <2>3. ManyToMany!Alone' = ManyToMany!Alone
    BY <1>1, <1>3, SameActive
  <2>4. ManyToMany!InTurn'
    BY <1>1, <2>1 DEF ManyToMany!InTurn
  <2>5. ManyToMany!Written' = ManyToMany!Written /\ ManyToMany!Coming' = ManyToMany!Coming /\ \A q : ManyToMany!Straight(q)' = ManyToMany!Straight(q)
    BY <1>1 DEF ManyToMany!Written, ManyToMany!Coming, ManyToMany!Straight, ManyToMany!Elements
  <2>6. \A y : y \in ManyToMany!Stored <=> \E i \in DOMAIN v8 : \E k \in DOMAIN v8[i] : v8[i][k] = y
    BY DEF ManyToMany!Stored, ManyToMany!Elements
  <2>7. \A y : y \in ManyToMany!Stored' <=> \E i \in DOMAIN v8' : \E k \in DOMAIN v8'[i] : v8'[i][k] = y
    BY DEF ManyToMany!Stored, ManyToMany!Elements
  <2>8. ManyToMany!Stored' = ManyToMany!Stored \cup {x}
    <3>1. ASSUME NEW y \in ManyToMany!Stored' PROVE y \in ManyToMany!Stored \cup {x}
      BY <1>4, <2>1, <2>6, <2>7
    <3>2. ASSUME NEW y \in ManyToMany!Stored PROVE y \in ManyToMany!Stored'
      BY <1>4, <2>1, <2>6, <2>7
    <3>3. x \in ManyToMany!Stored'
      BY <1>4, <2>7
    <3> QED
      BY <3>1, <3>2, <3>3
  <2>9. /\ ManyToMany!InHand = ManyToMany!InHand' \cup {x} /\ x \notin ManyToMany!InHand'
        /\ \A d \in Consumers \ {c} : v6[d] # x
    <3>1. \A d \in Consumers \ {c} : v6[d] # x
      BY <1>2, <2>1 DEF ManyToMany!Once, x
    <3>2. \A y : y \in ManyToMany!InHand <=> y # ManyToMany!NoChunk /\ \E d \in Consumers : v6[d] = y
      BY DEF ManyToMany!InHand
    <3>3. \A y : y \in ManyToMany!InHand' <=> y # ManyToMany!NoChunk /\ \E d \in Consumers : v6'[d] = y
      BY DEF ManyToMany!InHand, ManyToMany!NoChunk
    <3>4. \A y : y \in ManyToMany!InHand' <=> y # ManyToMany!NoChunk /\ \E d \in Consumers \ {c} : v6[d] = y
      BY <1>3, <3>3
    <3> QED
      BY <1>2, <3>1, <3>2, <3>4 DEF x
  <2>10. x \notin ManyToMany!Stored /\ x \notin ManyToMany!Coming
    BY <2>1, <2>9 DEF ManyToMany!Once
  <2>11. ManyToMany!Once'
    <3>1. ASSUME NEW i \in DOMAIN v8', NEW j \in DOMAIN v8',
                 NEW k \in DOMAIN v8'[i], NEW l \in DOMAIN v8'[j], v8'[i][k] = v8'[j][l]
          PROVE  i = j /\ k = l
      <4>1. CASE v8'[i][k] = x
        <5>1. \A a \in DOMAIN v8 : \A b \in DOMAIN v8[a] : v8[a][b] # x
          BY <2>6, <2>10
        <5>2. i = r /\ k = Len(ManyToMany!Line(v8, r)) + 1
          BY <1>4, <2>1, <4>1, <5>1
        <5>3. v8'[j][l] = x
          BY <3>1, <4>1
        <5>4. j = r /\ l = Len(ManyToMany!Line(v8, r)) + 1
          BY <1>4, <2>1, <5>1, <5>3
        <5> QED
          BY <5>2, <5>4
      <4>2. CASE v8'[i][k] # x
        <5>1. PICK a \in DOMAIN v8 : k \in DOMAIN v8[a] /\ v8[a][k] = v8'[i][k] /\ i = Moved(a, r, m)
          BY <1>4, <2>1, <4>2
        <5>2. PICK b \in DOMAIN v8 : l \in DOMAIN v8[b] /\ v8[b][l] = v8'[j][l] /\ j = Moved(b, r, m)
          BY <1>4, <2>1, <3>1, <4>2
        <5>3. a = b /\ k = l
          BY <2>1, <3>1, <5>1, <5>2 DEF ManyToMany!Once
        <5> QED
          BY <5>1, <5>2, <5>3
      <4> QED
        BY <4>1, <4>2
    <3>2. (\A i, j \in DOMAIN v8 : \A k \in DOMAIN v8[i], l \in DOMAIN v8[j] :
             v8[i][k] = v8[j][l] => i = j /\ k = l)'
      BY <3>1
    <3>3. (\A d, e \in Consumers : v6[d] = v6[e] => d = e \/ v6[d] = ManyToMany!NoChunk)'
      <4>1. \A d, e \in Consumers : v6'[d] = v6'[e] => d = e \/ v6'[d] = ManyToMany!NoChunk
        BY <1>3, <2>1 DEF ManyToMany!Once
      <4> QED
        BY <4>1 DEF ManyToMany!NoChunk
    <3>4. (ManyToMany!Stored \cap ManyToMany!InHand = {} /\ ManyToMany!Stored \cap ManyToMany!Coming = {} /\ ManyToMany!InHand \cap ManyToMany!Coming = {})'
      BY <2>1, <2>5, <2>8, <2>9, <2>10 DEF ManyToMany!Once
    <3>5. (\A k, l \in DOMAIN v4 : v4[k] = v4[l] => k = l)'
      BY <1>1, <2>1 DEF ManyToMany!Once
    <3> QED
      BY <3>2, <3>3, <3>4, <3>5 DEF ManyToMany!Once
  <2>12. ManyToMany!Settled'
    <3> SUFFICES ASSUME NEW j \in DOMAIN v8', NEW k \in DOMAIN v8'[j]
                 PROVE  /\ v8'[j][k].row <= j
                        /\ ManyToMany!Straight(v8'[j][k].row) => v8'[j][k].row = j
      BY <2>5 DEF ManyToMany!Settled
    <3>1. CASE v8'[j][k] = x /\ j = r
      BY <2>1, <3>1 DEF r
    <3>2. ASSUME NEW i \in DOMAIN v8, k \in DOMAIN v8[i], v8[i][k] = v8'[j][k], j = Moved(i, r, m)
          PROVE  /\ v8'[j][k].row <= j
                 /\ ManyToMany!Straight(v8'[j][k].row) => v8'[j][k].row = j
      <4> DEFINE q == v8'[j][k].row
      <4>1. /\ i \in Nat \ {0} /\ q \in Nat \ {0} /\ q \in Producers /\ q <= i /\ (ManyToMany!Straight(q) => q = i)
        <5>1. v8[i][k] \in ManyToMany!Chunks
          BY <1>2, <3>2, SeqIsSeq DEF ManyToMany!TypeOK, ManyToMany!Rows
        <5> QED
          BY <2>1, <3>2, <5>1, ChunksAre DEF ManyToMany!Settled
      <4>2. i <= j
        BY <2>1, <3>2, <4>1 DEF Moved
      <4>3. ASSUME ManyToMany!Straight(q) PROVE q = j
        <5>1. i = q
          BY <4>1, <4>3
        <5>2. CASE i <= r
          BY <3>2, <5>1, <5>2 DEF Moved
        <5>3. CASE ~(i <= r)
          <6>1. r \in Producers /\ r <= q /\ x.n \in DOMAIN v1[r]
            BY <1>2, <2>1, <4>1, <5>1, <5>3, ChunksAre DEF r
          <6>2. m = 0
            BY <4>3, <6>1 DEF ManyToMany!Straight, m
          <6> QED
            BY <3>2, <4>1, <5>1, <5>3, <6>2 DEF Moved
        <5> QED
          BY <5>2, <5>3
      <4>4. j \in Nat
        BY <2>1, <3>2, <4>1 DEF Moved
      <4> QED
        BY <4>1, <4>2, <4>3, <4>4
    <3> QED
      BY <1>4, <2>1, <3>1, <3>2
  <2>13. ASSUME ManyToMany!Alone, NEW p \in Producers, ManyToMany!Straight(p) PROVE ManyToMany!InOrder(p)' /\ ManyToMany!NextOfLine(p)'
    <3>1. ManyToMany!InOrder(p) /\ ManyToMany!NextOfLine(p) /\ p \in Nat \ {0}
      BY <2>1, <2>13, RealProducers DEF InPlaces
    <3>2. ManyToMany!InOrder(p)'
      <4>1. CASE p = r
        <5>1. ManyToMany!Line(v8, p) \in Seq(ManyToMany!Chunks)
          <6>1. v8 \in Seq(Seq(ManyToMany!Chunks))
            BY <1>2 DEF ManyToMany!TypeOK, ManyToMany!Rows
          <6> QED
            BY <3>1, <6>1, SeqIsSeq DEF ManyToMany!Line
        <5>2. x.row = p /\ x.n = Len(ManyToMany!Line(v8, p)) + 1
          BY <3>1, <4>1 DEF ManyToMany!NextOfLine, r, x
        <5>3. x = [row |-> p, n |-> Len(ManyToMany!Line(v8, p)) + 1]
          BY <1>2, <5>2, ChunksAre
        <5>4. ManyToMany!Line(v8', p) = Append(ManyToMany!Line(v8, p), x)
          BY <1>4, <2>1, <4>1
        <5>5. \A n \in DOMAIN ManyToMany!Line(v8', p) : ManyToMany!Line(v8', p)[n] = [row |-> p, n |-> n]
          <6> DEFINE line == ManyToMany!Line(v8, p)
          <6>1. \A n \in DOMAIN line : line[n] = [row |-> p, n |-> n]
            BY <3>1 DEF ManyToMany!InOrder
          <6> HIDE DEF line
          <6>2. /\ DOMAIN ManyToMany!Line(v8', p) = DOMAIN line \cup {Len(line) + 1}
                /\ ManyToMany!Line(v8', p)[Len(line) + 1] = x
                /\ \A n \in DOMAIN line : ManyToMany!Line(v8', p)[n] = line[n]
            BY <1>2, <5>1, <5>4, AppendKeeps DEF line
          <6> QED
            BY <5>3, <6>1, <6>2 DEF line
        <5> QED
          BY <5>5 DEF ManyToMany!InOrder, ManyToMany!Line
      <4>2. CASE p # r
        <5>1. p < r \/ m = 0
          <6>1. r <= p => m = 0
            BY <1>2, <2>13, ChunksAre DEF ManyToMany!Straight, m, r
          <6> QED
            BY <2>1, <3>1, <6>1
        <5>2. ManyToMany!Line(v8', p) = ManyToMany!Line(v8, p)
          BY <1>4, <2>1, <3>1, <4>2, <5>1
        <5> QED
          BY <3>1, <5>2 DEF ManyToMany!InOrder, ManyToMany!Line
      <4> QED
        BY <4>1, <4>2
    <3>3. ManyToMany!NextOfLine(p)'
      <4>1. ASSUME NEW d \in Consumers PROVE v6'[d].row # p
        <5>1. v6'[d] = ManyToMany!NoChunk
          <6>1. CASE d = c
            BY <1>3, <6>1
          <6>2. CASE d # c
            <7>1. v5[d] = "none"
              BY <1>1, <2>13, <6>2, OnlyOne
            <7> QED
              BY <1>3, <6>2, <7>1 DEF ManyToMany!IInv, ManyToMany!Hands
          <6> QED
            BY <6>1, <6>2
        <5> QED
          BY <3>1, <5>1 DEF ManyToMany!NoChunk
      <4> QED
        BY <4>1 DEF ManyToMany!NextOfLine
    <3> QED
      BY <3>2, <3>3
  <2>14. InPlaces'
    <3>1. (ManyToMany!Stored \cup ManyToMany!InHand \cup ManyToMany!Coming = ManyToMany!Written)'
      BY <2>1, <2>5, <2>8, <2>9 DEF InPlaces
    <3> QED
      BY <2>3, <2>5, <2>11, <2>13, <3>1 DEF InPlaces
  <2> QED
    BY <2>2, <2>4, <2>12, <2>14
<1> QED
  BY <1>5, <1>6, <1>7 DEF ManyToMany!IInv, InPlaces

LEMMA FifoKeeps == ASSUME ManyToMany!IInv, ManyToMany!Next PROVE ManyToMany!IInv'
BY OpenKeeps, EmptyFileKeeps, CloseKeeps, EndOfFifoKeeps, LoadKeeps, ProduceKeeps, ReadKeeps, StoreKeeps
DEF ManyToMany!Next, ManyToMany!read_from_fifo

LEMMA FifoLosesNothing == ASSUME ManyToMany!IInv PROVE ManyToMany!NothingIsLost
<1>1. ASSUME ~v9, NEW p \in Producers, ManyToMany!Straight(p)
      PROVE  ManyToMany!InItsLine(p)
  <2>1. ManyToMany!Settled /\ ManyToMany!TypeOK
    BY <1>1 DEF ManyToMany!IInv
  <2>2. /\ p \in Nat \ {0} /\ DOMAIN <<>> = {}
        /\ \A i \in DOMAIN v8 : i \in Nat \ {0} /\ \A k \in DOMAIN v8[i] :
             v8[i][k].row \in Producers /\ v8[i][k].row \in Nat \ {0}
    <3>1. v8 \in Seq(Seq(ManyToMany!Chunks))
      BY <2>1 DEF ManyToMany!TypeOK, ManyToMany!Rows
    <3>2. \A i \in DOMAIN v8 : i \in Nat \ {0} /\ \A k \in DOMAIN v8[i] : v8[i][k] \in ManyToMany!Chunks
      BY <3>1, SeqIsSeq
    <3> QED
      BY <3>2, ChunksAre, RealProducers
  <2>3. \A q \in Producers : q <= p => ManyToMany!Straight(q)
    <3> SUFFICES ASSUME NEW q \in Producers, q <= p, NEW o \in Producers, o <= q
                 PROVE  o <= p
      BY <1>1 DEF ManyToMany!Straight
    <3>1. o \in Nat /\ q \in Nat /\ p \in Nat
      BY RealProducers
    <3> QED
      BY <3>1
  <2>4. /\ p \in DOMAIN v8 => ManyToMany!Line(v8, p) = v8[p]
        /\ p \notin DOMAIN v8 => DOMAIN ManyToMany!Line(v8, p) = {}
    BY <2>1, <2>2, SeqIsSeq DEF ManyToMany!Line, ManyToMany!TypeOK, ManyToMany!Rows
  <2>5. ASSUME NEW y \in ManyToMany!Stored, y.row = p PROVE y \in ManyToMany!Elements(ManyToMany!Line(v8, p))
    <3>1. PICK i \in DOMAIN v8 : \E k \in DOMAIN v8[i] : v8[i][k] = y
      BY DEF ManyToMany!Stored, ManyToMany!Elements
    <3>2. i = p
      BY <1>1, <2>1, <2>5, <3>1 DEF ManyToMany!Settled
    <3> QED
      BY <2>4, <3>1, <3>2 DEF ManyToMany!Elements
  <2>6. ASSUME NEW y \in ManyToMany!Elements(ManyToMany!Line(v8, p)) PROVE y.row = p
    <3>1. PICK k \in DOMAIN ManyToMany!Line(v8, p) : ManyToMany!Line(v8, p)[k] = y
      BY DEF ManyToMany!Elements
    <3>2. p \in DOMAIN v8 /\ k \in DOMAIN v8[p] /\ v8[p][k] = y
      BY <2>4, <3>1
    <3> QED
      BY <2>1, <2>2, <2>3, <3>2 DEF ManyToMany!Settled
  <2> QED
    BY <2>5, <2>6 DEF ManyToMany!InItsLine
<1> QED
  BY <1>1 DEF ManyToMany!IInv, ManyToMany!NothingIsLost

-------------------------------------------------------------------------------
(* Lab 3, zad3: the search in files *)

LEMMA SearchCounts ==
  /\ \A S : Search!IsFiniteSet(S) <=> IsFiniteSet(S)
  /\ \A S : Search!Cardinality(S) = Cardinality(S)
BY DEF Search!IsFiniteSet, IsFiniteSet, Search!Cardinality, Cardinality

(* Every entry has one place in the tree. *)
LEMMA EntryPlaces ==
  /\ Root \in Search!Dirs /\ Search!AnyChild \notin Search!Dirs /\ Search!Dirs \cap Search!Files = {}
  /\ \A d \in Search!Dirs : /\ Len(Entries[d]) \in Nat /\ DOMAIN Entries[d] = 1 .. Len(Entries[d])
                            /\ \A n \in DOMAIN Entries[d] : /\ Entries[d][n] \in Search!Dirs \cup Search!Files /\ Entries[d][n] # Root
                                                            /\ Entries[d][n] \in Search!Inside(d)
                            /\ \A e \in Search!Inside(d) : \E n \in DOMAIN Entries[d] : Entries[d][n] = e
  /\ \A d, e \in Search!Dirs : \A n \in DOMAIN Entries[d], k \in DOMAIN Entries[e] :
       Entries[d][n] = Entries[e][k] => d = e /\ n = k
<1>1. ASSUME NEW d \in Search!Dirs
      PROVE  /\ Len(Entries[d]) \in Nat /\ DOMAIN Entries[d] = 1 .. Len(Entries[d])
             /\ \A n \in DOMAIN Entries[d] : /\ Entries[d][n] \in Search!Dirs \cup Search!Files /\ Entries[d][n] # Root
                                             /\ Entries[d][n] \in Search!Inside(d)
             /\ \A e \in Search!Inside(d) : \E n \in DOMAIN Entries[d] : Entries[d][n] = e
  <2>1. Entries[d] \in Seq(STRING) /\ Root \notin Search!Inside(d)
    BY RealTree DEF Search!IsTree
  <2>2. \A n \in DOMAIN Entries[d] : Entries[d][n] \in Search!Inside(d)
    BY DEF Search!Inside
  <2> QED
    BY <2>1, <2>2 DEF Search!Files, Search!Inside
<1> QED
  BY <1>1, RealTree DEF Search!IsTree, Search!Files

(* The directory that a directory is in *)
LEMMA ParentIsOne ==
  /\ \A d \in Search!Dirs \ {Root} : Search!Parent(d) \in Search!Dirs /\ d \in Search!Inside(Search!Parent(d))
  /\ \A d, e \in Search!Dirs : e \in Search!Inside(d) => e # Root /\ Search!Parent(e) = d
<1>1. ASSUME NEW d \in Search!Dirs \ {Root} PROVE Search!Parent(d) \in Search!Dirs /\ d \in Search!Inside(Search!Parent(d))
  <2>1. \E e \in Search!Dirs : d \in Search!Inside(e)
    BY RealTree DEF Search!IsTree
  <2> QED
    BY <2>1 DEF Search!Parent
<1>2. ASSUME NEW d \in Search!Dirs, NEW e \in Search!Dirs, e \in Search!Inside(d) PROVE e # Root /\ Search!Parent(e) = d
  <2>1. e # Root
    BY <1>2, RealTree DEF Search!IsTree
  <2> QED
    BY <1>1, <1>2, <2>1, EntryPlaces
<1> QED
  BY <1>1, <1>2

(* The levels of directories: their recursive definition has a solution, and it has only one. *)
LEMMA Levels ==
  /\ Search!Level[Root] = 0 /\ \A d \in Search!Dirs : Search!Level[d] \in Nat
  /\ \A d, e \in Search!Dirs : e \in Search!Inside(d) => Search!Level[e] = Search!Level[d] + 1
<1>1. PICK level \in [Search!Dirs -> Nat] :
        level[Root] = 0 /\ \A d, e \in Search!Dirs : e \in Search!Inside(d) => level[e] = level[d] + 1
  <2>1. Search!IsFiniteSet(Search!Dirs)
    BY RealTree DEF Search!IsTree
  <2>2. Search!Cardinality(Search!Dirs) \in Nat
    BY <2>1, FS_CardinalityType, SearchCounts
  <2>3. PICK level \in [Search!Dirs -> 0 .. Search!Cardinality(Search!Dirs)] :
          level[Root] = 0 /\ \A d, e \in Search!Dirs : e \in Search!Inside(d) => level[e] = level[d] + 1
    BY RealTree DEF Search!IsTree
  <2>4. level \in [Search!Dirs -> Nat]
    BY <2>2, <2>3
  <2> QED
    BY <2>3, <2>4
<1>2. level = [d \in Search!Dirs |-> IF d = Root THEN 0 ELSE level[Search!Parent(d)] + 1]
  <2>1. \A d \in Search!Dirs : level[d] = IF d = Root THEN 0 ELSE level[Search!Parent(d)] + 1
    BY <1>1, ParentIsOne
  <2>2. level = [d \in Search!Dirs |-> level[d]]
    BY <1>1
  <2> QED
    BY <2>1, <2>2
<1>3. Search!Level = [d \in Search!Dirs |-> IF d = Root THEN 0 ELSE Search!Level[Search!Parent(d)] + 1]
  BY <1>2 DEF Search!Level
<1>4. \A d \in Search!Dirs : Search!Level[d] = IF d = Root THEN 0 ELSE Search!Level[Search!Parent(d)] + 1
  BY <1>3
<1> DEFINE wrong == {d \in Search!Dirs : Search!Level[d] # level[d]}
           least == {level[d] : d \in wrong}
<1>5. wrong = {}
  <2> SUFFICES ASSUME wrong # {} PROVE FALSE
    OBVIOUS
  <2>1. least \in SUBSET Nat /\ least # {}
    BY <1>1
  <2>2. Min(least) \in least /\ \A x \in least : Min(least) <= x
    BY <2>1, MinIsElement
  <2>3. PICK d \in wrong : \A e \in wrong : level[d] <= level[e]
    BY <2>2
  <2>4. d # Root
    BY <1>1, <1>4, EntryPlaces
  <2>5. Search!Parent(d) \in Search!Dirs /\ d \in Search!Inside(Search!Parent(d)) /\ d \in Search!Dirs
    BY <2>4, ParentIsOne
  <2>6. level[d] = level[Search!Parent(d)] + 1 /\ level[Search!Parent(d)] \in Nat
    BY <1>1, <2>5
  <2>7. Search!Parent(d) \notin wrong
    BY <2>3, <2>6
  <2> QED
    BY <1>4, <2>4, <2>5, <2>6, <2>7
<1> QED
  BY <1>1, <1>5, EntryPlaces

(* What has been visited can be counted. *)
LEMMA VisitedIsFinite ==
  ASSUME NEW d \in Search!Dirs
  PROVE  /\ Search!IsFiniteSet(Search!VisitedDirs(d)) /\ Search!Cardinality(Search!VisitedDirs(d)) \in Nat
         /\ Search!IsFiniteSet(Search!WaitedFor(d)) /\ Search!Cardinality(Search!WaitedFor(d)) \in Nat
         /\ Search!WaitedFor(d) \subseteq Search!VisitedDirs(d)
<1>1. Search!IsFiniteSet(1 .. Len(Entries[d]))
  BY EntryPlaces, FS_Interval, SearchCounts
<1>2. /\ Search!VisitedDirs(d) \subseteq 1 .. Len(Entries[d])
      /\ Search!WaitedFor(d) \subseteq Search!VisitedDirs(d)
  BY EntryPlaces DEF Search!VisitedDirs, Search!Visited, Search!WaitedFor
<1>3. Search!IsFiniteSet(Search!VisitedDirs(d))
  BY <1>1, <1>2, FS_Subset, SearchCounts
<1>4. Search!IsFiniteSet(Search!WaitedFor(d))
  BY <1>2, <1>3, FS_Subset, SearchCounts
<1> QED
  BY <1>2, <1>3, <1>4, FS_CardinalityType, SearchCounts

LEMMA SearchBegins == ASSUME Search!Init PROVE Search!IInv
<1>1. /\ v1 \in Nat /\ v2 \in BOOLEAN
      /\ v4 = [d \in Search!Dirs |-> IF d = Root THEN "search" ELSE "none"]
      /\ v5 = [d \in Search!Dirs |-> IF d = Root THEN v1 ELSE 0]
      /\ v6 = [d \in Search!Dirs |-> 1] /\ v7 = [d \in Search!Dirs |-> <<>>] /\ v8 = {}
      /\ v9 = [d \in Search!Dirs |-> Search!NoOutput] /\ v10 = Search!NoOutput
  BY Bounds DEF Search!Init
<1>2. Search!NoOutput \in [Search!Files -> Nat] /\ \A f \in Search!Files : Search!NoOutput[f] = 0
  BY DEF Search!NoOutput
<1> HIDE DEF Search!NoOutput
<1>3. Search!TypeOK /\ Search!OnTerminal
  BY <1>1, <1>2 DEF Search!TypeOK, Search!OnTerminal
<1>4. ASSUME NEW d \in Search!Dirs PROVE Search!Begun(d) /\ Search!Ended(d) /\ Search!Written(d)
  <2>1. Search!Begun(d)
    <3>1. ASSUME NEW n \in DOMAIN Entries[d], Entries[d][n] \in Search!Dirs PROVE v4[Entries[d][n]] = "none"
      BY <1>1, <3>1, EntryPlaces
    <3>2. v4[d] # "none" => d = Root /\ v5[d] = v1
      BY <1>1
    <3>3. v6[d] = 1 /\ v1 - 0 = v1
      BY <1>1
    <3> QED
      BY <3>1, <3>2, <3>3, Levels DEF Search!Begun
  <2>2. Search!VisitedDirs(d) = {} /\ Search!WaitedFor(d) = {}
    BY <1>1, EntryPlaces DEF Search!VisitedDirs, Search!Visited, Search!WaitedFor
  <2>3. Search!Ended(d)
    <3>1. v4[d] \in {"search", "none"} /\ Len(v7[d]) = 0
      BY <1>1
    <3>2. Len(v7[d]) + Search!Cardinality(Search!WaitedFor(d)) = Search!Cardinality(Search!VisitedDirs(d))
      <4>1. Search!WaitedFor(d) = Search!VisitedDirs(d) /\ Search!Cardinality(Search!VisitedDirs(d)) \in Nat
        BY <2>2, VisitedIsFinite
      <4> QED
        BY <3>1, <4>1
    <3> QED
      BY <2>2, <3>1, <3>2 DEF Search!Ended
  <2>4. Search!Written(d)
    <3>1. ASSUME NEW n \in DOMAIN Entries[d] PROVE ~(n < v6[d])
      BY <1>1, EntryPlaces
    <3>2. \A f \in Search!Files : v10[f] = 0 /\ \A e \in Search!Dirs : v9[e][f] = 0
      BY <1>1, <1>2
    <3> QED
      BY <3>1, <3>2 DEF Search!Written
  <2> QED
    BY <2>1, <2>3, <2>4
<1>5. v4[Root] # "none"
  BY <1>1, EntryPlaces
<1> QED
  BY <1>3, <1>4, <1>5 DEF Search!IInv

LEMMA SearchFacts ==
  ASSUME Search!IInv
  PROVE  /\ DOMAIN v4 = Search!Dirs /\ DOMAIN v5 = Search!Dirs /\ DOMAIN v6 = Search!Dirs /\ DOMAIN v7 = Search!Dirs
         /\ DOMAIN v9 = Search!Dirs /\ DOMAIN v10 = Search!Files
         /\ \A d \in Search!Dirs : /\ v4[d] \in {"none", "search", "wait", "ok", "failed", "killed"} /\ v5[d] \in Int
                                   /\ v6[d] \in Nat /\ v6[d] >= 1 /\ v7[d] \in Seq(Search!Dirs \cup {Search!AnyChild})
                                   /\ v9[d] \in [Search!Files -> Nat] /\ \A f \in Search!Files : v9[d][f] \in Nat
                                   /\ d \in v8 => v4[d] \in {"ok", "failed", "killed"}
         /\ \A f \in Search!Files : v10[f] \in Nat
         /\ Search!TypeOK /\ \A d \in Search!Dirs : Search!Begun(d) /\ Search!Ended(d) /\ Search!Written(d)
BY DEF Search!IInv, Search!TypeOK

(* Where nobody goes on, as much has been visited as before. *)
LEMMA SameVisits ==
  ASSUME NEW d \in Search!Dirs, v6'[d] = v6[d]
  PROVE  /\ Search!Visited(d)' = Search!Visited(d) /\ Search!VisitedDirs(d)' = Search!VisitedDirs(d)
         /\ v8' = v8 => Search!WaitedFor(d)' = Search!WaitedFor(d)
BY DEF Search!Visited, Search!VisitedDirs, Search!WaitedFor

(* A process ends, and its buffer is put out. *)
LEMMA ExitKeeps ==
  ASSUME Search!IInv, NEW d \in Search!Dirs, NEW end \in {"ok", "failed"}, Search!Exit(d, end), v4[d] \in {"search", "wait"},
         end = "ok" => v7[d] = <<>> /\ (v5[d] > 0 => v6[d] > Len(Entries[d])) /\ v8' = v8,
         v8' \subseteq Search!Dirs, \A e \in v8' : v4[e] \in {"ok", "failed", "killed"},
         \A e \in Search!Dirs \ {d} : Search!WaitedFor(e)' = Search!WaitedFor(e)
  PROVE  Search!IInv'
<1>1. /\ v4' = [v4 EXCEPT ![d] = end] /\ v10' = [f \in Search!Files |-> v10[f] + v9[d][f]]
      /\ UNCHANGED <<v1, v2, v5, v6, v7, v9>>
  BY DEF Search!Exit, Search!input
<1>2. /\ v4'[d] = end /\ (\A e \in Search!Dirs : e # d => v4'[e] = v4[e])
      /\ \A e \in Search!Dirs : v4'[e] # "none" <=> v4[e] # "none"
  BY <1>1, SearchFacts
<1>3. Search!TypeOK'
  <2>1. v4' \in [Search!Dirs -> {"none", "search", "wait", "ok", "failed", "killed"}]
    BY <1>1, SearchFacts DEF Search!TypeOK
  <2>2. v10' \in [Search!Files -> Nat]
    BY <1>1, SearchFacts
  <2>3. v8' \subseteq Search!Dirs /\ \A e \in v8' : v4'[e] \in {"ok", "failed", "killed"}
    BY <1>2
  <2> QED
    BY <1>1, <2>1, <2>2, <2>3, SearchFacts DEF Search!TypeOK
<1>4. Search!OnTerminal'
  BY <1>1, SearchFacts DEF Search!IInv, Search!OnTerminal, Search!NoOutput
<1>5. ASSUME NEW e \in Search!Dirs PROVE Search!Begun(e)'
  BY <1>1, <1>2, SearchFacts DEF Search!Begun
<1>6. ASSUME NEW e \in Search!Dirs PROVE Search!Ended(e)'
  <2>1. /\ Search!Ended(e) /\ Search!VisitedDirs(e)' = Search!VisitedDirs(e)
        /\ (v8' = v8 => Search!WaitedFor(e)' = Search!WaitedFor(e))
    BY <1>1, SearchFacts, SameVisits
  <2>2. \A n \in Search!WaitedFor(e) : Entries[e][n] \in Search!Dirs /\ (v4[Entries[e][n]] \in {"ok", "killed"} => v4'[Entries[e][n]] = v4[Entries[e][n]])
    BY <1>2 DEF Search!WaitedFor, Search!VisitedDirs
  <2>3. CASE e = d
    BY <1>1, <1>2, <2>1, <2>2, <2>3 DEF Search!Ended
  <2>4. CASE e # d
    BY <1>1, <1>2, <2>1, <2>2, <2>4 DEF Search!Ended
  <2> QED
    BY <2>3, <2>4
<1>7. ASSUME NEW e \in Search!Dirs PROVE Search!Written(e)'
  <2> SUFFICES ASSUME NEW n \in DOMAIN Entries[e], NEW f \in Search!Files, f = Entries[e][n]
               PROVE  IF n < v6[e] THEN v10'[f] >= 1 \/ v4'[e] = "killed" \/ (v4'[e] \in {"search", "wait"} /\ v9[e][f] >= 1)
                      ELSE v10'[f] = 0 /\ \A g \in Search!Dirs : v9[g][f] = 0
    BY <1>1 DEF Search!Written
  <2>1. v10'[f] = v10[f] + v9[d][f] /\ v10[f] \in Nat /\ v9[d][f] \in Nat
    BY <1>1, SearchFacts
  <2>2. IF n < v6[e] THEN v10[f] >= 1 \/ v4[e] = "killed" \/ (v4[e] \in {"search", "wait"} /\ v9[e][f] >= 1)
        ELSE v10[f] = 0 /\ \A g \in Search!Dirs : v9[g][f] = 0
    BY SearchFacts DEF Search!Written
  <2>3. CASE n < v6[e] /\ v10[f] >= 1
    BY <2>1, <2>3
  <2>4. CASE n < v6[e] /\ v4[e] \in {"search", "wait"} /\ v9[e][f] >= 1
    <3>1. CASE e = d
      <4>1. v9[d][f] >= 1
        BY <2>4, <3>1
      <4>2. v10'[f] >= 1
        BY <2>1, <4>1
      <4> QED
        BY <2>4, <4>2
    <3>2. CASE e # d
      BY <1>2, <2>4, <3>2
    <3> QED
      BY <3>1, <3>2
  <2>6. CASE n < v6[e] /\ v4[e] = "killed"
    BY <1>2, <2>6
  <2>5. CASE ~(n < v6[e])
    <3>1. v10[f] = 0 /\ \A g \in Search!Dirs : v9[g][f] = 0
      BY <2>2, <2>5
    <3>2. v10'[f] = 0
      BY <2>1, <3>1
    <3> QED
      BY <2>5, <3>1, <3>2
  <2> QED
    BY <2>2, <2>3, <2>4, <2>5, <2>6
<1>8. v4'[Root] # "none"
  BY <1>2, EntryPlaces DEF Search!IInv
<1> QED
  BY <1>3, <1>4, <1>5, <1>6, <1>7, <1>8 DEF Search!IInv

LEMMA LeavingKeeps == ASSUME Search!IInv, NEW d \in Search!Dirs, Search!TooDeep(d) \/ Search!Error(d) PROVE Search!IInv'
<1>1. v4[d] = "search" /\ v8' = v8 /\ \A e \in Search!Dirs : Search!WaitedFor(e)' = Search!WaitedFor(e)
  BY DEF Search!TooDeep, Search!Error, Search!Exit, Search!Searches, Search!WaitedFor,
     Search!VisitedDirs, Search!Visited
<1>2. v8' \subseteq Search!Dirs /\ \A e \in v8' : v4[e] \in {"ok", "failed", "killed"}
  BY <1>1, SearchFacts DEF Search!TypeOK
<1>3. CASE Search!TooDeep(d)
  <2>1. v5[d] <= 0 /\ Search!Exit(d, "ok") /\ v5[d] \in Int
    BY <1>3, SearchFacts DEF Search!TooDeep
  <2>2. Search!VisitedDirs(d) = {} /\ Search!WaitedFor(d) = {}
    <3>1. v6[d] = 1
      <4>1. Search!Begun(d) /\ v6[d] \in Nat /\ v6[d] >= 1
        BY SearchFacts
      <4>2. ~(v6[d] > 1)
        BY <2>1, <4>1 DEF Search!Begun
      <4> QED
        BY <4>1, <4>2
    <3> QED
      BY <3>1, EntryPlaces DEF Search!VisitedDirs, Search!Visited, Search!WaitedFor
  <2>3. v7[d] = <<>>
    <3>1. Len(v7[d]) + Search!Cardinality(Search!WaitedFor(d)) = Search!Cardinality(Search!VisitedDirs(d))
      BY <1>1, SearchFacts DEF Search!Ended
    <3>2. /\ Search!WaitedFor(d) = Search!VisitedDirs(d) /\ Search!Cardinality(Search!VisitedDirs(d)) \in Nat
          /\ v7[d] \in Seq(Search!Dirs \cup {Search!AnyChild})
      BY <2>2, VisitedIsFinite, SearchFacts
    <3>3. Len(v7[d]) = 0
      BY <3>1, <3>2
    <3> QED
      BY <3>2, <3>3, EmptySeq
  <2> QED
    BY <1>1, <1>2, <2>1, <2>3, ExitKeeps
<1>4. CASE Search!Error(d)
  <2>1. Search!Exit(d, "failed")
    BY <1>4 DEF Search!Error
  <2> QED
    BY <1>1, <1>2, <2>1, ExitKeeps
<1> QED
  BY <1>3, <1>4

(* A process goes past an entry. *)
LEMMA Passing ==
  ASSUME Search!IInv, NEW d \in Search!Dirs, Search!Visits(d)
  PROVE  /\ v4[d] = "search" /\ v5[d] > 0 /\ v6[d] \in DOMAIN Entries[d]
         /\ v6'[d] = v6[d] + 1 /\ (\A e \in Search!Dirs : e # d => v6'[e] = v6[e])
         /\ v6' \in [Search!Dirs -> Nat \ {0}] /\ v6[d] \notin Search!Visited(d) /\ Search!Visited(d)' = Search!Visited(d) \cup {v6[d]}
         /\ \A e \in Search!Dirs : \A n \in DOMAIN Entries[e] :
              n < v6'[e] <=> n < v6[e] \/ Entries[e][n] = Search!Entry(d)
         /\ Search!Entry(d) = Entries[d][v6[d]]
         /\ UNCHANGED <<v1, v2, v8>>
<1>1. /\ v6[d] <= Len(Entries[d]) /\ v6' = [v6 EXCEPT ![d] = @ + 1]
      /\ v4[d] = "search" /\ v5[d] > 0 /\ UNCHANGED <<v1, v2, v8>>
  BY DEF Search!Visits, Search!Searches, Search!HasMore, Search!input
<1>2. v6[d] \in Nat /\ v6[d] \in DOMAIN Entries[d] /\ DOMAIN Entries[d] \subseteq Nat
  BY <1>1, SearchFacts, EntryPlaces
<1>3. /\ v6'[d] = v6[d] + 1 /\ (\A e \in Search!Dirs : e # d => v6'[e] = v6[e])
      /\ v6' \in [Search!Dirs -> Nat \ {0}]
  BY <1>1, <1>2, SearchFacts DEF Search!TypeOK
<1>4. v6[d] \notin Search!Visited(d) /\ Search!Visited(d)' = Search!Visited(d) \cup {v6[d]}
  BY <1>2, <1>3 DEF Search!Visited
<1>5. ASSUME NEW e \in Search!Dirs, NEW n \in DOMAIN Entries[e]
      PROVE  n < v6'[e] <=> n < v6[e] \/ Entries[e][n] = Search!Entry(d)
  <2>1. Entries[e][n] = Search!Entry(d) <=> e = d /\ n = v6[d]
    BY <1>2, EntryPlaces DEF Search!Entry
  <2>2. CASE e = d
    <3>1. n \in Nat
      BY <1>2, <2>2
    <3> QED
      BY <1>2, <1>3, <2>1, <2>2, <3>1
  <2>3. CASE e # d
    BY <1>3, <2>1, <2>3
  <2> QED
    BY <2>2, <2>3
<1> QED
  BY <1>1, <1>2, <1>3, <1>4, <1>5 DEF Search!Entry

(* A file is searched: its line is put out on a terminal, and otherwise kept in the buffer. *)
LEMMA FileKeeps == ASSUME Search!IInv, NEW d \in Search!Dirs, Search!search_str_in_file(d) PROVE Search!IInv'
<1> DEFINE g == Search!Entry(d)
<1>1. /\ Search!Visits(d) /\ g \in Search!Files /\ UNCHANGED <<v4, v5, v7>>
      /\ \/ v2 /\ v10' = [v10 EXCEPT ![g] = @ + 1] /\ v9' = v9
         \/ ~v2 /\ v9' = [v9 EXCEPT ![d][g] = @ + 1] /\ v10' = v10
  BY DEF Search!search_str_in_file
<1>2. /\ v4[d] = "search" /\ v5[d] > 0 /\ v6[d] \in DOMAIN Entries[d] /\ g = Entries[d][v6[d]]
      /\ v6'[d] = v6[d] + 1 /\ (\A e \in Search!Dirs : e # d => v6'[e] = v6[e])
      /\ v6' \in [Search!Dirs -> Nat \ {0}] /\ Search!Visited(d)' = Search!Visited(d) \cup {v6[d]}
      /\ \A e \in Search!Dirs : \A n \in DOMAIN Entries[e] : n < v6'[e] <=> n < v6[e] \/ Entries[e][n] = g
      /\ UNCHANGED <<v1, v2, v8>>
  BY <1>1, Passing
<1> HIDE DEF g
<1>3. v10[g] = 0 /\ (\A e \in Search!Dirs : v9[e][g] = 0) /\ v6[d] \in Nat /\ g \notin Search!Dirs
  <2>1. Search!Written(d) /\ v6[d] \in Nat
    BY SearchFacts
  <2>2. ~(v6[d] < v6[d])
    BY <2>1
  <2> QED
    BY <1>1, <1>2, <2>1, <2>2, EntryPlaces DEF Search!Written
<1>4. /\ v10' \in [Search!Files -> Nat] /\ v9' \in [Search!Dirs -> [Search!Files -> Nat]]
      /\ \A f \in Search!Files : f # g => v10'[f] = v10[f] /\ \A e \in Search!Dirs : v9'[e][f] = v9[e][f]
      /\ \/ v2 /\ v10'[g] = 1 /\ v9' = v9
         \/ ~v2 /\ v9'[d][g] = 1
  <2>1. CASE v2 /\ v10' = [v10 EXCEPT ![g] = @ + 1] /\ v9' = v9
    <3>1. v10'[g] = 1 /\ v10' \in [Search!Files -> Nat] /\ \A f \in Search!Files : f # g => v10'[f] = v10[f]
      BY <1>1, <1>3, <2>1, SearchFacts DEF Search!TypeOK
    <3> QED
      BY <2>1, <3>1, SearchFacts DEF Search!TypeOK
  <2>2. CASE ~v2 /\ v9' = [v9 EXCEPT ![d][g] = @ + 1] /\ v10' = v10
    <3>1. /\ v9[d] \in [Search!Files -> Nat] /\ v9'[d] = [v9[d] EXCEPT ![g] = @ + 1]
          /\ \A e \in Search!Dirs : e # d => v9'[e] = v9[e]
      BY <2>2, SearchFacts
    <3>2. v9'[d] \in [Search!Files -> Nat] /\ v9'[d][g] = 1 /\ \A f \in Search!Files : f # g => v9'[d][f] = v9[d][f]
      BY <1>1, <1>3, <3>1
    <3>3. v9' \in [Search!Dirs -> [Search!Files -> Nat]]
      BY <2>2, <3>2, SearchFacts DEF Search!TypeOK
    <3> QED
      BY <2>2, <3>1, <3>2, <3>3, SearchFacts DEF Search!TypeOK
  <2> QED
    BY <1>1, <2>1, <2>2
<1>5. Search!TypeOK'
  BY <1>1, <1>2, <1>4, SearchFacts DEF Search!TypeOK
<1>6. Search!OnTerminal'
  BY <1>2, <1>4 DEF Search!IInv, Search!OnTerminal
<1>7. ASSUME NEW e \in Search!Dirs PROVE Search!Begun(e)'
  <2>1. Search!Begun(e)
    BY SearchFacts
  <2>2. v6'[e] > 1 => v4[e] # "none" /\ v5[e] > 0
    BY <1>2, <2>1 DEF Search!Begun
  <2> QED
    BY <1>1, <1>2, <2>1, <2>2 DEF Search!Begun
<1>8. ASSUME NEW e \in Search!Dirs PROVE Search!Ended(e)'
  <2>1. Search!Ended(e)
    BY SearchFacts
  <2>2. Search!VisitedDirs(e)' = Search!VisitedDirs(e) /\ Search!WaitedFor(e)' = Search!WaitedFor(e)
    BY <1>2, <1>3 DEF Search!VisitedDirs, Search!WaitedFor, Search!Visited
  <2>3. v4[e] \in {"wait", "ok"} => v6'[e] = v6[e]
    BY <1>2
  <2> QED
    BY <1>1, <2>1, <2>2, <2>3 DEF Search!Ended
<1>9. ASSUME NEW e \in Search!Dirs PROVE Search!Written(e)'
  <2> SUFFICES ASSUME NEW n \in DOMAIN Entries[e], NEW f \in Search!Files, f = Entries[e][n]
               PROVE  IF n < v6'[e] THEN v10'[f] >= 1 \/ v4'[e] = "killed" \/ (v4'[e] \in {"search", "wait"} /\ v9'[e][f] >= 1)
                      ELSE v10'[f] = 0 /\ \A h \in Search!Dirs : v9'[h][f] = 0
    BY DEF Search!Written
  <2>1. CASE f = g
    <3>1. e = d /\ n < v6'[e]
      <4>1. Entries[e][n] = Entries[d][v6[d]] /\ Entries[e][n] = g
        BY <1>2, <2>1
      <4> QED
        BY <1>2, <4>1, EntryPlaces
    <3> QED
      BY <1>1, <1>2, <1>4, <2>1, <3>1
  <2>2. CASE f # g
    <3>1. n < v6'[e] <=> n < v6[e]
      BY <1>2, <2>2
    <3>2. IF n < v6[e] THEN v10[f] >= 1 \/ v4[e] = "killed" \/ (v4[e] \in {"search", "wait"} /\ v9[e][f] >= 1)
          ELSE v10[f] = 0 /\ \A h \in Search!Dirs : v9[h][f] = 0
      BY SearchFacts DEF Search!Written
    <3> QED
      BY <1>1, <1>4, <2>2, <3>1, <3>2
  <2> QED
    BY <2>1, <2>2
<1> QED
  BY <1>1, <1>5, <1>6, <1>7, <1>8, <1>9 DEF Search!IInv

LEMMA SearchForks == ASSUME Search!IInv, NEW d \in Search!Dirs, Search!Fork(d) PROVE Search!IInv'
<1> DEFINE x == Search!Entry(d)
<1>1. /\ Search!Visits(d) /\ x \in Search!Dirs /\ v10' = v10
      /\ \/ /\ v4' = [v4 EXCEPT ![x] = "search"] /\ v5' = [v5 EXCEPT ![x] = v5[d] - 1]
            /\ v9' = [v9 EXCEPT ![x] = v9[d]] /\ v7' = [v7 EXCEPT ![d] = Append(@, x)]
         \/ v7' = [v7 EXCEPT ![d] = Append(@, Search!AnyChild)] /\ UNCHANGED <<v4, v5, v9>>
  BY DEF Search!Fork
<1>2. /\ v4[d] = "search" /\ v5[d] > 0 /\ v6[d] \in DOMAIN Entries[d] /\ x = Entries[d][v6[d]]
      /\ v6'[d] = v6[d] + 1 /\ (\A e \in Search!Dirs : e # d => v6'[e] = v6[e])
      /\ v6' \in [Search!Dirs -> Nat \ {0}] /\ v6[d] \notin Search!Visited(d) /\ Search!Visited(d)' = Search!Visited(d) \cup {v6[d]}
      /\ \A e \in Search!Dirs : \A n \in DOMAIN Entries[e] : n < v6'[e] <=> n < v6[e] \/ Entries[e][n] = x
      /\ UNCHANGED <<v1, v2, v8>>
  BY <1>1, Passing
<1> HIDE DEF x
<1>3. v4[x] = "none" /\ x # d /\ x # Root /\ Search!Level[x] = Search!Level[d] + 1
  <2>1. Search!Begun(d) /\ v6[d] \in Nat
    BY SearchFacts
  <2>2. ~(v6[d] < v6[d])
    BY <2>1
  <2>3. v4[x] = "none"
    BY <1>1, <1>2, <2>1, <2>2 DEF Search!Begun
  <2>4. x \in Search!Inside(d)
    BY <1>2 DEF Search!Inside
  <2> QED
    BY <1>1, <1>2, <2>3, <2>4, Levels, EntryPlaces
<1>4. PICK y \in Search!Dirs \cup {Search!AnyChild} : v7' = [v7 EXCEPT ![d] = Append(@, y)]
  BY <1>1
<1>5. /\ v7'[d] \in Seq(Search!Dirs \cup {Search!AnyChild}) /\ Len(v7'[d]) = Len(v7[d]) + 1 /\ Len(v7[d]) \in Nat
      /\ (\A e \in Search!Dirs : e # d => v7'[e] = v7[e]) /\ v7' \in [Search!Dirs -> Seq(Search!Dirs \cup {Search!AnyChild})]
  <2>1. /\ v7[d] \in Seq(Search!Dirs \cup {Search!AnyChild}) /\ v7'[d] = Append(v7[d], y)
        /\ \A e \in Search!Dirs : e # d => v7'[e] = v7[e]
    BY <1>4, SearchFacts
  <2>2. v7'[d] \in Seq(Search!Dirs \cup {Search!AnyChild}) /\ Len(v7'[d]) = Len(v7[d]) + 1 /\ Len(v7[d]) \in Nat
    BY <2>1
  <2> QED
    BY <1>4, <2>1, <2>2, SearchFacts DEF Search!TypeOK
<1>6. /\ v4' \in [Search!Dirs -> {"none", "search", "wait", "ok", "failed", "killed"}] /\ v5' \in [Search!Dirs -> Int]
      /\ v4'[x] \in {"none", "search"} /\ \A e \in Search!Dirs : e # x => v4'[e] = v4[e] /\ v5'[e] = v5[e]
      /\ v4'[x] # "none" => v5'[x] = v5[d] - 1
  <2>1. CASE v4' = [v4 EXCEPT ![x] = "search"] /\ v5' = [v5 EXCEPT ![x] = v5[d] - 1]
    <3>1. v5[d] - 1 \in Int
      BY SearchFacts
    <3>2. v4'[x] = "search" /\ v5'[x] = v5[d] - 1
      BY <1>1, <2>1, SearchFacts
    <3>3. \A e \in Search!Dirs : e # x => v4'[e] = v4[e] /\ v5'[e] = v5[e]
      BY <2>1, SearchFacts
    <3>4. v4' \in [Search!Dirs -> {"none", "search", "wait", "ok", "failed", "killed"}] /\ v5' \in [Search!Dirs -> Int]
      BY <2>1, <3>1, SearchFacts DEF Search!TypeOK
    <3> QED
      BY <3>2, <3>3, <3>4
  <2>2. CASE UNCHANGED <<v4, v5>>
    BY <1>3, <2>2, SearchFacts DEF Search!TypeOK
  <2> QED
    BY <1>1, <2>1, <2>2
<1>7. /\ v9' \in [Search!Dirs -> [Search!Files -> Nat]]
      /\ \A e \in Search!Dirs : (e # x => v9'[e] = v9[e]) /\ (v9'[e] = v9[e] \/ v9'[e] = v9[d])
  BY <1>1, SearchFacts DEF Search!TypeOK
<1>8. Search!TypeOK'
  <2>1. \A e \in v8 : e # x
    BY <1>3, SearchFacts DEF Search!TypeOK
  <2>2. v1' \in Nat /\ v2' \in BOOLEAN /\ v8' \subseteq Search!Dirs /\ v10' \in [Search!Files -> Nat]
    BY <1>1, <1>2, SearchFacts DEF Search!TypeOK
  <2>3. \A e \in v8' : v4'[e] \in {"ok", "failed", "killed"}
    BY <1>2, <1>6, <2>1, SearchFacts DEF Search!TypeOK
  <2> QED
    BY <1>2, <1>5, <1>6, <1>7, <2>2, <2>3 DEF Search!TypeOK
<1>9. Search!OnTerminal'
  BY <1>1, <1>2, <1>7 DEF Search!IInv, Search!OnTerminal
<1>10. ASSUME NEW e \in Search!Dirs PROVE Search!Begun(e)'
  <2>1. Search!Begun(e) /\ v6[e] \in Nat /\ v6[e] >= 1 /\ Search!Begun(d) /\ v5[d] \in Int /\ v1 \in Nat
    BY SearchFacts DEF Search!TypeOK
  <2>2. v4'[e] # "none" => v5'[e] = v1 - Search!Level[e]
    <3>1. CASE e = x
      <4>1. v5[d] = v1 - Search!Level[d] /\ Search!Level[d] \in Nat
        BY <1>2, <2>1, Levels DEF Search!Begun
      <4> QED
        BY <1>3, <1>6, <2>1, <3>1, <4>1
    <3>2. CASE e # x
      BY <1>6, <2>1, <3>2 DEF Search!Begun
    <3> QED
      BY <3>1, <3>2
  <2>3. v6'[e] > 1 => v4'[e] # "none" /\ v5'[e] > 0
    <3>1. CASE e = d
      BY <1>2, <1>3, <1>6, <3>1
    <3>2. CASE e = x
      BY <1>2, <1>3, <2>1, <3>2 DEF Search!Begun
    <3>3. CASE e # d /\ e # x
      BY <1>2, <1>6, <2>1, <3>3 DEF Search!Begun
    <3> QED
      BY <3>1, <3>2, <3>3
  <2>4. ASSUME NEW n \in DOMAIN Entries[e], Entries[e][n] \in Search!Dirs, v4'[Entries[e][n]] # "none" PROVE n < v6'[e]
    <3>1. CASE Entries[e][n] = x
      BY <1>2, <3>1
    <3>2. CASE Entries[e][n] # x
      BY <1>2, <1>6, <2>1, <2>4, <3>2 DEF Search!Begun
    <3> QED
      BY <3>1, <3>2
  <2> QED
    BY <1>2, <2>2, <2>3, <2>4 DEF Search!Begun
<1>11. ASSUME NEW e \in Search!Dirs PROVE Search!Ended(e)'
  <2>1. Search!Ended(e)
    BY SearchFacts
  <2>2. \A n \in Search!WaitedFor(e) : Entries[e][n] \in Search!Dirs /\ (v4[Entries[e][n]] \in {"ok", "killed"} => v4'[Entries[e][n]] = v4[Entries[e][n]])
    BY <1>3, <1>6 DEF Search!WaitedFor, Search!VisitedDirs
  <2>3. CASE e = d
    <3>1. Search!VisitedDirs(d)' = Search!VisitedDirs(d) \cup {v6[d]} /\ v6[d] \notin Search!VisitedDirs(d)
      BY <1>1, <1>2 DEF Search!VisitedDirs
    <3>2. Search!WaitedFor(d)' = Search!WaitedFor(d)
      <4>1. x \notin v8
        BY <1>3, SearchFacts DEF Search!TypeOK
      <4> QED
        BY <1>2, <3>1, <4>1 DEF Search!WaitedFor
    <3>3. Search!Cardinality(Search!VisitedDirs(d)') = Search!Cardinality(Search!VisitedDirs(d)) + 1
      <4>1. Search!IsFiniteSet(Search!VisitedDirs(d))
        BY VisitedIsFinite
      <4> QED
        BY <3>1, <4>1, FS_AddElement, SearchCounts
    <3>4. Len(v7'[d]) + Search!Cardinality(Search!WaitedFor(d)') = Search!Cardinality(Search!VisitedDirs(d)')
      <4>1. Len(v7[d]) + Search!Cardinality(Search!WaitedFor(d)) = Search!Cardinality(Search!VisitedDirs(d))
        BY <1>2, <2>1, <2>3 DEF Search!Ended
      <4>2. Search!Cardinality(Search!WaitedFor(d)) \in Nat /\ Search!Cardinality(Search!VisitedDirs(d)) \in Nat
        BY VisitedIsFinite
      <4>3. Search!Cardinality(Search!WaitedFor(d)') = Search!Cardinality(Search!WaitedFor(d))
        BY <3>2
      <4> QED
        BY <1>5, <3>3, <4>1, <4>2, <4>3
    <3>5. v4'[d] = "search" /\ \A n \in Search!WaitedFor(d) : v4'[Entries[d][n]] \in {"ok", "killed"}
      BY <1>2, <1>3, <1>6, <2>1, <2>2, <2>3 DEF Search!Ended
    <3> QED
      BY <2>3, <3>2, <3>4, <3>5 DEF Search!Ended
  <2>4. CASE e # d
    <3>1. /\ Search!VisitedDirs(e)' = Search!VisitedDirs(e)
          /\ Search!WaitedFor(e)' = Search!WaitedFor(e) /\ v7'[e] = v7[e] /\ v6'[e] = v6[e]
      BY <1>2, <1>5, <2>4, SameVisits
    <3>2. CASE e = x
      BY <1>3, <1>6, <2>1, <2>2, <3>1, <3>2 DEF Search!Ended
    <3>3. CASE e # x
      BY <1>6, <2>1, <2>2, <3>1, <3>3 DEF Search!Ended
    <3> QED
      BY <3>2, <3>3
  <2> QED
    BY <2>3, <2>4
<1>12. ASSUME NEW e \in Search!Dirs PROVE Search!Written(e)'
  <2> SUFFICES ASSUME NEW n \in DOMAIN Entries[e], NEW f \in Search!Files, f = Entries[e][n]
               PROVE  IF n < v6'[e] THEN v10[f] >= 1 \/ v4'[e] = "killed" \/ (v4'[e] \in {"search", "wait"} /\ v9'[e][f] >= 1)
                      ELSE v10[f] = 0 /\ \A h \in Search!Dirs : v9'[h][f] = 0
    BY <1>1 DEF Search!Written
  <2>1. n < v6'[e] <=> n < v6[e]
    BY <1>1, <1>2, EntryPlaces
  <2>2. IF n < v6[e] THEN v10[f] >= 1 \/ v4[e] = "killed" \/ (v4[e] \in {"search", "wait"} /\ v9[e][f] >= 1)
        ELSE v10[f] = 0 /\ \A h \in Search!Dirs : v9[h][f] = 0
    BY SearchFacts DEF Search!Written
  <2>3. CASE n < v6[e]
    <3>1. v4[e] \in {"search", "wait", "killed"} => e # x
      BY <1>3
    <3> QED
      BY <1>6, <1>7, <2>1, <2>2, <2>3, <3>1
  <2>4. CASE ~(n < v6[e])
    BY <1>7, <2>1, <2>2, <2>4
  <2> QED
    BY <2>3, <2>4
<1>13. v4'[Root] # "none"
  BY <1>3, <1>6, EntryPlaces DEF Search!IInv
<1> QED
  BY <1>8, <1>9, <1>10, <1>11, <1>12, <1>13 DEF Search!IInv

LEMMA ClosedirKeeps == ASSUME Search!IInv, NEW d \in Search!Dirs, Search!closedir(d) PROVE Search!IInv'
<1>1. /\ v4[d] = "search" /\ v5[d] > 0 /\ ~(v6[d] <= Len(Entries[d])) /\ v4' = [v4 EXCEPT ![d] = "wait"]
      /\ UNCHANGED <<v1, v2, v5, v6, v7, v8, v9, v10>>
  BY DEF Search!closedir, Search!Searches, Search!HasMore, Search!input
<1>2. /\ v6[d] > Len(Entries[d]) /\ v4'[d] = "wait" /\ \A e \in Search!Dirs : e # d => v4'[e] = v4[e]
      /\ v4' \in [Search!Dirs -> {"none", "search", "wait", "ok", "failed", "killed"}] /\ \A e \in v8 : e # d
  <2>1. v6[d] \in Nat /\ Len(Entries[d]) \in Nat
    BY SearchFacts, EntryPlaces
  <2>2. v6[d] > Len(Entries[d])
    BY <1>1, <2>1
  <2>3. v4 \in [Search!Dirs -> {"none", "search", "wait", "ok", "failed", "killed"}] /\ \A e \in v8 : e # d
    BY <1>1, SearchFacts DEF Search!TypeOK
  <2> QED
    BY <1>1, <2>2, <2>3
<1>3. Search!TypeOK'
  BY <1>1, <1>2, SearchFacts DEF Search!TypeOK
<1>4. Search!OnTerminal' /\ v4'[Root] # "none"
  BY <1>1, <1>2, EntryPlaces DEF Search!IInv, Search!OnTerminal
<1>5. ASSUME NEW e \in Search!Dirs PROVE Search!Begun(e)' /\ Search!Ended(e)' /\ Search!Written(e)'
  <2>1. Search!Begun(e) /\ Search!Ended(e) /\ Search!Written(e)
    BY SearchFacts
  <2>2. Search!Begun(e)'
    BY <1>1, <1>2, <2>1 DEF Search!Begun
  <2>3. Search!VisitedDirs(e)' = Search!VisitedDirs(e) /\ Search!WaitedFor(e)' = Search!WaitedFor(e)
    BY <1>1, SameVisits
  <2>4. \A n \in Search!WaitedFor(e) : Entries[e][n] \in Search!Dirs /\ (v4[Entries[e][n]] \in {"ok", "killed"} => v4'[Entries[e][n]] = v4[Entries[e][n]])
    BY <1>1, <1>2 DEF Search!WaitedFor, Search!VisitedDirs
  <2>5. Search!Ended(e)'
    <3>1. CASE e = d
      BY <1>1, <1>2, <2>1, <2>3, <2>4, <3>1 DEF Search!Ended
    <3>2. CASE e # d
      BY <1>1, <1>2, <2>1, <2>3, <2>4, <3>2 DEF Search!Ended
    <3> QED
      BY <3>1, <3>2
  <2>6. Search!Written(e)'
    BY <1>1, <1>2, <2>1 DEF Search!Written
  <2> QED
    BY <2>2, <2>5, <2>6
<1> QED
  BY <1>3, <1>4, <1>5 DEF Search!IInv

(* A child is waited for, which has ended well or was killed. *)
LEMMA ChildEndedWell ==
  ASSUME Search!IInv, NEW d \in Search!Dirs, v4[d] = "wait", v7[d] # <<>>, NEW e \in Search!Inside(d) \cap Search!Dirs,
         e \notin v8, v8' = v8 \cup {e}, v4[e] \in {"ok", "killed"}, v7' = [v7 EXCEPT ![d] = Tail(@)],
         UNCHANGED <<Search!input, v4, v5, v6, v9, v10>>
  PROVE  Search!IInv'
<1>1. UNCHANGED <<v1, v2, v4, v5, v6, v9, v10>>
  BY DEF Search!input
<1>2. PICK n \in DOMAIN Entries[d] : Entries[d][n] = e
  BY EntryPlaces
<1>3. n \in Search!VisitedDirs(d) /\ n \notin Search!WaitedFor(d)
  BY <1>2, SearchFacts DEF Search!VisitedDirs, Search!Visited, Search!WaitedFor, Search!Begun
<1>4. /\ v7'[d] \in Seq(Search!Dirs \cup {Search!AnyChild}) /\ Len(v7'[d]) = Len(v7[d]) - 1 /\ Len(v7[d]) \in Nat
      /\ (\A c \in Search!Dirs : c # d => v7'[c] = v7[c]) /\ v7' \in [Search!Dirs -> Seq(Search!Dirs \cup {Search!AnyChild})]
  <2>1. /\ v7[d] \in Seq(Search!Dirs \cup {Search!AnyChild}) /\ v7'[d] = Tail(v7[d])
        /\ \A c \in Search!Dirs : c # d => v7'[c] = v7[c]
    BY SearchFacts
  <2>2. ASSUME NEW S, NEW q \in Seq(S), q # <<>>
        PROVE  Tail(q) \in Seq(S) /\ Len(Tail(q)) = Len(q) - 1 /\ Len(q) \in Nat
    <3>1. Len(q) \in Nat /\ Len(q) # 0
      BY <2>2, EmptySeq
    <3> QED
      BY <3>1
  <2>3. v7'[d] \in Seq(Search!Dirs \cup {Search!AnyChild}) /\ Len(v7'[d]) = Len(v7[d]) - 1 /\ Len(v7[d]) \in Nat
    BY <2>1, <2>2
  <2> QED
    BY <2>1, <2>3, SearchFacts DEF Search!TypeOK
<1>5. Search!TypeOK'
  BY <1>1, <1>4, SearchFacts DEF Search!TypeOK
<1>6. Search!OnTerminal' /\ v4'[Root] # "none"
  BY <1>1 DEF Search!IInv, Search!OnTerminal
<1>7. ASSUME NEW c \in Search!Dirs PROVE Search!Begun(c)' /\ Search!Ended(c)' /\ Search!Written(c)'
  <2>1. /\ Search!Begun(c) /\ Search!Ended(c) /\ Search!Written(c)
        /\ Search!VisitedDirs(c)' = Search!VisitedDirs(c)
    BY <1>1, SearchFacts, SameVisits
  <2>2. Search!Begun(c)' /\ Search!Written(c)'
    BY <1>1, <2>1 DEF Search!Begun, Search!Written
  <2>3. Search!Ended(c)'
    <3>1. CASE c = d
      <4>1. Search!WaitedFor(d)' = Search!WaitedFor(d) \cup {n}
        BY <1>2, <1>3, <2>1, <3>1, EntryPlaces DEF Search!WaitedFor, Search!VisitedDirs, Search!Visited
      <4>2. Search!Cardinality(Search!WaitedFor(d)') = Search!Cardinality(Search!WaitedFor(d)) + 1
        BY <1>3, <4>1, VisitedIsFinite, FS_AddElement, SearchCounts
      <4>3. Len(v7'[d]) + Search!Cardinality(Search!WaitedFor(d)') = Search!Cardinality(Search!VisitedDirs(d)')
        <5>1. Len(v7[d]) + Search!Cardinality(Search!WaitedFor(d)) = Search!Cardinality(Search!VisitedDirs(d))
          BY <2>1, <3>1 DEF Search!Ended
        <5>2. /\ Search!Cardinality(Search!WaitedFor(d)) \in Nat
              /\ Search!Cardinality(Search!VisitedDirs(d)') = Search!Cardinality(Search!VisitedDirs(d))
          BY <2>1, <3>1, VisitedIsFinite
        <5> QED
          BY <1>4, <4>2, <5>1, <5>2
      <4>4. \A k \in Search!WaitedFor(d)' : v4[Entries[d][k]] \in {"ok", "killed"}
        BY <1>2, <2>1, <3>1, <4>1 DEF Search!Ended
      <4> QED
        BY <1>1, <2>1, <3>1, <4>3, <4>4 DEF Search!Ended
    <3>2. CASE c # d
      <4>1. Search!WaitedFor(c)' = Search!WaitedFor(c)
        <5>1. \A k \in Search!VisitedDirs(c) : Entries[c][k] # e
          BY <1>2, <3>2, EntryPlaces DEF Search!VisitedDirs, Search!Visited
        <5> QED
          BY <2>1, <5>1 DEF Search!WaitedFor
      <4> QED
        BY <1>1, <1>4, <2>1, <3>2, <4>1 DEF Search!Ended
    <3> QED
      BY <3>1, <3>2
  <2> QED
    BY <2>2, <2>3
<1> QED
  BY <1>5, <1>6, <1>7 DEF Search!IInv

LEMMA WaitingKeeps == ASSUME Search!IInv, NEW d \in Search!Dirs, Search!check_children_status(d) PROVE Search!IInv'
<1> DEFINE children == {e \in Search!Inside(d) \cap Search!Dirs : v4[e] # "none"} \ v8
           waited == IF Head(v7[d]) = Search!AnyChild THEN children ELSE {Head(v7[d])} \cap children
<1>1. v4[d] = "wait" /\ v8 \subseteq Search!Dirs /\ \A e \in v8 : v4[e] \in {"ok", "failed", "killed"}
  BY SearchFacts DEF Search!check_children_status, Search!TypeOK
<1>2. (v8' = v8 /\ v6' = v6) => \A e \in Search!Dirs : Search!WaitedFor(e)' = Search!WaitedFor(e)
  BY SameVisits
<1>3. CASE v7[d] = <<>>
  <2>1. Search!Exit(d, "ok") /\ v8' = v8 /\ v6' = v6
    BY <1>3 DEF Search!check_children_status, Search!Exit
  <2>2. v5[d] > 0 => v6[d] > Len(Entries[d])
    BY <1>1, SearchFacts DEF Search!Ended
  <2> QED
    BY <1>1, <1>2, <1>3, <2>1, <2>2, ExitKeeps
<1>4. CASE v7[d] # <<>>
  <2>1. \/ Search!Exit(d, "failed") /\ v8' = v8
        \/ \E e \in waited :
             /\ v4[e] \in {"ok", "failed", "killed"} /\ v8' = v8 \cup {e}
             /\ IF v4[e] = "failed" THEN Search!Exit(d, "failed")
                ELSE /\ v7' = [v7 EXCEPT ![d] = Tail(@)]
                     /\ UNCHANGED <<Search!input, v4, v5, v6, v9, v10>>
    BY <1>4 DEF Search!check_children_status
  <2>2. waited \subseteq children
    OBVIOUS
  <2> HIDE DEF waited
  <2>3. CASE Search!Exit(d, "failed") /\ v8' = v8
    <3>1. v6' = v6
      BY <2>3 DEF Search!Exit
    <3> QED
      BY <1>1, <1>2, <2>3, <3>1, ExitKeeps
  <2>4. ASSUME NEW e \in children, v4[e] = "failed", v8' = v8 \cup {e}, Search!Exit(d, "failed")
        PROVE  Search!IInv'
    <3>1. \A c \in Search!Dirs \ {d} : Search!WaitedFor(c)' = Search!WaitedFor(c)
      <4> SUFFICES ASSUME NEW c \in Search!Dirs \ {d} PROVE Search!WaitedFor(c)' = Search!WaitedFor(c)
        OBVIOUS
      <4>1. Search!VisitedDirs(c)' = Search!VisitedDirs(c)
        BY <2>4, SameVisits DEF Search!Exit
      <4>2. PICK n \in DOMAIN Entries[d] : Entries[d][n] = e
        BY EntryPlaces
      <4>3. \A k \in Search!VisitedDirs(c) : Entries[c][k] # e
        BY <4>2, EntryPlaces DEF Search!VisitedDirs, Search!Visited
      <4> QED
        BY <2>4, <4>1, <4>3 DEF Search!WaitedFor
    <3>2. v8' \subseteq Search!Dirs /\ \A c \in v8' : v4[c] \in {"ok", "failed", "killed"}
      BY <1>1, <2>4
    <3> QED
      BY <1>1, <2>4, <3>1, <3>2, ExitKeeps
  <2>5. ASSUME NEW e \in children, v4[e] \in {"ok", "killed"}, v8' = v8 \cup {e}, v7' = [v7 EXCEPT ![d] = Tail(@)],
               UNCHANGED <<Search!input, v4, v5, v6, v9, v10>>
        PROVE  Search!IInv'
    BY <1>1, <1>4, <2>5, ChildEndedWell
  <2> QED
    BY <2>1, <2>2, <2>3, <2>4, <2>5
<1> QED
  BY <1>3, <1>4

LEMMA KillKeeps == ASSUME Search!IInv, NEW d \in Search!Dirs, Search!Killed(d) PROVE Search!IInv'
<1>1. /\ v4[d] \in {"search", "wait"} /\ v4' = [v4 EXCEPT ![d] = "killed"]
      /\ UNCHANGED <<v1, v2, v5, v6, v7, v8, v9, v10>>
  BY DEF Search!Killed, Search!input
<1>2. /\ v4'[d] = "killed" /\ \A e \in Search!Dirs : e # d => v4'[e] = v4[e]
      /\ v4' \in [Search!Dirs -> {"none", "search", "wait", "ok", "failed", "killed"}] /\ \A e \in v8 : e # d
  BY <1>1, SearchFacts DEF Search!TypeOK
<1>3. Search!TypeOK'
  BY <1>1, <1>2, SearchFacts DEF Search!TypeOK
<1>4. Search!OnTerminal' /\ v4'[Root] # "none"
  BY <1>1, <1>2, EntryPlaces DEF Search!IInv, Search!OnTerminal
<1>5. ASSUME NEW e \in Search!Dirs PROVE Search!Begun(e)' /\ Search!Ended(e)' /\ Search!Written(e)'
  <2>1. Search!Begun(e) /\ Search!Ended(e) /\ Search!Written(e)
    BY SearchFacts
  <2>2. Search!Begun(e)'
    BY <1>1, <1>2, <2>1 DEF Search!Begun
  <2>3. Search!VisitedDirs(e)' = Search!VisitedDirs(e) /\ Search!WaitedFor(e)' = Search!WaitedFor(e)
    BY <1>1, SameVisits
  <2>4. \A n \in Search!WaitedFor(e) : Entries[e][n] \in Search!Dirs /\ v4'[Entries[e][n]] = v4[Entries[e][n]]
    BY <1>1, <1>2 DEF Search!WaitedFor, Search!VisitedDirs
  <2>5. Search!Ended(e)'
    <3>1. CASE e = d
      BY <1>1, <1>2, <2>1, <3>1 DEF Search!Ended
    <3>2. CASE e # d
      BY <1>1, <1>2, <2>1, <2>3, <2>4, <3>2 DEF Search!Ended
    <3> QED
      BY <3>1, <3>2
  <2>6. Search!Written(e)'
    <3>1. CASE e = d
      BY <1>1, <1>2, <2>1, <3>1 DEF Search!Written
    <3>2. CASE e # d
      BY <1>1, <1>2, <2>1, <3>2 DEF Search!Written
    <3> QED
      BY <3>1, <3>2
  <2> QED
    BY <2>2, <2>5, <2>6
<1> QED
  BY <1>3, <1>4, <1>5 DEF Search!IInv

LEMMA SearchKeeps == ASSUME Search!IInv, Search!Next PROVE Search!IInv'
BY LeavingKeeps, FileKeeps, SearchForks, ClosedirKeeps, WaitingKeeps, KillKeeps DEF Search!Next

LEMMA SearchStays == ASSUME Search!IInv, UNCHANGED Search!vars PROVE Search!IInv'
<1>1. UNCHANGED <<v1, v2, v4, v5, v6, v7, v8, v9, v10>>
  BY DEF Search!vars
<1>2. Search!TypeOK' /\ Search!OnTerminal' /\ v4'[Root] # "none"
  BY <1>1 DEF Search!IInv, Search!TypeOK, Search!OnTerminal
<1>3. ASSUME NEW d \in Search!Dirs PROVE Search!Begun(d)' /\ Search!Ended(d)' /\ Search!Written(d)'
  <2>1. /\ Search!Begun(d) /\ Search!Ended(d) /\ Search!Written(d)
        /\ Search!VisitedDirs(d)' = Search!VisitedDirs(d) /\ Search!WaitedFor(d)' = Search!WaitedFor(d)
    BY <1>1, SearchFacts, SameVisits
  <2>2. Search!Begun(d)' /\ Search!Written(d)'
    BY <1>1, <2>1 DEF Search!Begun, Search!Written
  <2>3. Search!Ended(d)'
    BY <1>1, <2>1 DEF Search!Ended
  <2> QED
    BY <2>2, <2>3
<1> QED
  BY <1>2, <1>3 DEF Search!IInv

(* If the first process ended well, all did down to the depth asked for where nobody was killed. *)
LEMMA AllEndedWell ==
  ASSUME Search!IInv, v4[Root] = "ok", NEW part \in SUBSET Search!Dirs,
         \A d \in part : v4[d] # "killed" /\ (d = Root \/ Search!Parent(d) \in part)
  PROVE  \A d \in part : v4[d] = IF Search!Level[d] <= v1 THEN "ok" ELSE "none"
<1> DEFINE right(d) == v4[d] = IF Search!Level[d] <= v1 THEN "ok" ELSE "none"
           wrong == {d \in part : ~right(d)}
           least == {Search!Level[d] : d \in wrong}
<1>1. v1 \in Nat /\ right(Root)
  BY SearchFacts, Levels DEF Search!TypeOK
<1>2. SUFFICES ASSUME wrong # {} PROVE FALSE
  OBVIOUS
<1> HIDE DEF right
<1>3. least \in SUBSET Nat /\ least # {}
  BY <1>2, Levels
<1>4. Min(least) \in least /\ \A x \in least : Min(least) <= x
  BY <1>3, MinIsElement
<1>5. PICK d \in wrong : \A e \in wrong : Search!Level[d] <= Search!Level[e]
  BY <1>4
<1> DEFINE p == Search!Parent(d)
<1>6. d \in Search!Dirs /\ d # Root /\ p \in Search!Dirs /\ d \in Search!Inside(p) /\ p \in part
  BY <1>1, <1>5, ParentIsOne
<1>7. Search!Level[d] = Search!Level[p] + 1 /\ Search!Level[p] \in Nat
  BY <1>6, Levels
<1>8. right(p)
  BY <1>5, <1>6, <1>7
<1>9. PICK n \in DOMAIN Entries[p] : Entries[p][n] = d
  BY <1>6, EntryPlaces
<1>10. /\ Search!Begun(p) /\ Search!Ended(p) /\ v6[p] \in Nat /\ v5[p] \in Int
       /\ n \in Nat /\ n >= 1 /\ n <= Len(Entries[p]) /\ Len(Entries[p]) \in Nat
  BY <1>6, <1>9, SearchFacts, EntryPlaces
<1> HIDE DEF p
<1>11. CASE Search!Level[d] <= v1
  <2>1. v4[p] = "ok" /\ v5[p] > 0
    BY <1>1, <1>7, <1>8, <1>10, <1>11 DEF right, Search!Begun
  <2>2. v6[p] > Len(Entries[p]) /\ v7[p] = <<>> /\ Len(v7[p]) + Search!Cardinality(Search!WaitedFor(p)) = Search!Cardinality(Search!VisitedDirs(p))
    BY <1>10, <2>1 DEF Search!Ended
  <2>3. n \in Search!VisitedDirs(p)
    BY <1>6, <1>9, <1>10, <2>2 DEF Search!VisitedDirs, Search!Visited
  <2>4. Search!WaitedFor(p) = Search!VisitedDirs(p)
    <3>1. /\ Search!IsFiniteSet(Search!VisitedDirs(p)) /\ Search!Cardinality(Search!VisitedDirs(p)) \in Nat
          /\ Search!WaitedFor(p) \subseteq Search!VisitedDirs(p) /\ Search!Cardinality(Search!WaitedFor(p)) \in Nat
      BY <1>6, VisitedIsFinite
    <3>2. Search!Cardinality(Search!WaitedFor(p)) = Search!Cardinality(Search!VisitedDirs(p))
      BY <2>2, <3>1
    <3> QED
      BY <3>1, <3>2, FS_Subset, SearchCounts
  <2>5. v4[d] = "ok"
    BY <1>5, <1>9, <1>10, <2>1, <2>3, <2>4 DEF Search!Ended
  <2> QED
    BY <1>5, <1>11, <2>5 DEF right
<1>12. CASE ~(Search!Level[d] <= v1)
  <2>1. v4[p] = "none" \/ v5[p] <= 0
    BY <1>1, <1>7, <1>8, <1>10, <1>12 DEF right, Search!Begun
  <2>2. ~(v6[p] > 1)
    BY <1>10, <2>1 DEF Search!Begun
  <2>3. v4[d] = "none"
    BY <1>6, <1>9, <1>10, <2>2 DEF Search!Begun
  <2> QED
    BY <1>5, <1>12, <2>3 DEF right
<1> QED
  BY <1>11, <1>12

(* Below the depth asked for nobody begins, whoever is killed. *)
LEMMA NobodyTooDeep ==
  ASSUME Search!IInv, NEW d \in Search!Dirs
  PROVE  v6[d] > 1 => Search!Level[d] < v1
<1>1. Search!Begun(d) /\ v5[d] \in Int /\ v1 \in Nat /\ Search!Level[d] \in Nat
  BY SearchFacts, Levels DEF Search!TypeOK
<1> QED
  BY <1>1 DEF Search!Begun

LEMMA FilesAreListed == ASSUME Search!IInv PROVE Search!EveryFileIsListed
<1> SUFFICES ASSUME v4[Root] = "ok"
             PROVE  /\ \A d \in Search!Unharmed : \A f \in Search!Inside(d) \cap Search!Reached : v10[f] >= 1
                    /\ \A f \in Search!Files \ Search!Reached : v10[f] = 0
                    /\ v2 => \A f \in Search!Files : v10[f] <= 1
                    /\ \A d \in Search!Unharmed : v4[d] \notin {"search", "wait"}
  BY DEF Search!EveryFileIsListed
<1>1. \A d \in Search!Unharmed : d \in Search!Dirs /\ v4[d] = IF Search!Level[d] <= v1 THEN "ok" ELSE "none"
  BY AllEndedWell DEF Search!Unharmed
<1>2. ASSUME NEW d \in Search!Dirs, NEW n \in DOMAIN Entries[d], Entries[d][n] \in Search!Files
      PROVE  /\ Entries[d][n] \in Search!Reached <=> Search!Level[d] < v1
             /\ Search!Level[d] \in Nat /\ v1 \in Nat /\ v5[d] \in Int
             /\ Search!Begun(d) /\ Search!Ended(d) /\ Search!Written(d)
             /\ v6[d] \in Nat /\ n \in Nat /\ n >= 1 /\ n <= Len(Entries[d]) /\ Len(Entries[d]) \in Nat
  <2>1. Entries[d][n] \in Search!Inside(d) /\ \A e \in Search!Dirs : Entries[d][n] \in Search!Inside(e) => e = d
    BY EntryPlaces
  <2>2. Entries[d][n] \in Search!Reached <=> Search!Level[d] < v1
    BY <1>2, <2>1 DEF Search!Reached
  <2>3. Search!Begun(d) /\ Search!Ended(d) /\ Search!Written(d) /\ v5[d] \in Int /\ v6[d] \in Nat /\ v1 \in Nat
    BY SearchFacts DEF Search!TypeOK
  <2>4. n \in Nat /\ n >= 1 /\ n <= Len(Entries[d]) /\ Len(Entries[d]) \in Nat
    BY EntryPlaces
  <2> QED
    BY <2>2, <2>3, <2>4, Levels
<1>3. ASSUME NEW d \in Search!Unharmed, NEW f \in Search!Inside(d) \cap Search!Reached PROVE v10[f] >= 1
  <2>1. PICK n \in DOMAIN Entries[d] : Entries[d][n] = f
    BY <1>1, EntryPlaces
  <2>2. d \in Search!Dirs /\ f \in Search!Files /\ Search!Level[d] < v1
    BY <1>1, <1>2, <2>1 DEF Search!Reached
  <2>3. v4[d] = "ok" /\ v5[d] > 0
    BY <1>1, <1>2, <2>1, <2>2 DEF Search!Begun
  <2>4. n < v6[d]
    BY <1>2, <2>1, <2>2, <2>3 DEF Search!Ended
  <2> QED
    BY <1>2, <2>1, <2>2, <2>3, <2>4 DEF Search!Written
<1>4. ASSUME NEW f \in Search!Files \ Search!Reached PROVE v10[f] = 0
  <2>1. PICK d \in Search!Dirs : f \in Search!Inside(d)
    BY DEF Search!Files
  <2>2. PICK n \in DOMAIN Entries[d] : Entries[d][n] = f
    BY <2>1, EntryPlaces
  <2>3. ~(Search!Level[d] < v1)
    BY <1>2, <2>2
  <2>4. ~(n < v6[d])
    BY <1>2, <2>2, <2>3, NobodyTooDeep
  <2> QED
    BY <1>2, <2>2, <2>4 DEF Search!Written
<1> QED
  BY <1>1, <1>3, <1>4 DEF Search!IInv, Search!OnTerminal

-------------------------------------------------------------------------------
(* All programs: the one that runs keeps its invariant, the others have none. *)

Inv == /\ IF program = "image" THEN IInv ELSE main = "failed"
       /\ program = "chat" => Posix!IInv
       /\ program = "integral" => Area!IInv
       /\ program = "pipeline" => Interpreter!IInv
       /\ program = "confirmed" => Confirmed!IInv
       /\ program = "burst" => Burst!IInv
       /\ program = "fifo" => ManyToMany!IInv
       /\ program = "search" => Search!IInv

LEMMA NothingRuns ==
  ASSUME Inv, UNCHANGED programVars
  PROVE  Inv'
<1>1. UNCHANGED <<program, v1, v2, v3, v4, v5, v6, v7, v8, v9, v10, v11>>
  BY DEF programVars
<1>2. Area!IInv => Area!IInv'
  BY <1>1, ZenonT(60) DEF Area!IInv, Area!TypeOK, Area!Forking, Area!Files, Area!Waiting, Area!Adding, Area!Ending,
              Area!Parts, Area!Missing, Area!Ended
<1>3. Interpreter!IInv => Interpreter!IInv'
  <2>1. Interpreter!IInv => Interpreter!TypeOK' /\ Interpreter!Unforked' /\ Interpreter!This <= MaxRuns
    BY <1>1 DEF Interpreter!IInv, Interpreter!TypeOK, Interpreter!Unforked, Interpreter!This, Interpreter!Parts
  <2>2. \A i, j : Interpreter!Started(i, j)' = Interpreter!Started(i, j)
    BY <1>1 DEF Interpreter!Started
  <2> QED
    BY <1>1, <2>1, <2>2, SameLines DEF Interpreter!IInv
<1>4. Confirmed!IInv => Confirmed!IInv'
  BY <1>1 DEF Confirmed!IInv, Confirmed!TypeOK, Confirmed!Phase, Confirmed!InStep, Confirmed!OneAhead,
              Confirmed!Counting, Confirmed!Stopping, Confirmed!Protected, Confirmed!Sending, Confirmed!One
<1>5. Burst!IInv => Burst!IInv'
  BY <1>1 DEF Burst!IInv, Burst!TypeOK, Burst!OneStop, Burst!Nowhere, Burst!Uninterrupted, Burst!Counted,
              Burst!Uncounted, Burst!Returned, Burst!Top, Burst!CatcherRuns
<1>6. ManyToMany!IInv => ManyToMany!IInv'
  <2>1. (ManyToMany!IInv => ManyToMany!TypeOK') /\ SameHands
    <3>1. ManyToMany!Chunks' = ManyToMany!Chunks /\ ManyToMany!Rows' = ManyToMany!Rows
      BY <1>1, SameChunks
    <3> QED
      BY <1>1, <3>1 DEF ManyToMany!IInv, ManyToMany!TypeOK, SameHands
  <2> QED
    BY <1>1, <2>1, NothingMoves
<1>7. Posix!IInv => Posix!IInv'
  <2>1. UNCHANGED Posix!vars
    BY <1>1 DEF Posix!vars
  <2> QED
    BY <2>1, ChatStays
<1>8. Search!IInv => Search!IInv'
  <2>1. UNCHANGED Search!vars
    BY <1>1 DEF Search!vars
  <2> QED
    BY <2>1, SearchStays
<1>9. (IInv => IInv') /\ main' = main
  <2>1. UNCHANGED vars
    BY DEF programVars
  <2> QED
    BY <2>1, NextIInv DEF vars
<1> QED
  BY <1>1, <1>2, <1>3, <1>4, <1>5, <1>6, <1>7, <1>8, <1>9 DEF Inv

LEMMA Invariance == ProgramsSpec => []Inv
<1>1. ProgramsInit => Inv
  BY InitIInv, ChatBegins, AreaBegins, PipelineBegins, ConfirmedBegins, BurstBegins, FifoBegins,
     SearchBegins
     DEF ProgramsInit, NoImage, Inv
<1>2. Inv /\ ProgramsNext => Inv'
  <2> SUFFICES ASSUME Inv, ProgramsNext PROVE Inv'
    OBVIOUS
  <2>1. program' = program /\ (program # "image" => main' = main)
    BY DEF ProgramsNext, vars
  <2>2. CASE program = "integral"
    <3>1. Area!Next
      BY <2>2 DEF ProgramsNext
    <3> QED
      BY <2>1, <2>2, <3>1, AreaKeeps DEF Inv
  <2>3. CASE program = "pipeline"
    <3>1. Interpreter!Next
      BY <2>3 DEF ProgramsNext
    <3> QED
      BY <2>1, <2>3, <3>1, PipelineKeeps DEF Inv
  <2>4. CASE program = "confirmed"
    <3>1. Confirmed!Next
      BY <2>4 DEF ProgramsNext
    <3> QED
      BY <2>1, <2>4, <3>1, ConfirmedKeeps DEF Inv
  <2>5. CASE program = "burst"
    <3>1. Burst!Next
      BY <2>5 DEF ProgramsNext
    <3> QED
      BY <2>1, <2>5, <3>1, BurstKeeps DEF Inv
  <2>6. CASE program = "fifo"
    <3>1. ManyToMany!Next
      BY <2>6 DEF ProgramsNext
    <3> QED
      BY <2>1, <2>6, <3>1, FifoKeeps DEF Inv
  <2>7. CASE program = "chat"
    <3>1. Posix!Next
      BY <2>7 DEF ProgramsNext
    <3> QED
      BY <2>1, <2>7, <3>1, ChatKeeps DEF Inv
  <2>8. CASE program = "image"
    <3>1. Next
      BY <2>8 DEF ProgramsNext
    <3> QED
      BY <2>1, <2>8, <3>1, NextIInv DEF Inv
  <2>9. CASE program = "search"
    <3>1. Search!Next
      BY <2>9 DEF ProgramsNext
    <3> QED
      BY <2>1, <2>9, <3>1, SearchKeeps DEF Inv
  <2> QED
    BY <2>1, <2>2, <2>3, <2>4, <2>5, <2>6, <2>7, <2>8, <2>9 DEF Inv
<1>3. Inv /\ UNCHANGED programVars => Inv'
  BY NothingRuns
<1> QED
  BY <1>1, <1>2, <1>3, PTL DEF ProgramsSpec

(* Lab 8: types of the variables of ImageNegative. *)
THEOREM ImageTypes == ProgramsSpec => [](program = "image" => TypeOK)
<1>1. Inv => (program = "image" => TypeOK)
  BY DEF Inv, IInv
<1> QED
  BY <1>1, Invariance, PTL

(* Lab 8 (run_in_threads, numbers_method, block_method): the image that main saves is the  *)
(* negative of every pixel that belongs to a thread, for every image, number of threads    *)
(* and order of their steps.                                                                *)
THEOREM SavedImageIsNegative == ProgramsSpec => []SavedIsNegative
<1>1. Inv => SavedIsNegative
  BY ImageIsNegative DEF Inv, SavedIsNegative
<1> QED
  BY <1>1, Invariance, PTL

(* Lab 6, zad2 (stop_client, init_client): no client that has its ID loses its place in    *)
(* the server's table, for any number of clients and places and queues of any length, as   *)
(* long as the server runs and nobody was interrupted before it had an ID.                  *)
THEOREM ClientsKeepTheirPlaces == ProgramsSpec => []ChatKeepsItsPlace
<1>1. Inv => ChatKeepsItsPlace
  BY PlaceIsKept DEF Inv, ChatKeepsItsPlace
<1> QED
  BY <1>1, Invariance, PTL

(* Lab 6, zad2 (send_LIST, handle_queue_msg): a child that waits for the list, while the   *)
(* server runs and nobody was interrupted without an ID, has asked for it, and the answer   *)
(* is on its way, in its queue, or what took it away is about to end the child.             *)
THEOREM ListAlwaysComes == ProgramsSpec => []ListIsComing
<1>1. Inv => ListIsComing
  BY ListComes DEF Inv, ListIsComing
<1> QED
  BY <1>1, Invariance, PTL

(* Lab 5, zad1 (exec_commands, exec_command): as long as programs of a line run, one of    *)
(* them can read, write, or end.  The interpreter and the children close the ends of pipes *)
(* they do not use in time, whatever programs the lines are made of.                        *)
THEOREM PipelinesGoOn == ProgramsSpec => []ProgramsGoOn
<1>1. Inv => ProgramsGoOn
  BY SomebodyGoesOn DEF Inv, ProgramsGoOn
<1> QED
  BY <1>1, Invariance, PTL

(* Lab 5, zad1 (main, exec_commands): every line of the file is run, in their order, before any *)
(* is run again, though every child that fails to be replaced by a program moves the offset     *)
(* that it shares with the interpreter; none is run again if all programs exist, and if one is  *)
(* missing the lines after its own are run at most once more.                                   *)
THEOREM LinesAlwaysInOrder == ProgramsSpec => []LinesRunInOrder
<1>1. Inv => LinesRunInOrder
  BY LinesAreInOrder DEF Inv, LinesRunInOrder
<1> QED
  BY <1>1, Invariance, PTL

(* Lab 3, zad2 (main, calc_area, get_total_area): for any number of processes, an integral *)
(* that is printed is the sum of all parts, with every file removed and every process gone *)
(* by then; and where there is none, a part is missing that nobody will write any more.    *)
THEOREM IntegralAlwaysWhole == ProgramsSpec => []ResultIsWhole
<1>1. Inv => ResultIsWhole
  BY AreaIsWhole DEF Inv, ResultIsWhole
<1> QED
  BY <1>1, Invariance, PTL

(* Lab 4, zad3b (send_signals, the handlers, the loops of sigsuspend): sender and catcher   *)
(* never both wait for a signal of the other; when nothing can happen, both have ended, and *)
(* as many signals were sent and received as were asked for, or one more or less where an   *)
(* answer has interrupted the sender before it had counted what it sent.                    *)
THEOREM ExchangeEndsInAgreement == ProgramsSpec => []EndsInAgreement
<1>1. Inv => EndsInAgreement
  BY ConfirmedAgree DEF Inv, EndsInAgreement
<1> QED
  BY <1>1, Invariance, PTL

(* Lab 4, zad3a (target_signal_handler, stop_signal_handler): no real-time signal that was  *)
(* sent is forgotten, at whatever place its handler interrupts another, and as many are     *)
(* sent back as were counted, those included that come when STOP is handled.                *)
THEOREM AnswerIsComplete == ProgramsSpec => []SendsBackWhatItCounted
<1>1. Inv => SendsBackWhatItCounted
  BY BurstSendsBack DEF Inv, SendsBackWhatItCounted
<1> QED
  BY <1>1, Invariance, PTL

(* Lab 5, zad3 (producer.c, consumer.c): every chunk that a producer wrote is once in the       *)
(* FIFO, with a consumer or in the results, unless one of the named disturbances happened       *)
(* (disturbed in Fifo).  It is in the row of its producer, with nothing else in that row and in *)
(* order if there is one consumer, as long as no file of this or a lower row has a newline.     *)
THEOREM NoChunkIsLost == ProgramsSpec => []NothingIsLost
<1>1. Inv => NothingIsLost
  BY FifoLosesNothing DEF Inv, NothingIsLost
<1> QED
  BY <1>1, Invariance, PTL

(* Lab 3, zad3 (search_files_recur, check_children_status): for every tree of directories      *)
(* and every depth, a search that succeeds has put out a line of each file down to that depth  *)
(* and of none below it, once on a terminal and at least once elsewhere, where a child begins  *)
(* with a copy of its parent's buffer, and no process searches any more: but for what is in or *)
(* below a directory whose process was killed, which the parent takes for a success.           *)
THEOREM FilesAlwaysListed == ProgramsSpec => []EveryFileIsListed
<1>1. Inv => EveryFileIsListed
  BY FilesAreListed DEF Inv, EveryFileIsListed
<1> QED
  BY <1>1, Invariance, PTL
================================================================================
