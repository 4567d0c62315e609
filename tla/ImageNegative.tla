----------------------------- MODULE ImageNegative -----------------------------
(***************************************************************************)
(* Laboratory 8: the negative of a grey image, computed by threads that     *)
(* share the work by colours ("numbers") or by columns ("block").  The      *)
(* result image and new_M, the largest colour in it, are shared and not     *)
(* locked: a thread compares new_M in one step and assigns it in another.   *)
(*                                                                          *)
(* The pixels that a thread only looks at are not steps.  Reading the       *)
(* arguments and the files and the times are left out.                      *)
(***************************************************************************)
EXTENDS Integers, FiniteSets

CONSTANTS W, H,        \* size of the image
          M,           \* its largest colour, as the file says
          MAX_POSSIBLE_COLOR,
          MaxThreads,  \* bound: threads asked for
          Images       \* the images that can be loaded

Cells == (0 .. H - 1) \X (0 .. W - 1)

ASSUME Size == W \in Nat /\ H \in Nat /\ M \in Nat
ASSUME Colours == /\ MAX_POSSIBLE_COLOR \in Nat /\ MaxThreads \in Nat
                  /\ Images \subseteq [Cells -> 0 .. MAX_POSSIBLE_COLOR]

VARIABLES
  no_threads, method, source_image,  \* the input
  result_image, new_M,
  created,   \* the threads main has created are 0 .. created - 1
  joined,    \* and those it has waited for 0 .. joined - 1
  left,      \* thread -> pixels it has still to write
  compared,  \* thread -> colour it has found to be greater than new_M, None otherwise
  main       \* "create", "join", "saved" or "failed"

input == <<no_threads, method, source_image>>
vars == <<input, result_image, new_M, created, joined, left, compared, main>>

None == -1
Threads == 0 .. no_threads - 1
AtMost(a, b) == IF a > b THEN b ELSE a     \* min

(* The colours of a thread in numbers_method. *)
min_color(t) == ((M + 1) \div no_threads) * t
max_color(t) == AtMost(((M + 1) \div no_threads) * (t + 1), M + 1)

(* The columns of a thread in block_method. *)
stripRoundedDown == W \div no_threads
strip == (W + no_threads - 1) \div no_threads       \* ceil(W / no_threads)
min_col_idx(t) == strip * t
max_col_idx(t) == AtMost(strip * (t + 1), W)

numbers_method(t) ==
  {p \in Cells : min_color(t) <= source_image[p] /\ source_image[p] < max_color(t)}
block_method(t) == {p \in Cells : min_col_idx(t) <= p[2] /\ p[2] < max_col_idx(t)}
Mine(t) == IF method = "numbers" THEN numbers_method(t) ELSE block_method(t)

Negative(p) == MAX_POSSIBLE_COLOR - source_image[p]

Init ==
  /\ no_threads \in 1 .. MaxThreads /\ method \in {"numbers", "block"}
  /\ source_image \in Images
  /\ result_image = [p \in Cells |-> 0] /\ new_M = 0
  /\ created = 0 /\ joined = 0 /\ main = "create"
  /\ left = [t \in Threads |-> Mine(t)] /\ compared = [t \in Threads |-> None]

-------------------------------------------------------------------------------
(* The main thread: run_in_threads, then save_negative_image. *)

Create ==
  /\ main = "create" /\ created < no_threads
  /\ created' = created + 1
  /\ UNCHANGED <<input, result_image, new_M, joined, left, compared, main>>

Created ==
  /\ main = "create" /\ created = no_threads /\ main' = "join"
  /\ UNCHANGED <<input, result_image, new_M, created, joined, left, compared>>

Done(t) == t < created /\ left[t] = {} /\ compared[t] = None

Join ==
  /\ main = "join" /\ joined < no_threads /\ Done(joined)
  /\ joined' = joined + 1
  /\ UNCHANGED <<input, result_image, new_M, created, left, compared, main>>

Save ==
  /\ main = "join" /\ joined = no_threads /\ main' = "saved"
  /\ UNCHANGED <<input, result_image, new_M, created, joined, left, compared>>

(* A thread that cannot be created, or memory that cannot be had, ends the program *)
(* without waiting for the threads.                                                *)
Fail ==
  /\ main \in {"create", "join"} /\ main' = "failed"
  /\ UNCHANGED <<input, result_image, new_M, created, joined, left, compared>>

-------------------------------------------------------------------------------
(* A thread goes through its pixels row by row. *)

Earlier(p, q) == p[1] < q[1] \/ (p[1] = q[1] /\ p[2] < q[2])
First(S) == CHOOSE p \in S : \A q \in S \ {p} : Earlier(p, q)

Running(t) == t < created /\ main \in {"create", "join"}

Write(t) ==
  /\ Running(t) /\ compared[t] = None /\ left[t] # {}
  /\ LET p == First(left[t]) IN
       /\ result_image' = [result_image EXCEPT ![p] = Negative(p)]
       /\ left' = [left EXCEPT ![t] = @ \ {p}]
       /\ compared' = [compared EXCEPT ![t] = IF Negative(p) > new_M THEN Negative(p) ELSE None]
  /\ UNCHANGED <<input, new_M, created, joined, main>>

Assign(t) ==
  /\ Running(t) /\ compared[t] # None
  /\ new_M' = compared[t] /\ compared' = [compared EXCEPT ![t] = None]
  /\ UNCHANGED <<input, result_image, created, joined, left, main>>

Next == \/ Create \/ Created \/ Join \/ Save \/ Fail
        \/ \E t \in Threads : Write(t) \/ Assign(t)

Spec == Init /\ [][Next]_vars

-------------------------------------------------------------------------------
(* Types: no colour leaves its range, main creates the threads it was asked for and no   *)
(* more, and waits only for threads it has created (run_in_threads).                       *)
TypeOK ==
  /\ no_threads \in 1 .. MaxThreads /\ method \in {"numbers", "block"}
  /\ source_image \in Images
  /\ result_image \in [Cells -> 0 .. MAX_POSSIBLE_COLOR] /\ new_M \in 0 .. MAX_POSSIBLE_COLOR
  /\ created \in 0 .. no_threads /\ joined \in 0 .. created
  /\ left \in [Threads -> SUBSET Cells]
  /\ compared \in [Threads -> 0 .. MAX_POSSIBLE_COLOR \cup {None}]
  /\ main \in {"create", "join", "saved", "failed"}

(* Whether the colours or the columns of the threads cover a pixel.  The colours from the  *)
(* last multiple of no_threads below M + 1 on belong to no thread (numbers_method): what is  *)
(* saved for them is not a negative, whatever README.md:3 asks for, and nothing is said of    *)
(* them here.                                                                                 *)
Covered(p) == method = "block" \/ source_image[p] < ((M + 1) \div no_threads) * no_threads

(* When main saves the image, every covered pixel is the negative of its source, whatever  *)
(* the number of threads and whichever of them were late: no column is lost by rounding,   *)
(* no thread is not waited for, and all is covered by columns, and by colours if their       *)
(* number is a multiple of no_threads.                                                       *)
SavedIsNegative ==
  main = "saved" => \A p \in Cells : Covered(p) => result_image[p] = Negative(p)
===============================================================================
