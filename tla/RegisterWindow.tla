--------------------------- MODULE RegisterWindow ---------------------------
(***************************************************************************)
(* imx233.c: registers of the imx233 read and written through a window of  *)
(* /dev/mem, which is moved when a register outside it is asked for.       *)
(***************************************************************************)
EXTENDS Naturals, FiniteSets

CONSTANTS Ranges,      \* the 64 kByte ranges registers lie in
          FAILURES     \* bound on calls of open and mmap that fail

Null == "null"
Failed == "failed"     \* what mmap returns then, -1

ASSUME RegisterWindowAssumption ==
    FAILURES \in Nat /\ Ranges \cap {Null, Failed, "crash"} = {}

VARIABLES imx233_mem,      \* Null, Failed or the address, here the range it was for
          fd,              \* a file is open
          prev_mem_range,
          mapped, opened,  \* kernel: the ranges mapped, the files open
          result,          \* the last call: the range it was for and what it got
          failures

windowVars == <<imx233_mem, fd, prev_mem_range, mapped, opened, result, failures>>

WindowInit ==
    /\ imx233_mem = Null /\ fd = FALSE /\ prev_mem_range = Null
    /\ mapped = {} /\ opened = 0
    /\ result = [asked |-> Null, got |-> Null] /\ failures = 0

Alive == result.got # "crash"

(* Memory is touched: a page that is not mapped ends the program. *)
Touch(range, address) ==
    result' = [asked |-> range,
               got |-> IF address \in mapped' THEN address ELSE "crash"]

(* munmap and close of what there was. *)
Unmapped == mapped \ {imx233_mem}
Closed == IF fd THEN opened - 1 ELSE opened

(* A failed read returns -1.  A write, which reads first to return the old *)
(* value, ignores that and stores through the pointer all the same.        *)
AfterFailure(range, call) ==
    IF call = "imx233_rd" THEN result' = [asked |-> range, got |-> Failed]
    ELSE Touch(range, imx233_mem')

SameRange(range) ==
    /\ range = prev_mem_range
    /\ UNCHANGED <<imx233_mem, fd, prev_mem_range, mapped, opened, failures>>
    /\ Touch(range, imx233_mem)

(* A slip: the range is never stored, and a window that is mapped already  *)
(* is kept for any range, with one more file opened.                       *)
MovesStale(range) ==
    /\ prev_mem_range = Null /\ prev_mem_range' = Null
    /\ mapped' = IF imx233_mem = Null THEN {range} ELSE mapped
    /\ opened' = Closed + 1 /\ fd' = TRUE
    /\ imx233_mem' = IF imx233_mem = Null THEN range ELSE imx233_mem
    /\ Touch(range, imx233_mem')
    /\ UNCHANGED failures

Moves(range) ==
    /\ range # prev_mem_range /\ prev_mem_range' = range
    /\ mapped' = Unmapped \cup {range}
    /\ opened' = Closed + 1 /\ fd' = TRUE
    /\ imx233_mem' = range
    /\ Touch(range, range)
    /\ UNCHANGED failures

(* The pointer to what was unmapped stays.  open returns 0 only to a       *)
(* program without standard input, which is left out.                      *)
OpenFails(range, call) ==
    /\ range # prev_mem_range /\ prev_mem_range' = range
    /\ failures < FAILURES /\ failures' = failures + 1
    /\ mapped' = Unmapped /\ opened' = Closed /\ fd' = FALSE
    /\ UNCHANGED imx233_mem
    /\ AfterFailure(range, call)

MmapFails(range, call) ==
    /\ range # prev_mem_range /\ prev_mem_range' = range
    /\ failures < FAILURES /\ failures' = failures + 1
    /\ mapped' = Unmapped /\ opened' = Closed /\ fd' = FALSE
    /\ imx233_mem' = Failed
    /\ AfterFailure(range, call)

Access(range, call) ==
    SameRange(range) \/ Moves(range) \/ OpenFails(range, call) \/ MmapFails(range, call)

WindowNext ==
    /\ Alive
    /\ \E range \in Ranges, call \in {"imx233_rd", "imx233_wr"} : Access(range, call)

WindowSpec == WindowInit /\ [][WindowNext]_windowVars

-----------------------------------------------------------------------------
(* However often the window moves and whatever fails on the way, one range *)
(* at most is mapped and one file open; a call gets at the range it was    *)
(* asked for or at none; and the address kept between two calls is the one *)
(* that is mapped, so that nothing crashes unless a call has failed.       *)
WindowFollows ==
    /\ Cardinality(mapped) <= 1 /\ opened <= 1 /\ (opened = 1 <=> fd)
    /\ result.got \in Ranges => result.got = result.asked
    /\ result.got = "crash" => failures > 0
=============================================================================
