------------------------------ MODULE MCItchTool ------------------------------
(***************************************************************************)
(* Small inputs for ItchTool: every file of at most MaxMessages messages   *)
(* with payloads of at most MaxLen bytes, and every incomplete end.        *)
(***************************************************************************)
EXTENDS ItchTool, Functions

CONSTANT MaxMessages

EndsOf(lens) ==
    [n \in 0..Len(lens) |->
       FoldFunctionOnSet(LAMBDA l, sum : l + 2 + sum, 0, lens, 1..n)]

TwoNames == <<"AAPL", "MSFT", "AAPL">>

AllFiles ==
    UNION {
      {LET ends == EndsOf(lens)
       IN  [count |-> n, ends |-> ends, size |-> ends[n] + rest, cut |-> c] :
          lens \in [1..n -> 0..MaxLen],
          <<rest, c>> \in {r \in (0..MaxLen + 1) \X (0..MaxLen) :
                             r[1] < 2 + r[2] /\ (r[1] < 2 => r[2] = 0)}} :
      n \in 0..MaxMessages}
=============================================================================
