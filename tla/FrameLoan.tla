-------------------------------- MODULE FrameLoan --------------------------------
(***************************************************************************)
(* What a direct capture promises to vb2 and to the DMA allocator: a pair  *)
(* of queued buffers is lent to the hardware together with the command     *)
(* queue memory, comes back once, as DONE only if the hardware wrote the   *)
(* whole frame during this loan, and the command queue memory is freed     *)
(* only when nothing is lent.                                              *)
(***************************************************************************)
VARIABLES
    loan,     \* "driver" or "hardware"
    whole,    \* the hardware wrote the whole frame of the current loan
    buffers,  \* vb2 state of the pair
    cq        \* the command queue memory is allocated

loanVars == <<loan, whole, buffers, cq>>

LoanInit == loan = "driver" /\ whole = FALSE /\ buffers = "active" /\ cq = TRUE

Lend ==
    /\ loan = "driver" /\ buffers = "active" /\ cq
    /\ loan' = "hardware"
    /\ UNCHANGED <<whole, buffers, cq>>

WriteFrame ==
    /\ loan = "hardware"
    /\ whole' = TRUE
    /\ UNCHANGED <<loan, buffers, cq>>

Reclaim ==
    /\ loan = "hardware"
    /\ loan' = "driver" /\ whole' = FALSE
    /\ buffers' \in IF whole THEN {"done", "error"} ELSE {"error"}
    /\ UNCHANGED cq

(***************************************************************************)
(* A pair that was never lent goes back as ERROR; a returned pair is       *)
(* queued again.                                                           *)
(***************************************************************************)
GiveBack ==
    /\ loan = "driver" /\ buffers = "active"
    /\ buffers' = "error"
    /\ UNCHANGED <<loan, whole, cq>>

Queue ==
    /\ loan = "driver" /\ buffers # "active"
    /\ buffers' = "active"
    /\ UNCHANGED <<loan, whole, cq>>

FreeCq == loan = "driver" /\ cq /\ cq' = FALSE /\ UNCHANGED <<loan, whole, buffers>>

AllocateCq == loan = "driver" /\ ~cq /\ cq' = TRUE /\ UNCHANGED <<loan, whole, buffers>>

LoanNext == Lend \/ WriteFrame \/ Reclaim \/ GiveBack \/ Queue \/ FreeCq \/ AllocateCq

LoanSpec == LoanInit /\ [][LoanNext]_loanVars

=============================================================================
