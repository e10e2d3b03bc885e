----------------------------- MODULE PortMemory -----------------------------
(***************************************************************************)
(* What a multi-port memory promises its consumers: an operation asked for *)
(* at a port takes effect once, at one instant between the asking and the  *)
(* finishing, and a read finishes with the word it found at that instant.  *)
(* Each of the memory paths of core/rtl is shown to implement this.        *)
(*                                                                         *)
(* The ports are clocked together, so one step may hold several consumers' *)
(* moves; the memory itself takes one operation per step.                  *)
(***************************************************************************)
CONSTANTS Ports, Addr, Lanes, Byte, Blank

Word == [Lanes -> Byte]
Op   == [a : Addr, d : Word, we : SUBSET Lanes]     \* we = {} is a read

VARIABLES mem,    \* the contents
          at,      \* where the operation of each port is
          op,      \* the operation asked for
          answer   \* the word a read found, Blank when there is none
vars == <<mem, at, op, answer>>

Merge(w, o) == [l \in Lanes |-> IF l \in o.we THEN o.d[l] ELSE w[l]]

Init == /\ mem \in [Addr -> Word]
        /\ at = [p \in Ports |-> "idle"]
        /\ op \in [Ports -> Op]
        /\ answer = [p \in Ports |-> Blank]

(* The operation of p takes effect.                                        *)
Commit(p) ==
  /\ at[p] = "asked"
  /\ mem' = IF op[p].we = {} THEN mem
            ELSE [mem EXCEPT ![op[p].a] = Merge(@, op[p])]
  /\ at'[p] = "done" /\ op'[p] = op[p]
  /\ answer'[p] = IF op[p].we = {} THEN mem[op[p].a] ELSE Blank

Ask(p) == at[p] = "idle" /\ at'[p] = "asked" /\ op'[p] \in Op /\ answer'[p] = Blank

Finish(p) == at[p] = "done" /\ at'[p] = "idle" /\ answer'[p] = Blank

Stay(p) == at'[p] = at[p] /\ answer'[p] = answer[p]
           /\ (at[p] # "idle" => op'[p] = op[p])

Next ==
  /\ \/ UNCHANGED mem /\ \A p \in Ports : Ask(p) \/ Finish(p) \/ Stay(p)
     \/ \E p \in Ports : /\ Commit(p)
                         /\ \A q \in Ports \ {p} : Ask(q) \/ Finish(q) \/ Stay(q)
  /\ DOMAIN at' = Ports /\ DOMAIN op' = Ports /\ DOMAIN answer' = Ports

Spec == Init /\ [][Next]_vars
=============================================================================
