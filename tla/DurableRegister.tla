-------------------------- MODULE DurableRegister --------------------------
(***************************************************************************)
(* What one namespace of the credential vault promises the component that  *)
(* owns it (backend/app/auth/vault.py), with the file, the temporary copy, *)
(* the lock and the other namespaces left out.                             *)
(*                                                                         *)
(* "value" is what the owning component serves from memory.  "survivors"   *)
(* is the set of contents that a restart of the process or of the machine  *)
(* may come back with.  "process" alternates with every new process.       *)
(***************************************************************************)
CONSTANT Values

VARIABLES value, survivors, process

registerVars == <<value, survivors, process>>

Init == /\ value \in Values
        /\ survivors = {value}
        /\ process \in BOOLEAN

(* The new file is in place of the old one; either may survive. *)
Expose(v) == /\ survivors' = survivors \union {v}
             /\ UNCHANGED <<value, process>>

(* The directory is on storage: one content survives. *)
Settle(v) == /\ v \in survivors
             /\ survivors' = {v}
             /\ UNCHANGED <<value, process>>

(* The owner serves a new value only once nothing else can come back. *)
Serve(v) == /\ survivors = {v}
            /\ value' = v
            /\ UNCHANGED <<survivors, process>>

(* The three in one step, for an owner that is seen only between writes. *)
Write(v) == /\ survivors' = {v}
            /\ value' = v
            /\ UNCHANGED process

(* Only a new process serves what was not settled: something that survived. *)
Recover(v) == /\ process' = ~process
              /\ v \in survivors
              /\ value' = v
              /\ survivors' \in {survivors, {v}}

(* Whatever happens to a value, it is among the survivors afterwards. *)
Next == \E v \in survivors' \cap Values :
            Expose(v) \/ Settle(v) \/ Serve(v) \/ Write(v) \/ Recover(v)

Spec == Init /\ [][Next]_registerVars
=============================================================================
