-------------------------- MODULE MCTargetCatalog --------------------------
(***************************************************************************)
(* A process that registers or refreshes, two writers, and the documents   *)
(* of at most two credentials and two bindings over a few texts: "long" is *)
(* a secret that lies inside a path and inside the name of a binding.      *)
(***************************************************************************)
EXTENDS TargetCatalog, TLC

CONSTANTS l1, w1, w2

Symmetry == Permutations(Writer)

MCInside == [t \in {"a", "b", "s", "long", "x", "x-long", "/v1", "/long"} |->
               {t} \cup (IF t \in {"x-long", "/long"} THEN {"long"} ELSE {})]

Fault(S) == {{}} \cup {{f} : f \in S}

MCCredentials ==
    {[name |-> "a", type |-> type, secret |-> secret, wrong |-> wrong] :
        type \in {"token", "username_password"}, secret \in {"s", "long", "x"},
        wrong \in Fault({"type", "secret"})}

OtherCredentials ==
    {[name |-> "b", type |-> "token", secret |-> secret, wrong |-> wrong] :
        secret \in {"s", "a"}, wrong \in Fault({"name"})}

MCBindings ==
    {[name |-> name, type |-> "http", inject |-> inject, ref |-> ref, texts |-> texts,
      missing |-> "approval", wrong |-> wrong] :
        name \in {"x", "x-long"}, inject \in {"basic", "bearer"}, ref \in {"a", "b"},
        texts \in {{"/v1"}, {"/v1", "/long"}}, wrong \in Fault({"timeouts", "missing"})}
    \cup
    {[name |-> "x", type |-> "stdin", inject |-> "none", ref |-> ref, texts |-> {},
      missing |-> "approval", wrong |-> wrong] :
        ref \in {"a", "b"}, wrong \in Fault({"argv", "limits"})}

OtherBinding ==
    [name |-> "s", type |-> "process_env", inject |-> "none", ref |-> "a",
     texts |-> {}, missing |-> "approval", wrong |-> {}]

Either(S, T) == {<<x>> : x \in S} \cup (S \X T)

MCDocuments ==
    {[top |-> TRUE, credentials |-> c, bindings |-> b] :
        c \in Either(MCCredentials, OtherCredentials), b \in Either(MCBindings, {OtherBinding})}
      \cup {[top |-> FALSE, credentials |-> << >>, bindings |-> << >>]}

=============================================================================
