--------------------------- MODULE MCCapabilities ---------------------------
(* Instances of Capabilities for TLC. *)
EXTENDS Capabilities, TLC

CONSTANTS h1, h2

Request(op, opts, f) == [op |-> op, opts |-> opts, force |-> f]

\* Every operation; creates with each set of the options that matter.
AnyRequest ==
    {Request("create", opts, FALSE) :
       opts \in SUBSET {"create_ha", "create_ring_buffer", "create_block_size",
                        "create_io_timeout"}}
      \cup {Request("delete", {"delete_force"}, TRUE),
            Request("delete", {"json"}, FALSE),
            Request("modify", {"modify_auth"}, FALSE),
            Request("modify_size", {}, FALSE),
            Request("replace", {}, FALSE),
            Request("reload", {}, FALSE), Request("reload", {}, TRUE)}

HostSymmetry == Permutations({h1, h2})
=============================================================================
