------------------------------- MODULE WireRows -------------------------------
(***************************************************************************)
(* The vocabulary of the instruction and record tables.  A field says how  *)
(* the struct keeps it and how its codec writes it:                        *)
(*   "value"    kept by value, always written                              *)
(*   "pointer"  a pointer that Validate requires, written as it is         *)
(*   "flag"     a pointer that may stay nil: a bool, then the value        *)
(*   "tag"      a pointer that may stay nil: a 32-bit tag, then the value  *)
(*              or as many zero bytes                                      *)
(* An account cell says which flags its setter gives the key: "r" none,    *)
(* "w" writable, "ws" writable and signer, "rent" none and filled with the *)
(* rent sysvar by the constructor, "owner" signer unless the caller names  *)
(* the signers of a multisig.                                              *)
(***************************************************************************)
EXTENDS Sequences

Forms == {"value", "pointer", "flag", "tag"}
Cells == {"r", "w", "ws", "rent", "owner"}

Value(type) == [type |-> type, form |-> "value"]
Pointer(type) == [type |-> type, form |-> "pointer"]
Flag(type) == [type |-> type, form |-> "flag"]
Tag(type) == [type |-> type, form |-> "tag"]

(* signers says where an instruction's further signers come from: none,    *)
(* named with the owner, or listed by AddSigners.                          *)
Plain(client, fields, accounts) ==
  [client |-> client, fields |-> fields, accounts |-> accounts, signers |-> "none"]
Owned(client, fields, accounts) ==
  [client |-> client, fields |-> fields, accounts |-> accounts, signers |-> "owner"]
Listed(client, fields, accounts) ==
  [client |-> client, fields |-> fields, accounts |-> accounts, signers |-> "list"]
=============================================================================
