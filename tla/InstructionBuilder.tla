--------------------------- MODULE InstructionBuilder ---------------------------
(***************************************************************************)
(* A builder of the generated clients: New...InstructionBuilder makes it,  *)
(* setters fill it in any order, any number of times, and Build or         *)
(* ValidateAndBuild copies it into an Instruction that is serialised when  *)
(* the transaction is.  The copy is one of the struct: its parameters and  *)
(* its list of signers are the instruction's own, the array of accounts    *)
(* stays the builder's.  DecodeInstruction reads the message back.  A      *)
(* record of the chain is the same without accounts: its fields are        *)
(* assigned, marshalled and unmarshalled.                                  *)
(*                                                                         *)
(* The clients differ only in their tables (TokenInstructions,             *)
(* PumpInstructions), which are parameters here.                           *)
(***************************************************************************)
EXTENDS Integers, Sequences, WireRows

CONSTANTS
  Kinds,        \* the instructions and records
  Layout,       \* the row of each
  TypeID,       \* what Build writes first
  Variant,      \* per client, what the decoder makes of it
  Versions,     \* the different values a caller has for one setter
  Lists,        \* the lists of signers a caller has
  MAX_SIGNERS,
  MaxCalls,     \* a bound on the setters called on a builder
  None

(* Different setters are given different values: Zero is Go's zero value   *)
(* and RentSysvar the key the constructor presets.                         *)
Arg(i, v) == <<i, v>>
Zero == <<0, 0>>
RentSysvar == Zero
Keys == (Nat \X Versions) \cup {Zero}
Metas == [key : Keys, writable : BOOLEAN, signer : BOOLEAN]

ASSUME LayoutAssumption ==
  /\ \A k \in Kinds :
       /\ Layout[k].fields \in Seq([type : STRING, form : Forms])
       /\ Layout[k].accounts \in Seq(Cells)
       /\ Layout[k].signers \in {"none", "owner", "list"}
       /\ \A i, j \in DOMAIN Layout[k].accounts :
            Layout[k].accounts[i] = "owner" =>
              /\ Layout[k].signers = "owner"
              /\ Layout[k].accounts[j] = "owner" => i = j
       /\ Variant[Layout[k].client][TypeID[k]] = k
  /\ Lists \subseteq Seq(STRING)
  /\ MAX_SIGNERS \in Nat
  /\ MaxCalls \in Nat
  /\ None \notin Keys
  /\ None \notin Metas

VARIABLES
  kind,     \* which builder it is
  params,   \* its parameters, None while a pointer is nil
  cells,    \* the array of accounts the builder and its instruction share
  signers,  \* its list of further signers
  named,    \* history: what the caller named last, by setter
  calls,    \* history: how many setters it called
  built     \* None, or the instruction

vars == <<kind, params, cells, signers, named, calls, built>>

Row == Layout[kind]
Fields == DOMAIN Row.fields
Slots == DOMAIN Row.accounts
OwnerSlots == {i \in Slots : Row.accounts[i] = "owner"}

Meta(key, writable, signer) == [key |-> key, writable |-> writable, signer |-> signer]

(* What a setter stores in a cell; alone says the owner signs itself.      *)
CellMeta(cell, key, alone) ==
  Meta(key, cell \in {"w", "ws"}, cell = "ws" \/ (cell = "owner" /\ alone))

SignerMetas(keys) == [i \in DOMAIN keys |-> Meta(keys[i], FALSE, TRUE)]
-----------------------------------------------------------------------------
(* An instruction as it stands: its own parts and the shared cells.        *)
Inst == [params |-> built.params, accounts |-> cells, signers |-> built.signers]
Builder == [params |-> params, accounts |-> cells, signers |-> signers]

Valid(inst) ==
  /\ \A i \in Fields : Row.fields[i].form = "pointer" => inst.params[i] # None
  /\ \A i \in Slots : inst.accounts[i] # None
  /\ \A i \in OwnerSlots : inst.accounts[i].signer \/ inst.signers # <<>>
  /\ Row.signers = "list" => inst.signers # <<>>
  /\ Row.signers # "none" => Len(inst.signers) <= MAX_SIGNERS

(* The accounts of the message.                                            *)
GetAccounts(inst) ==
  IF Row.signers # "none" THEN inst.accounts \o SignerMetas(inst.signers)
  ELSE IF \A i \in Slots : inst.accounts[i] # None THEN inst.accounts
  ELSE SelectSeq(inst.accounts, LAMBDA meta : meta # None)

(* The data of the message: the type, then each field.                     *)
EncodeField(field, value) ==
  [type |-> field.type,
   present |-> value # None,
   body |-> IF value = None /\ field.form = "tag" THEN Zero ELSE value]
Data(inst) ==
  [client |-> Row.client, id |-> TypeID[kind],
   fields |-> [i \in Fields |-> EncodeField(Row.fields[i], inst.params[i])]]

DecodeField(field, block) ==
  IF field.form \in {"flag", "tag"} /\ ~block.present THEN None ELSE block.body

(* mutant: the first signer is taken for an account                        *)
SplitAfter(accounts, n) ==
  [accounts |-> SubSeq(accounts, 1, n + 1),
   signers |-> SubSeq(accounts, n + 2, Len(accounts))]

SplitFrom(accounts, n) ==
  [accounts |-> SubSeq(accounts, 1, n), signers |-> SubSeq(accounts, n + 1, Len(accounts))]
DecodeInstruction(accounts, data) ==
  LET k == Variant[data.client][data.id]
      split == IF Layout[k].signers = "none"
               THEN [accounts |-> accounts, signers |-> <<>>]
               ELSE SplitFrom(accounts, Len(Layout[k].accounts))
  IN [kind |-> k,
      params |-> [i \in DOMAIN Layout[k].fields |->
                    DecodeField(Layout[k].fields[i], data.fields[i])],
      accounts |-> split.accounts,
      signers |-> split.signers]
-----------------------------------------------------------------------------
NewBuilder(k) ==
  /\ kind = k
  /\ params = [i \in Fields |-> IF Row.fields[i].form = "value" THEN Zero ELSE None]
  /\ cells = [i \in Slots |-> IF Row.accounts[i] = "rent"
                              THEN Meta(RentSysvar, FALSE, FALSE) ELSE None]
  /\ signers = <<>>
  /\ named = [params |-> params,
              accounts |-> [i \in Slots |-> <<RentSysvar, FALSE>>],
              signers |-> <<>>,
              owners |-> 0]
  /\ calls = 0
  /\ built = None

Init == \E k \in Kinds : NewBuilder(k)

Call == /\ calls < MaxCalls
        /\ calls' = calls + 1
        /\ UNCHANGED <<kind, built>>

SetParam(i, v) ==
  /\ Call
  /\ params' = [params EXCEPT ![i] = Arg(i, v)]
  /\ named' = [named EXCEPT !.params[i] = Arg(i, v)]
  /\ UNCHANGED <<cells, signers>>

SetAccount(i, v) ==
  /\ Call
  /\ i \notin OwnerSlots
  /\ cells' = [cells EXCEPT ![i] = CellMeta(Row.accounts[i], Arg(i, v), FALSE)]
  /\ named' = [named EXCEPT !.accounts[i] = <<Arg(i, v), FALSE>>]
  /\ UNCHANGED <<params, signers>>

(* SetOwnerAccount, SetAuthorityAccount: the signers of a multisig are     *)
(* appended to those named before.                                         *)
SetOwner(i, v, list) ==
  /\ Call
  /\ i \in OwnerSlots
  /\ cells' = [cells EXCEPT ![i] = CellMeta("owner", Arg(i, v), list = <<>>)]
  /\ signers' = signers \o list
  /\ named' = [named EXCEPT !.accounts[i] = <<Arg(i, v), list = <<>>>>,
                            !.signers = list, !.owners = @ + 1]
  /\ UNCHANGED params

AddSigners(list) ==
  /\ Call
  /\ Row.signers = "list"
  /\ signers' = signers \o list
  /\ named' = [named EXCEPT !.signers = @ \o list]
  /\ UNCHANGED <<params, cells>>

(* New...Instruction calls every setter of a new builder once.             *)
NewInstruction(v, list) ==
  /\ Call
  /\ calls = 0
  /\ Row.signers = "none" => list = <<>>
  /\ params' = [i \in Fields |-> Arg(i, v)]
  /\ cells' = [i \in Slots |-> CellMeta(Row.accounts[i], Arg(i, v), list = <<>>)]
  /\ signers' = list
  /\ named' = [params |-> params',
               accounts |-> [i \in Slots |->
                               <<Arg(i, v), i \in OwnerSlots /\ list = <<>>>>],
               signers |-> list,
               owners |-> IF OwnerSlots = {} THEN 0 ELSE 1]

Instruction(validated) ==
  [params |-> params, signers |-> signers, validated |-> validated,
   named |-> named]

Build == /\ built = None
         /\ built' = Instruction(FALSE)
         /\ UNCHANGED <<kind, params, cells, signers, named, calls>>

(* mutant: the validation is forgotten                                     *)
BuildAsValid == /\ built = None
                /\ built' = Instruction(TRUE)
                /\ UNCHANGED <<kind, params, cells, signers, named, calls>>

ValidateAndBuild == /\ built = None
                    /\ Valid(Builder)
                    /\ built' = Instruction(TRUE)
                    /\ UNCHANGED <<kind, params, cells, signers, named, calls>>

Next ==
  \/ \E v \in Versions :
       \/ \E i \in Fields : SetParam(i, v)
       \/ \E i \in Slots : SetAccount(i, v)
       \/ \E i \in Slots, list \in Lists : SetOwner(i, v, list)
       \/ \E list \in Lists : NewInstruction(v, list)
  \/ \E list \in Lists : AddSigners(list)
  \/ Build
  \/ ValidateAndBuild

Spec == Init /\ [][Next]_vars
-----------------------------------------------------------------------------
Names == [params : [Fields -> Keys \cup {None}],
          accounts : [Slots -> Keys \X BOOLEAN],
          signers : Seq(STRING),
          owners : Nat]
Made == [params : [Fields -> Keys \cup {None}], signers : Seq(STRING),
         validated : BOOLEAN, named : Names]

TypeOK ==
  /\ kind \in Kinds
  /\ params \in [Fields -> Keys \cup {None}]
  /\ cells \in [Slots -> Metas \cup {None}]
  /\ signers \in Seq(STRING)
  /\ named \in Names
  /\ calls \in 0..MaxCalls
  /\ built # None => built \in Made

(* Whoever reads the message of an instruction that stands validation gets *)
(* what the caller named: the same instruction, each parameter as it was   *)
(* named last before Build, each account as it was named last at all with  *)
(* the flags of its slot, and the signers named with the owner, if the     *)
(* owner was named once.  In the code this takes every setter's index, the *)
(* order of MarshalWithEncoder and UnmarshalWithDecoder, the optional      *)
(* fields' flags, the number SplitFrom is given and the two tables of      *)
(* types to agree.                                                         *)
DecodedIsNamed ==
  built # None /\ Valid(Inst) =>
    LET sent == DecodeInstruction(GetAccounts(Inst), Data(Inst))
    IN /\ sent.kind = kind
       /\ sent.params = built.named.params
       /\ sent.accounts = [i \in Slots |-> CellMeta(Row.accounts[i], named.accounts[i][1],
                                                    named.accounts[i][2])]
       /\ built.named.owners < 2 => sent.signers = SignerMetas(built.named.signers)

(* What ValidateAndBuild found in order stays so until it is serialised,   *)
(* although the builder goes on changing the accounts under it: only       *)
(* naming an owner with signers later takes the owner's signature away     *)
(* without adding theirs.                                                  *)
LateMultisig ==
  /\ named.owners > built.named.owners
  /\ \E i \in OwnerSlots : ~named.accounts[i][2]
StaysValid == built # None /\ built.validated /\ ~LateMultisig => Valid(Inst)
=============================================================================
