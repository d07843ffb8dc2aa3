--------------------------- MODULE InstructionProofs ---------------------------
(***************************************************************************)
(* Proofs about the builders: whatever the tables, the setters and their   *)
(* order, an instruction in order is read back as it was named, and one    *)
(* that was validated stays in order.                                      *)
(***************************************************************************)
EXTENDS InstructionBuilder, TLAPS

(* The builder holds what was named last, in every part.                   *)
HoldsNamed ==
  /\ params = named.params
  /\ \A i \in Slots : cells[i] # None =>
       cells[i] = CellMeta(Row.accounts[i], named.accounts[i][1], named.accounts[i][2])
  /\ named.owners < 2 => signers = named.signers
  /\ Row.signers = "none" => signers = <<>> /\ named.signers = <<>>
  /\ OwnerSlots # {} /\ named.owners = 0 => signers = <<>>
  /\ OwnerSlots = {} => named.owners = 0
  /\ calls = 0 => named.owners = 0

(* So does the copy, as of when it was made.                               *)
CopyHoldsNamed ==
  built # None =>
    /\ built.params = built.named.params
    /\ built.named.owners < 2 => built.signers = built.named.signers
    /\ Row.signers = "none" => built.signers = <<>> /\ built.named.signers = <<>>
    /\ built.named.owners <= named.owners

(* What validation found stays, but for the owner's signature once the     *)
(* owner is named again.                                                   *)
Kept ==
  built # None /\ built.validated =>
    /\ \A i \in Fields : Row.fields[i].form = "pointer" => built.params[i] # None
    /\ \A i \in Slots : cells[i] # None
    /\ built.signers = <<>> /\ named.owners = built.named.owners =>
         \A i \in OwnerSlots : cells[i].signer
    /\ Row.signers = "list" => built.signers # <<>>
    /\ Row.signers # "none" => Len(built.signers) <= MAX_SIGNERS

IInv == TypeOK /\ HoldsNamed /\ CopyHoldsNamed /\ Kept

-----------------------------------------------------------------------------
LEMMA RowFacts ==
  ASSUME kind \in Kinds
  PROVE  /\ Row.fields \in Seq([type : STRING, form : Forms])
         /\ Row.accounts \in Seq(Cells)
         /\ Row.signers \in {"none", "owner", "list"}
         /\ OwnerSlots # {} => Row.signers = "owner"
         /\ \A i, j \in OwnerSlots : i = j
         /\ Variant[Row.client][TypeID[kind]] = kind
         /\ Fields \subseteq Nat
         /\ Slots = 1..Len(Row.accounts)
         /\ Slots \subseteq Nat
<1>1. /\ Row.fields \in Seq([type : STRING, form : Forms])
      /\ Row.accounts \in Seq(Cells)
      /\ Row.signers \in {"none", "owner", "list"}
      /\ Variant[Row.client][TypeID[kind]] = kind
  BY LayoutAssumption DEF Row
<1>2. \A i, j \in OwnerSlots : Row.signers = "owner" /\ i = j
  BY LayoutAssumption DEF Row, OwnerSlots, Slots
<1>3. Fields \subseteq Nat /\ Slots = 1..Len(Row.accounts) /\ Len(Row.accounts) \in Nat
  BY <1>1 DEF Fields, Slots
<1>4. Slots \subseteq Nat
  BY <1>3
<1> QED
  BY <1>1, <1>2, <1>3, <1>4

(* A setter stores a key with flags, never nil.                            *)
LEMMA MetaType ==
  ASSUME NEW cell, NEW key \in Keys, NEW alone \in BOOLEAN
  PROVE  CellMeta(cell, key, alone) \in Metas /\ CellMeta(cell, key, alone) # None
<1> DEFINE w == cell \in {"w", "ws"}
           s == cell = "ws" \/ (cell = "owner" /\ alone)
<1>1. w \in BOOLEAN /\ s \in BOOLEAN
  OBVIOUS
<1>2. CellMeta(cell, key, alone) = [key |-> key, writable |-> w, signer |-> s]
  BY Zenon DEF CellMeta, Meta
<1> HIDE DEF w, s
<1>3. [key |-> key, writable |-> w, signer |-> s] \in Metas
  BY <1>1 DEF Metas
<1> QED
  BY <1>2, <1>3, LayoutAssumption

(* An owner named alone signs.                                             *)
LEMMA OwnerSigns ==
  ASSUME NEW key, NEW alone \in BOOLEAN, alone
  PROVE  CellMeta("owner", key, alone).signer = TRUE
<1>1. alone = TRUE
  OBVIOUS
<1>2. CellMeta("owner", key, TRUE).signer = TRUE
  BY DEF CellMeta, Meta
<1> QED
  BY <1>1, <1>2

LEMMA ArgType == \A i \in Nat, v \in Versions : Arg(i, v) \in Keys /\ Arg(i, v) # None
BY LayoutAssumption DEF Arg, Keys

(* What the constructor presets is a cell like the setter's.               *)
LEMMA PresetType ==
  /\ RentSysvar \in Keys
  /\ CellMeta("rent", RentSysvar, FALSE) = Meta(RentSysvar, FALSE, FALSE)
  /\ Meta(RentSysvar, FALSE, FALSE) \in Metas
  /\ <<RentSysvar, FALSE>> \in Keys \X BOOLEAN
<1>1. RentSysvar \in Keys
  BY DEF RentSysvar, Keys
<1>2. /\ ("rent" \in {"w", "ws"}) = FALSE
      /\ ("rent" = "ws" \/ ("rent" = "owner" /\ FALSE)) = FALSE
  OBVIOUS
<1>3. CellMeta("rent", RentSysvar, FALSE) = Meta(RentSysvar, FALSE, FALSE)
  BY <1>2, Zenon DEF CellMeta
<1> QED
  BY <1>1, <1>3 DEF Meta, Metas

LEMMA InitHolds == Init => IInv
<1> SUFFICES ASSUME NEW k \in Kinds, NewBuilder(k)
             PROVE  IInv
  BY DEF Init
<1>1. kind \in Kinds /\ calls = 0 /\ built = None /\ signers = <<>>
  BY DEF NewBuilder
<1>2. /\ params = [i \in Fields |-> IF Row.fields[i].form = "value" THEN Zero ELSE None]
      /\ cells = [i \in Slots |-> IF Row.accounts[i] = "rent"
                                  THEN Meta(RentSysvar, FALSE, FALSE) ELSE None]
      /\ named = [params |-> params,
                  accounts |-> [i \in Slots |-> <<RentSysvar, FALSE>>],
                  signers |-> <<>>, owners |-> 0]
  BY DEF NewBuilder
<1>3. TypeOK
  <2>1. Zero \in Keys
    BY DEF Keys
  <2>2. params \in [Fields -> Keys \cup {None}]
    BY <1>2, <2>1
  <2>3. cells \in [Slots -> Metas \cup {None}]
    BY <1>2, PresetType
  <2>4. named \in Names
    <3> DEFINE acc == [i \in Slots |-> <<RentSysvar, FALSE>>]
    <3>1. named = [params |-> params, accounts |-> acc, signers |-> <<>>, owners |-> 0]
      BY <1>2
    <3>2. acc \in [Slots -> Keys \X BOOLEAN]
      BY PresetType
    <3>3. <<>> \in Seq(STRING)
      OBVIOUS
    <3> HIDE DEF acc
    <3> QED
      BY <3>1, <3>2, <3>3, <2>2 DEF Names
  <2> QED
    BY <1>1, <2>2, <2>3, <2>4, LayoutAssumption DEF TypeOK
<1>4. HoldsNamed
  <2>1. ASSUME NEW i \in Slots, cells[i] # None
        PROVE  cells[i] = CellMeta(Row.accounts[i], named.accounts[i][1], named.accounts[i][2])
    <3>1. Row.accounts[i] = "rent" /\ cells[i] = Meta(RentSysvar, FALSE, FALSE)
      BY <1>2, <2>1
    <3>2. named.accounts[i][1] = RentSysvar /\ named.accounts[i][2] = FALSE
      BY <1>2, <3>1
    <3> QED
      BY <3>1, <3>2, PresetType
  <2> QED
    BY <1>1, <1>2, <2>1 DEF HoldsNamed
<1> QED
  BY <1>1, <1>3, <1>4 DEF IInv, CopyHoldsNamed, Kept

-----------------------------------------------------------------------------
(* No call changes which builder it is, nor a made instruction's parts.    *)
LEMMA SameRow ==
  ASSUME kind' = kind
  PROVE  /\ Row' = Row /\ Fields' = Fields /\ Slots' = Slots /\ OwnerSlots' = OwnerSlots
         /\ Names' = Names /\ Made' = Made
BY DEF Row, Fields, Slots, OwnerSlots, Names, Made

LEMMA SetParamKeeps ==
  ASSUME IInv, NEW v \in Versions, NEW i \in Fields, SetParam(i, v)
  PROVE  IInv'
<1>1. kind' = kind /\ built' = built /\ cells' = cells /\ signers' = signers
      /\ calls' = calls + 1 /\ calls < MaxCalls
  BY DEF SetParam, Call
<1>2. named' = [named EXCEPT !.params[i] = Arg(i, v)] /\ params' = [params EXCEPT ![i] = Arg(i, v)]
  BY DEF SetParam
<1>3. Arg(i, v) \in Keys
  <2>1. i \in Nat
    BY RowFacts DEF IInv, TypeOK
  <2> QED
    BY <2>1, ArgType
<1>4. named \in Names
  BY DEF IInv, TypeOK
<1>5. /\ named'.params = [named.params EXCEPT ![i] = Arg(i, v)]
      /\ named'.accounts = named.accounts /\ named'.signers = named.signers
      /\ named'.owners = named.owners
      /\ named' \in Names
  BY <1>2, <1>3, <1>4 DEF Names
<1>6. TypeOK'
  <2>1. params' \in [Fields -> Keys \cup {None}]
    BY <1>2, <1>3 DEF IInv, TypeOK
  <2> QED
    BY <1>1, <2>1, <1>5, SameRow, LayoutAssumption DEF IInv, TypeOK
<1>7. HoldsNamed'
  BY <1>1, <1>2, <1>5, SameRow, LayoutAssumption DEF IInv, HoldsNamed, TypeOK
<1>8. CopyHoldsNamed' /\ Kept'
  BY <1>1, <1>5, SameRow DEF IInv, CopyHoldsNamed, Kept
<1> QED
  BY <1>6, <1>7, <1>8 DEF IInv

LEMMA AddSignersKeeps ==
  ASSUME IInv, NEW list \in Lists, AddSigners(list)
  PROVE  IInv'
<1>1. kind' = kind /\ built' = built /\ cells' = cells /\ params' = params
      /\ calls' = calls + 1 /\ calls < MaxCalls /\ Row.signers = "list"
      /\ signers' = signers \o list
  BY DEF AddSigners, Call
<1>2. named' = [named EXCEPT !.signers = named.signers \o list]
  BY DEF AddSigners
<1>3. list \in Seq(STRING) /\ named \in Names /\ signers \in Seq(STRING)
  BY LayoutAssumption DEF IInv, TypeOK
<1>4. signers' \in Seq(STRING) /\ named.signers \o list \in Seq(STRING)
  BY <1>1, <1>3 DEF Names
<1>5. /\ named'.signers = named.signers \o list
      /\ named'.accounts = named.accounts /\ named'.params = named.params
      /\ named'.owners = named.owners
      /\ named' \in Names
  BY <1>2, <1>3, <1>4 DEF Names
<1>6. TypeOK'
  BY <1>1, <1>4, <1>5, SameRow, LayoutAssumption DEF IInv, TypeOK
<1>7. HoldsNamed'
  BY <1>1, <1>5, SameRow, RowFacts, LayoutAssumption DEF IInv, HoldsNamed, TypeOK
<1>8. CopyHoldsNamed' /\ Kept'
  BY <1>1, <1>5, SameRow DEF IInv, CopyHoldsNamed, Kept
<1> QED
  BY <1>6, <1>7, <1>8 DEF IInv

LEMMA SetAccountKeeps ==
  ASSUME IInv, NEW v \in Versions, NEW i \in Slots, SetAccount(i, v)
  PROVE  IInv'
<1> DEFINE meta == CellMeta(Row.accounts[i], Arg(i, v), FALSE)
<1>1. kind' = kind /\ built' = built /\ params' = params /\ signers' = signers
      /\ calls' = calls + 1 /\ calls < MaxCalls /\ i \notin OwnerSlots
      /\ cells' = [cells EXCEPT ![i] = meta]
  BY DEF SetAccount, Call
<1>2. named' = [named EXCEPT !.accounts[i] = <<Arg(i, v), FALSE>>]
  BY DEF SetAccount
<1>3. Arg(i, v) \in Keys /\ named \in Names
  <2>1. i \in Nat /\ named \in Names
    BY RowFacts DEF IInv, TypeOK
  <2> QED
    BY <2>1, ArgType
<1>4. meta \in Metas /\ meta # None
  BY <1>3, MetaType
<1>5. /\ named'.accounts = [named.accounts EXCEPT ![i] = <<Arg(i, v), FALSE>>]
      /\ named'.params = named.params /\ named'.signers = named.signers
      /\ named'.owners = named.owners
      /\ named' \in Names
  BY <1>2, <1>3 DEF Names
<1> HIDE DEF meta
<1>6. cells' \in [Slots -> Metas \cup {None}]
  BY <1>1, <1>4 DEF IInv, TypeOK
<1>7. TypeOK'
  BY <1>1, <1>5, <1>6, SameRow, LayoutAssumption DEF IInv, TypeOK
<1>8. \A j \in Slots : cells'[j] # None =>
        cells'[j] = CellMeta(Row.accounts[j], named'.accounts[j][1], named'.accounts[j][2])
  <2> SUFFICES ASSUME NEW j \in Slots, cells'[j] # None
               PROVE  cells'[j] = CellMeta(Row.accounts[j], named'.accounts[j][1],
                                           named'.accounts[j][2])
    OBVIOUS
  <2>1. CASE j = i
    <3>1. cells'[i] = meta /\ named'.accounts[i] = <<Arg(i, v), FALSE>>
      BY <1>1, <1>3, <1>5 DEF IInv, TypeOK, Names, Made
    <3> QED
      BY <2>1, <3>1 DEF meta
  <2>2. CASE j # i
    <3>1. cells'[j] = cells[j] /\ named'.accounts[j] = named.accounts[j]
      BY <1>1, <1>3, <1>5, <2>2 DEF IInv, TypeOK, Names, Made
    <3> QED
      BY <3>1 DEF IInv, HoldsNamed
  <2> QED
    BY <2>1, <2>2
<1>9. HoldsNamed'
  <2>1. calls' # 0
    BY <1>1, LayoutAssumption DEF IInv, TypeOK
  <2>2. /\ params' = named'.params
        /\ named'.owners < 2 => signers' = named'.signers
        /\ Row.signers = "none" => signers' = <<>> /\ named'.signers = <<>>
        /\ OwnerSlots # {} /\ named'.owners = 0 => signers' = <<>>
        /\ OwnerSlots = {} => named'.owners = 0
    BY <1>1, <1>5 DEF IInv, HoldsNamed
  <2> QED
    BY <1>1, <1>8, <2>1, <2>2, SameRow DEF HoldsNamed
<1>10. /\ \A j \in Slots : cells[j] # None => cells'[j] # None
       /\ \A j \in OwnerSlots : cells'[j] = cells[j]
  BY <1>1, <1>4 DEF IInv, TypeOK, OwnerSlots
<1>11. CopyHoldsNamed' /\ Kept'
  BY <1>1, <1>5, <1>10, SameRow DEF IInv, CopyHoldsNamed, Kept
<1> QED
  BY <1>7, <1>9, <1>11 DEF IInv

LEMMA SetOwnerKeeps ==
  ASSUME IInv, NEW v \in Versions, NEW i \in Slots, NEW list \in Lists, SetOwner(i, v, list)
  PROVE  IInv'
<1> DEFINE alone == list = <<>>
           meta == CellMeta("owner", Arg(i, v), alone)
<1>1. kind' = kind /\ built' = built /\ params' = params /\ signers' = signers \o list
      /\ calls' = calls + 1 /\ calls < MaxCalls /\ i \in OwnerSlots
      /\ cells' = [cells EXCEPT ![i] = meta]
  BY DEF SetOwner, Call
<1>2. named' = [named EXCEPT !.accounts[i] = <<Arg(i, v), alone>>, !.signers = list,
                             !.owners = named.owners + 1]
  BY DEF SetOwner
<1>3. i \in Nat /\ named \in Names /\ list \in Seq(STRING) /\ signers \in Seq(STRING)
      /\ Row.accounts[i] = "owner" /\ Row.signers = "owner"
      /\ \A j \in OwnerSlots : j = i
  BY <1>1, RowFacts, LayoutAssumption DEF IInv, TypeOK, OwnerSlots
<1>4. Arg(i, v) \in Keys /\ alone \in BOOLEAN
  BY <1>3, ArgType
<1>5. meta \in Metas /\ meta # None
  BY <1>4, MetaType
<1>6. <<Arg(i, v), alone>> \in Keys \X BOOLEAN
  BY <1>4
<1>7. meta.signer = alone
  <2>1. ("owner" = "ws" \/ ("owner" = "owner" /\ alone)) = alone
    BY <1>4
  <2> QED
    BY <2>1 DEF CellMeta, Meta
<1> HIDE DEF meta, alone
<1>8. /\ named'.accounts = [named.accounts EXCEPT ![i] = <<Arg(i, v), alone>>]
      /\ named'.params = named.params /\ named'.signers = list
      /\ named'.owners = named.owners + 1
      /\ named' \in Names
  <2>1. named.owners + 1 \in Nat
        /\ [named.accounts EXCEPT ![i] = <<Arg(i, v), alone>>]
             \in [Slots -> Keys \X BOOLEAN]
    BY <1>3, <1>6 DEF Names
  <2>2. named' = [params |-> named.params,
                  accounts |-> [named.accounts EXCEPT ![i] = <<Arg(i, v), alone>>],
                  signers |-> list, owners |-> named.owners + 1]
    BY <1>2, <1>3 DEF Names
  <2> QED
    BY <2>1, <2>2, <1>3 DEF Names
<1>9. TypeOK'
  <2>1. cells' \in [Slots -> Metas \cup {None}] /\ signers' \in Seq(STRING)
    BY <1>1, <1>3, <1>5 DEF IInv, TypeOK
  <2> QED
    BY <1>1, <1>8, <2>1, SameRow, LayoutAssumption DEF IInv, TypeOK
<1>10. \A j \in Slots : cells'[j] # None =>
         cells'[j] = CellMeta(Row.accounts[j], named'.accounts[j][1], named'.accounts[j][2])
  <2> SUFFICES ASSUME NEW j \in Slots, cells'[j] # None
               PROVE  cells'[j] = CellMeta(Row.accounts[j], named'.accounts[j][1],
                                           named'.accounts[j][2])
    OBVIOUS
  <2>1. CASE j = i
    <3>1. cells'[i] = meta /\ named'.accounts[i] = <<Arg(i, v), alone>>
      BY <1>1, <1>3, <1>8 DEF IInv, TypeOK, Names, Made
    <3>2. named'.accounts[i][1] = Arg(i, v) /\ named'.accounts[i][2] = alone
      BY <3>1
    <3> QED
      BY <2>1, <3>1, <3>2, <1>3 DEF meta
  <2>2. CASE j # i
    <3>1. cells'[j] = cells[j] /\ named'.accounts[j] = named.accounts[j]
      BY <1>1, <1>3, <1>8, <2>2 DEF IInv, TypeOK, Names, Made
    <3> QED
      BY <3>1 DEF IInv, HoldsNamed
  <2> QED
    BY <2>1, <2>2
<1>11. HoldsNamed'
  <2>1. calls' # 0 /\ named.owners \in Nat
    BY <1>1, <1>3, LayoutAssumption DEF IInv, TypeOK, Names, Made
  <2>2. named'.owners < 2 => signers' = named'.signers
    <3>1. CASE named.owners = 0
      <4>1. signers = <<>>
        BY <3>1, <1>1 DEF IInv, HoldsNamed
      <4>2. <<>> \o list = list
        BY <1>3
      <4> QED
        BY <1>1, <1>8, <4>1, <4>2
    <3> QED
      BY <3>1, <2>1, <1>8
  <2>3. params' = named'.params /\ named'.owners # 0
    BY <1>1, <1>8, <2>1 DEF IInv, HoldsNamed
  <2> QED
    BY <1>1, <1>3, <1>10, <2>1, <2>2, <2>3, SameRow DEF HoldsNamed
<1>12. \A j \in Slots : cells[j] # None => cells'[j] # None
  BY <1>1, <1>5 DEF IInv, TypeOK
<1>13. CopyHoldsNamed'
  <2>1. built # None => built.named.owners \in Nat /\ named.owners \in Nat
    BY DEF IInv, TypeOK, Names, Made
  <2> QED
    BY <1>1, <1>8, <2>1, SameRow DEF IInv, CopyHoldsNamed
<1>14. Kept'
  <2>1. built # None => named'.owners # built.named.owners
    <3>1. built # None => built.named.owners \in Nat /\ named.owners \in Nat
                          /\ built.named.owners <= named.owners
      BY DEF IInv, TypeOK, Names, Made, CopyHoldsNamed
    <3> QED
      BY <3>1, <1>8
  <2> QED
    BY <1>1, <1>12, <2>1, SameRow DEF IInv, Kept
<1> QED
  BY <1>9, <1>11, <1>13, <1>14 DEF IInv

LEMMA NewInstructionKeeps ==
  ASSUME IInv, NEW v \in Versions, NEW list \in Lists, NewInstruction(v, list)
  PROVE  IInv'
<1> DEFINE alone == list = <<>>
           meta(i) == CellMeta(Row.accounts[i], Arg(i, v), alone)
           mine(i) == i \in OwnerSlots /\ alone
           acc == [i \in Slots |-> <<Arg(i, v), mine(i)>>]
           owners == IF OwnerSlots = {} THEN 0 ELSE 1
           pars == [i \in Fields |-> Arg(i, v)]
<1>1. /\ kind' = kind /\ built' = built /\ calls = 0
      /\ calls' = calls + 1 /\ calls < MaxCalls
      /\ params' = pars
      /\ cells' = [i \in Slots |-> meta(i)]
      /\ signers' = list
      /\ Row.signers = "none" => list = <<>>
  BY DEF NewInstruction, Call
<1>2. named' = [params |-> pars, accounts |-> acc, signers |-> list, owners |-> owners]
  BY <1>1 DEF NewInstruction
<1>3. list \in Seq(STRING) /\ Fields \subseteq Nat /\ Slots \subseteq Nat /\ alone \in BOOLEAN
      /\ owners \in Nat
  BY RowFacts, LayoutAssumption DEF IInv, TypeOK
<1>4. \A i \in Nat : Arg(i, v) \in Keys /\ Arg(i, v) # None
  BY ArgType
<1>5. \A i \in Slots : meta(i) \in Metas /\ meta(i) # None /\ mine(i) \in BOOLEAN
  BY <1>3, <1>4, MetaType
<1>6. pars \in [Fields -> Keys \cup {None}]
  BY <1>3, <1>4
<1>7. acc \in [Slots -> Keys \X BOOLEAN]
  <2>1. \A i \in Slots : <<Arg(i, v), mine(i)>> \in Keys \X BOOLEAN
    BY <1>3, <1>4, <1>5
  <2> HIDE DEF mine
  <2> QED
    BY <2>1
<1>8. \A i \in Slots : meta(i) = CellMeta(Row.accounts[i], acc[i][1], acc[i][2])
  <2> SUFFICES ASSUME NEW i \in Slots
               PROVE  meta(i) = CellMeta(Row.accounts[i], acc[i][1], acc[i][2])
    OBVIOUS
  <2>1. acc[i][1] = Arg(i, v) /\ acc[i][2] = mine(i)
    BY <1>5
  <2>2. (Row.accounts[i] = "owner" /\ alone) = (Row.accounts[i] = "owner" /\ mine(i))
    BY <1>3 DEF OwnerSlots
  <2> HIDE DEF alone, mine, acc
  <2> QED
    BY <2>1, <2>2 DEF CellMeta
<1> HIDE DEF meta, mine, acc, pars
<1>9. named' \in Names /\ named'.params = pars /\ named'.accounts = acc
      /\ named'.signers = list /\ named'.owners = owners
  BY <1>2, <1>3, <1>6, <1>7 DEF Names
<1>10. TypeOK'
  <2>1. cells' \in [Slots -> Metas \cup {None}]
    BY <1>1, <1>5
  <2>2. params' \in [Fields -> Keys \cup {None}] /\ signers' \in Seq(STRING)
    BY <1>1, <1>3, <1>6
  <2>3. calls' \in 0..MaxCalls
    BY <1>1, LayoutAssumption
  <2> QED
    BY <1>1, <1>9, <2>1, <2>2, <2>3, SameRow DEF IInv, TypeOK
<1>11. HoldsNamed'
  <2>1. calls' # 0
    BY <1>1
  <2>2. \A i \in Slots : cells'[i] # None =>
          cells'[i] = CellMeta(Row.accounts[i], named'.accounts[i][1], named'.accounts[i][2])
    BY <1>1, <1>8, <1>9
  <2> QED
    BY <1>1, <1>9, <2>1, <2>2, SameRow DEF HoldsNamed
<1>12. built # None => built.named.owners = 0
  BY <1>1 DEF IInv, TypeOK, HoldsNamed, CopyHoldsNamed, Names, Made
<1>13. CopyHoldsNamed'
  BY <1>1, <1>3, <1>9, <1>12, SameRow DEF IInv, CopyHoldsNamed
<1>14. Kept'
  BY <1>1, <1>5, <1>9, <1>12, SameRow DEF IInv, Kept
<1> QED
  BY <1>10, <1>11, <1>13, <1>14 DEF IInv

LEMMA BuildKeeps ==
  ASSUME IInv, NEW validated \in BOOLEAN, validated => Valid(Builder),
         built = None, built' = Instruction(validated),
         UNCHANGED <<kind, params, cells, signers, named, calls>>
  PROVE  IInv'
<1>1. built' = [params |-> params, signers |-> signers, validated |-> validated,
                named |-> named]
  BY DEF Instruction
<1>2. TypeOK'
  BY <1>1, SameRow DEF IInv, TypeOK, Made
<1>3. HoldsNamed'
  BY SameRow DEF IInv, HoldsNamed
<1>4. CopyHoldsNamed'
  BY <1>1, SameRow DEF IInv, TypeOK, Names, Made, HoldsNamed, CopyHoldsNamed
<1>5. Kept'
  BY <1>1, SameRow DEF IInv, Kept, Valid, Builder
<1> QED
  BY <1>2, <1>3, <1>4, <1>5 DEF IInv

LEMMA NextKeeps == IInv /\ [Next]_vars => IInv'
<1> SUFFICES ASSUME IInv, [Next]_vars
             PROVE  IInv'
  OBVIOUS
<1>1. ASSUME NEW v \in Versions, NEW i \in Fields, SetParam(i, v)
      PROVE  IInv'
  BY <1>1, SetParamKeeps
<1>2. ASSUME NEW v \in Versions, NEW i \in Slots, SetAccount(i, v)
      PROVE  IInv'
  BY <1>2, SetAccountKeeps
<1>3. ASSUME NEW v \in Versions, NEW i \in Slots, NEW list \in Lists, SetOwner(i, v, list)
      PROVE  IInv'
  BY <1>3, SetOwnerKeeps
<1>4. ASSUME NEW v \in Versions, NEW list \in Lists, NewInstruction(v, list)
      PROVE  IInv'
  BY <1>4, NewInstructionKeeps
<1>5. ASSUME NEW list \in Lists, AddSigners(list)
      PROVE  IInv'
  BY <1>5, AddSignersKeeps
<1>6. CASE Build
  BY <1>6, BuildKeeps DEF Build
<1>7. CASE ValidateAndBuild
  BY <1>7, BuildKeeps DEF ValidateAndBuild
<1>8. CASE UNCHANGED vars
  <2>1. UNCHANGED <<kind, params, cells, signers, named, calls, built>>
    BY <1>8 DEF vars
  <2>2. TypeOK'
    BY <2>1, SameRow DEF IInv, TypeOK
  <2>3. HoldsNamed' /\ CopyHoldsNamed' /\ Kept'
    BY <2>1, SameRow DEF IInv, HoldsNamed, CopyHoldsNamed, Kept
  <2> QED
    BY <2>2, <2>3 DEF IInv
<1> QED
  BY <1>1, <1>2, <1>3, <1>4, <1>5, <1>6, <1>7, <1>8 DEF Next

(* In every state of every builder, each part is a key or nil.             *)
THEOREM Typed == Spec => []TypeOK
<1>1. IInv => TypeOK
  BY DEF IInv
<1> QED
  BY <1>1, InitHolds, NextKeeps, PTL DEF Spec

(* What was validated stays in order until it is sent, unless the owner is *)
(* named again with signers.                                               *)
THEOREM ValidatedStays == Spec => []StaysValid
<1>1. IInv => StaysValid
  <2> SUFFICES ASSUME IInv, built # None, built.validated, ~LateMultisig
               PROVE  Valid(Inst)
    BY DEF StaysValid
  <2>1. ASSUME NEW i \in OwnerSlots
        PROVE  cells[i].signer \/ built.signers # <<>>
    <3>1. CASE named.owners = built.named.owners
      BY <2>1, <3>1 DEF IInv, Kept
    <3>2. CASE named.owners # built.named.owners
      <4>1. named.owners > built.named.owners
        BY <3>2 DEF IInv, TypeOK, Names, Made, CopyHoldsNamed
      <4>2. named.accounts[i][2]
        BY <4>1, <2>1 DEF LateMultisig
      <4>3. cells[i] = CellMeta("owner", named.accounts[i][1], named.accounts[i][2])
        BY <2>1 DEF IInv, Kept, HoldsNamed, OwnerSlots
      <4>4. named.accounts[i][2] \in BOOLEAN
        BY <2>1 DEF IInv, TypeOK, Names, OwnerSlots
      <4> QED
        BY <4>2, <4>3, <4>4, OwnerSigns
    <3> QED
      BY <3>1, <3>2
  <2> QED
    BY <2>1 DEF IInv, Kept, Valid, Inst
<1> QED
  BY <1>1, InitHolds, NextKeeps, PTL DEF Spec

(* A field is read back as it was written.                                 *)
LEMMA FieldRoundTrip ==
  ASSUME NEW field, NEW value
  PROVE  DecodeField(field, EncodeField(field, value)) = value
BY DEF DecodeField, EncodeField

(* Accounts and signers come apart where they were joined.                 *)
LEMMA SplitJoined ==
  ASSUME NEW S, NEW a \in Seq(S), NEW b \in Seq(S)
  PROVE  SplitFrom(a \o b, Len(a)) = [accounts |-> a, signers |-> b]
<1>1. SubSeq(a \o b, 1, Len(a)) = a
  OBVIOUS
<1>2. SubSeq(a \o b, Len(a) + 1, Len(a \o b)) = b
  OBVIOUS
<1> QED
  BY <1>1, <1>2 DEF SplitFrom

(* Whoever decodes the message of an instruction in order gets what the    *)
(* caller named, for every table of instructions.                          *)
THEOREM ReadBack == Spec => []DecodedIsNamed
<1>1. IInv => DecodedIsNamed
  <2> SUFFICES ASSUME IInv, built # None, Valid(Inst)
               PROVE  LET sent == DecodeInstruction(GetAccounts(Inst), Data(Inst))
                      IN /\ sent.kind = kind
                         /\ sent.params = built.named.params
                         /\ sent.accounts = [i \in Slots |->
                              CellMeta(Row.accounts[i], named.accounts[i][1],
                                       named.accounts[i][2])]
                         /\ built.named.owners < 2 =>
                              sent.signers = SignerMetas(built.named.signers)
    BY DEF DecodedIsNamed
  <2> DEFINE sent == DecodeInstruction(GetAccounts(Inst), Data(Inst))
             pars == [i \in DOMAIN Layout[kind].fields |->
                        DecodeField(Layout[kind].fields[i], Data(Inst).fields[i])]
             split == IF Layout[kind].signers = "none"
                      THEN [accounts |-> GetAccounts(Inst), signers |-> <<>>]
                      ELSE SplitFrom(GetAccounts(Inst), Len(Layout[kind].accounts))
  <2>1. Variant[Row.client][TypeID[kind]] = kind /\ Slots = 1..Len(Row.accounts)
        /\ Len(Row.accounts) \in Nat
    BY RowFacts DEF IInv, TypeOK
  <2>2. Data(Inst).client = Row.client /\ Data(Inst).id = TypeID[kind]
        /\ Data(Inst).fields = [i \in Fields |-> EncodeField(Row.fields[i], built.params[i])]
    BY DEF Data, Inst
  <2>3. sent = [kind |-> kind, params |-> pars, accounts |-> split.accounts,
                signers |-> split.signers]
    BY <2>1, <2>2 DEF DecodeInstruction
  <2>4. pars = built.named.params
    <3>1. \A i \in Fields : DecodeField(Row.fields[i], Data(Inst).fields[i]) = built.params[i]
      BY <2>2, FieldRoundTrip
    <3>2. pars = [i \in Fields |-> built.params[i]]
      BY <3>1 DEF Fields, Row
    <3>3. built.params = [i \in Fields |-> built.params[i]]
      BY DEF IInv, TypeOK, Made
    <3> QED
      BY <3>2, <3>3 DEF IInv, CopyHoldsNamed
  <2>5. cells = [i \in Slots |-> CellMeta(Row.accounts[i], named.accounts[i][1],
                                          named.accounts[i][2])]
        /\ cells \in Seq(Metas) /\ Len(cells) = Len(Row.accounts)
    <3>1. \A i \in Slots : cells[i] \in Metas /\
             cells[i] = CellMeta(Row.accounts[i], named.accounts[i][1], named.accounts[i][2])
      BY DEF Valid, Inst, IInv, TypeOK, HoldsNamed
    <3>2. cells = [i \in Slots |-> cells[i]]
      BY DEF IInv, TypeOK
    <3>3. cells \in [1..Len(Row.accounts) -> Metas]
      BY <2>1, <3>1, <3>2
    <3>4. cells \in Seq(Metas) /\ Len(cells) = Len(Row.accounts)
      BY <2>1, <3>3
    <3>5. [i \in Slots |-> cells[i]] =
            [i \in Slots |-> CellMeta(Row.accounts[i], named.accounts[i][1],
                                      named.accounts[i][2])]
      BY <3>1
    <3> QED
      BY <3>2, <3>4, <3>5
  <2> DEFINE Any == Metas \cup [key : STRING, writable : BOOLEAN, signer : BOOLEAN]
  <2>6. SignerMetas(built.signers) \in Seq(Any)
    <3>1. built.signers \in Seq(STRING)
      BY DEF IInv, TypeOK, Made
    <3>2. DOMAIN built.signers = 1..Len(built.signers) /\ Len(built.signers) \in Nat
      BY <3>1
    <3>3. \A i \in DOMAIN built.signers : built.signers[i] \in STRING
      BY <3>1
    <3> QED
      BY <3>2, <3>3 DEF SignerMetas, Meta
  <2>7. split = [accounts |-> cells, signers |-> SignerMetas(built.signers)]
    <3>1. CASE Row.signers = "none"
      <4>1. GetAccounts(Inst) = cells
        BY <3>1 DEF GetAccounts, Valid, Inst
      <4>2. built.signers = <<>>
        BY <3>1 DEF IInv, CopyHoldsNamed
      <4>3. SignerMetas(<<>>) = <<>>
        BY DEF SignerMetas
      <4> QED
        BY <3>1, <4>1, <4>2, <4>3 DEF Row
    <3>2. CASE Row.signers # "none"
      <4>1. GetAccounts(Inst) = cells \o SignerMetas(built.signers)
        BY <3>2 DEF GetAccounts, Inst
      <4>2. SplitFrom(cells \o SignerMetas(built.signers), Len(cells))
              = [accounts |-> cells, signers |-> SignerMetas(built.signers)]
        <5>1. cells \in Seq(Any)
          BY <2>5
        <5> HIDE DEF Any
        <5> QED
          BY <5>1, <2>6, SplitJoined
      <4> QED
        BY <2>5, <3>2, <4>1, <4>2 DEF Row
    <3> QED
      BY <3>1, <3>2
  <2> HIDE DEF sent, pars, split
  <2>8. sent.kind = kind /\ sent.params = built.named.params /\ sent.accounts = cells
        /\ sent.signers = SignerMetas(built.signers)
    BY <2>3, <2>4, <2>7
  <2>9. built.named.owners < 2 => built.signers = built.named.signers
    BY DEF IInv, CopyHoldsNamed
  <2> QED
    BY <2>5, <2>8, <2>9 DEF sent
<1> QED
  BY <1>1, InitHolds, NextKeeps, PTL DEF Spec
=============================================================================
