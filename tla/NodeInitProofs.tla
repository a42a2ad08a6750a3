--------------------------- MODULE NodeInitProofs ---------------------------
(***************************************************************************)
(* The invariants of NodeInit hold for every allocation, with or without a *)
(* provided key, and for any number of interrupted runs.                   *)
(***************************************************************************)
EXTENDS NodeInit, TLAPS

\* Why the key files match: a file is only rewritten while the other one is
\* missing, or with the key it already has.
KeyFiles ==
    /\ pubKey # NoKey => pubKey = privKey
    /\ ProvidedKey => keys \in {0, 1}
    /\ pc \in {"priv", "pub"} /\ ~ ProvidedKey => pubKey = NoKey
    /\ pc = "pub" => privKey = keys /\ keys # NoKey
    /\ KeysMatch

\* The accounts of the allocation up to the one the running command is at.
Allocation ==
    /\ pc = "create" => \A i \in 1 .. at - 1 : Alloc[i] \in accounts
    /\ pc = "finalize" => genesis # "none"
    /\ AllocatedBeforeGenesis

USE AllocAssumption, ProvidedKeyAssumption, MaxFaultsAssumption

LEMMA TypeInductive == TypeOK /\ KeyFiles /\ [Next]_vars => TypeOK'
<1> SUFFICES ASSUME TypeOK, KeyFiles, [Next]_vars PROVE TypeOK'
  OBVIOUS
<1> Len(Alloc) \in Nat
  OBVIOUS
<1> USE DEF TypeOK, Working, NoKey
<1>1. CASE Start
  BY <1>1 DEF Start
<1>2. CASE WritePrivKey
  <2>1. keys' \in Nat /\ keys' >= keys /\ privKey' = keys' /\ keys' # 0
    BY <1>2 DEF WritePrivKey, KeyFiles
  <2>2. pubKey' \in 0 .. keys' /\ privKey' \in 0 .. keys'
    BY <1>2, <2>1 DEF WritePrivKey
  <2> QED BY <1>2, <2>1, <2>2 DEF WritePrivKey
<1>3. CASE WritePubKey
  BY <1>3 DEF WritePubKey
<1>4. CASE OpenStore
  BY <1>4 DEF OpenStore
<1>5. CASE CreateAccount
  <2>1. at' \in 1 .. Len(Alloc) + 1
    BY <1>5 DEF CreateAccount
  <2>2. accounts' \subseteq Addresses
    BY <1>5 DEF CreateAccount
  <2> QED BY <1>5, <2>1, <2>2 DEF CreateAccount
<1>6. CASE AddGenesis
  BY <1>6 DEF AddGenesis
<1>7. CASE FinalizeGenesis
  BY <1>7 DEF FinalizeGenesis
<1>8. CASE Fault
  BY <1>8 DEF Fault
<1>9. CASE UNCHANGED vars
  BY <1>9 DEF vars
<1> QED BY <1>1, <1>2, <1>3, <1>4, <1>5, <1>6, <1>7, <1>8, <1>9 DEF Next, Step

LEMMA KeyFilesInductive == TypeOK /\ KeyFiles /\ [Next]_vars => KeyFiles'
<1> SUFFICES ASSUME TypeOK, KeyFiles, [Next]_vars PROVE KeyFiles'
  OBVIOUS
<1> USE DEF KeyFiles, KeysMatch, NoKey
<1>1. CASE Start
  BY <1>1 DEF Start, WriteKeys
<1>2. CASE WritePrivKey
  BY <1>2 DEF WritePrivKey, TypeOK
<1>3. CASE WritePubKey
  BY <1>3 DEF WritePubKey
<1>4. CASE OpenStore
  BY <1>4 DEF OpenStore
<1>5. CASE CreateAccount
  BY <1>5 DEF CreateAccount
<1>6. CASE AddGenesis
  BY <1>6 DEF AddGenesis
<1>7. CASE FinalizeGenesis
  BY <1>7 DEF FinalizeGenesis
<1>8. CASE Fault
  BY <1>8 DEF Fault
<1>9. CASE UNCHANGED vars
  BY <1>9 DEF vars
<1> QED BY <1>1, <1>2, <1>3, <1>4, <1>5, <1>6, <1>7, <1>8, <1>9 DEF Next, Step

LEMMA AllocationInductive == TypeOK /\ Allocation /\ [Next]_vars => Allocation'
<1> SUFFICES ASSUME TypeOK, Allocation, [Next]_vars PROVE Allocation'
  OBVIOUS
<1> Len(Alloc) \in Nat /\ at \in Nat
  BY DEF TypeOK
<1> USE DEF Allocation, AllocatedBeforeGenesis
<1>1. CASE Start
  BY <1>1 DEF Start
<1>2. CASE WritePrivKey
  BY <1>2 DEF WritePrivKey
<1>3. CASE WritePubKey
  BY <1>3 DEF WritePubKey
<1>4. CASE OpenStore
  BY <1>4 DEF OpenStore
<1>5. CASE CreateAccount
  <2>1. CASE Alloc[at] \in accounts
    BY <1>5, <2>1 DEF CreateAccount
  <2>2. CASE Alloc[at] \notin accounts
    <3>1. accounts' = accounts \cup {Alloc[at]} /\ at' = at + 1
          /\ UNCHANGED <<pc, genesis>> /\ pc = "create"
      BY <1>5, <2>2 DEF CreateAccount
    <3>2. \A i \in 1 .. at' - 1 : Alloc[i] \in accounts'
      BY <3>1
    <3> QED BY <3>1, <3>2
  <2> QED BY <2>1, <2>2
<1>6. CASE AddGenesis
  BY <1>6 DEF AddGenesis, TypeOK
<1>7. CASE FinalizeGenesis
  BY <1>7 DEF FinalizeGenesis
<1>8. CASE Fault
  BY <1>8 DEF Fault
<1>9. CASE UNCHANGED vars
  BY <1>9 DEF vars
<1> QED BY <1>1, <1>2, <1>3, <1>4, <1>5, <1>6, <1>7, <1>8, <1>9 DEF Next, Step

LEMMA InitHolds == Init => TypeOK /\ KeyFiles /\ Allocation
<1> Len(Alloc) \in Nat
  OBVIOUS
<1> QED BY DEF Init, TypeOK, KeyFiles, KeysMatch, NoKey, Allocation, AllocatedBeforeGenesis

\* The variables of the init command keep their types.
THEOREM TypeCorrect == Spec => []TypeOK
BY InitHolds, TypeInductive, KeyFilesInductive, PTL DEF Spec

\* Both key files are in place and of one key pair whenever a run reaches the
\* store, wherever earlier runs of initializeNode stopped.
THEOREM KeysAlwaysMatch == Spec => []KeysMatch
<1>1. KeyFiles => KeysMatch
  BY DEF KeyFiles
<1> QED BY <1>1, InitHolds, TypeInductive, KeyFilesInductive, PTL DEF Spec

\* A stored genesis block comes with every account of the allocation, for any
\* allocation and however many runs it took.
THEOREM AllocatedWithGenesis == Spec => []AllocatedBeforeGenesis
<1>1. Allocation => AllocatedBeforeGenesis
  BY DEF Allocation
<1> QED BY <1>1, InitHolds, TypeInductive, KeyFilesInductive, AllocationInductive, PTL DEF Spec
=============================================================================
