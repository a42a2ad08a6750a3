------------------------------ MODULE NodeInit ------------------------------
(***************************************************************************)
(* The init command (cmd/init.go): it puts the key files in the data       *)
(* directory, creates the accounts of the genesis allocation one by one,   *)
(* stores the genesis block and finalizes it.  Nothing undoes a run that   *)
(* stops half way, be it a crash or an error return: the operator runs the *)
(* command again on what it left.                                          *)
(***************************************************************************)
EXTENDS Naturals, Sequences

CONSTANTS
    Addresses,     \* account addresses
    Alloc,         \* cfg.Alloc.Addresses, in the order of the genesis file
    ProvidedKey,   \* TRUE if --privkey-path is given, with the same key each time
    MaxFaults      \* bound on interrupted or failed runs

ASSUME AllocAssumption == Alloc \in Seq(Addresses)
ASSUME ProvidedKeyAssumption == ProvidedKey \in BOOLEAN
ASSUME MaxFaultsAssumption == MaxFaults \in Nat

VARIABLES
    privKey,    \* the key in privkey.txt, NoKey if there is no file
    pubKey,     \* the key whose public half is in pubkey.txt, or NoKey
    keys,       \* keys made so far
    accounts,   \* accounts in the account store
    genesis,    \* status of the block of slot 0
    pc,         \* where the running command is, "idle" between runs
    at,         \* index of the next account to create
    faults

vars == <<privKey, pubKey, keys, accounts, genesis, pc, at, faults>>

NoKey == 0
Working == {"priv", "pub", "open", "create", "finalize"}

TypeOK ==
    /\ privKey \in 0 .. keys
    /\ pubKey \in 0 .. keys
    /\ keys \in Nat
    /\ accounts \subseteq Addresses
    /\ genesis \in {"none", "pending", "finalized"}
    /\ pc \in {"idle"} \cup Working
    /\ at \in 1 .. Len(Alloc) + 1
    /\ faults \in 0 .. MaxFaults

Init ==
    /\ privKey = NoKey
    /\ pubKey = NoKey
    /\ keys = 0
    /\ accounts = {}
    /\ genesis = "none"
    /\ pc = "idle"
    /\ at = 1
    /\ faults = 0

\* Broken variant: only the private key file is looked for.
WriteKeysIfNoPrivKey == ProvidedKey \/ privKey = NoKey

\* A provided key is always copied; otherwise existing files are kept if both are there.
WriteKeys == ProvidedKey \/ privKey = NoKey \/ pubKey = NoKey

Start ==
    /\ pc = "idle"
    /\ pc' = IF WriteKeys THEN "priv" ELSE "open"
    /\ UNCHANGED <<privKey, pubKey, keys, accounts, genesis, at, faults>>

WritePrivKey ==
    /\ pc = "priv"
    /\ keys' = IF ProvidedKey THEN 1 ELSE keys + 1
    /\ privKey' = keys'
    /\ pc' = "pub"
    /\ UNCHANGED <<pubKey, accounts, genesis, at, faults>>

\* Broken variant: the public key of another pair is written.
WritePubKeyOfNext ==
    /\ pc = "pub"
    /\ pubKey' = keys + 1
    /\ pc' = "open"
    /\ UNCHANGED <<privKey, keys, accounts, genesis, at, faults>>

WritePubKey ==
    /\ pc = "pub"
    /\ pubKey' = keys
    /\ pc' = "open"
    /\ UNCHANGED <<privKey, keys, accounts, genesis, at, faults>>

\* The store is opened: an existing genesis block, finalized or not, ends the run.
OpenStore ==
    /\ pc = "open"
    /\ pc' = IF genesis = "none" THEN "create" ELSE "idle"
    /\ at' = 1
    /\ UNCHANGED <<privKey, pubKey, keys, accounts, genesis, faults>>

\* createAccountWithoutLocking, each account a write of its own.  An account
\* that exists is an error, which ends the run.
CreateAccount ==
    /\ pc = "create"
    /\ at <= Len(Alloc)
    /\ IF Alloc[at] \in accounts
       THEN /\ pc' = "idle"
            /\ at' = 1
            /\ UNCHANGED accounts
       ELSE /\ accounts' = accounts \cup {Alloc[at]}
            /\ at' = at + 1
            /\ UNCHANGED pc
    /\ UNCHANGED <<privKey, pubKey, keys, genesis, faults>>

\* Broken variant: the genesis block is stored without waiting for the accounts.
AddGenesisFirst ==
    /\ pc = "create"
    /\ genesis' = "pending"
    /\ pc' = "finalize"
    /\ at' = 1
    /\ UNCHANGED <<privKey, pubKey, keys, accounts, faults>>

AddGenesis ==
    /\ pc = "create"
    /\ at > Len(Alloc)
    /\ genesis' = "pending"
    /\ pc' = "finalize"
    /\ at' = 1
    /\ UNCHANGED <<privKey, pubKey, keys, accounts, faults>>

FinalizeGenesis ==
    /\ pc = "finalize"
    /\ genesis' = "finalized"
    /\ pc' = "idle"
    /\ UNCHANGED <<privKey, pubKey, keys, accounts, at, faults>>

\* The process dies, or the next write fails and initializeNode returns.
Fault ==
    /\ faults < MaxFaults
    /\ pc \in Working
    /\ faults' = faults + 1
    /\ pc' = "idle"
    /\ at' = 1
    /\ UNCHANGED <<privKey, pubKey, keys, accounts, genesis>>

Step ==
    \/ Start
    \/ WritePrivKey
    \/ WritePubKey
    \/ OpenStore
    \/ CreateAccount
    \/ AddGenesis
    \/ FinalizeGenesis

Next == Step \/ Fault

\* The command is run again as long as it takes, and a run that is not
\* interrupted ends.
Spec == Init /\ [][Next]_vars /\ WF_vars(Step)

-----------------------------------------------------------------------------
\* Properties

\* A run that reaches the store has both key files in place and of one key pair,
\* wherever earlier runs stopped: privkey.txt and pubkey.txt are two writes.
KeysMatch ==
    pc \in {"open", "create", "finalize"} => privKey # NoKey /\ pubKey = privKey

\* A genesis block in the store comes with the whole allocation, however many
\* runs it took: the accounts are created before the block is added.
AllocatedBeforeGenesis ==
    genesis # "none" => \A i \in 1 .. Len(Alloc) : Alloc[i] \in accounts

\* "This method is idempotent and safe to run multiple time": a run after an
\* interrupted one completes the initialization.
RerunCompletes == <>(genesis = "finalized")
=============================================================================
