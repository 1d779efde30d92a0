------------------------------ MODULE KeyStore ------------------------------
(***************************************************************************)
(* The service's own key pair: how seal_he_handler::initialize generates   *)
(* or reloads it, how it is kept in the table OWN_KEYS, and what the       *)
(* operations of the running service do with it (src/seal_handler.cpp,     *)
(* src/db_access.cpp, src/main.cpp).                                       *)
(*                                                                         *)
(* A key is the number of the call of generate_keys that made it; 0 is a   *)
(* row that does not exist, or a key not set.  A ciphertext is the key it  *)
(* was made with and whether it still decrypts to what was encrypted.  The *)
(* process may be killed at any point and started again, and any access to *)
(* the database may fail: insert_own_key returns false and get_own_key an  *)
(* empty string, and initialize looks at neither cause.                    *)
(***************************************************************************)
EXTENDS Naturals, FiniteSets

CONSTANTS
    MaxFaults,      \* bound on the database accesses that fail
    MaxCrashes      \* bound on the crashes during initialize

ASSUME BoundsAssumption == MaxFaults \in Nat /\ MaxCrashes \in Nat

VARIABLES
    pc,             \* where the process is: "down", a point of initialize, "serving"
    stored,         \* OWN_KEYS: keytype -> key, 0 if there is no row
    mem,            \* m_PublicKey and m_SecretKey
    serialized,     \* m_serPubKey, m_serRelinKeys, m_serGalKeys; 0 is the null pointer
    generated,      \* how often generate_keys has run
    faults,         \* database accesses that have failed
    crashes,        \* crashes during initialize
    ciphertexts,    \* what clients have been given, or have made
    published,      \* public keys that clients have been given
    answer          \* the answer to the last request

processVars == <<pc, mem, serialized>>
clientVars  == <<ciphertexts, published, answer>>
vars == <<processVars, stored, generated, faults, crashes, clientVars>>

KeyTypes == {"PK", "SK"}
Initializing == {"read", "load", "insertPK", "insertSK"}

Cipher(k, v) == [key |-> k, value |-> v]

Init ==
    /\ pc = "down"
    /\ stored = [k \in KeyTypes |-> 0]
    /\ mem = [k \in KeyTypes |-> 0]
    /\ serialized = 0
    /\ generated = 0 /\ faults = 0 /\ crashes = 0
    /\ ciphertexts = {} /\ published = {} /\ answer = "none"

-----------------------------------------------------------------------------
(* seal_he_handler::initialize *)

\* A new process: the key members are empty and the serialized keys null.
Start ==
    /\ pc = "down"
    /\ pc' = "read"
    /\ mem' = [k \in KeyTypes |-> 0]
    /\ serialized' = 0
    /\ UNCHANGED <<stored, generated, faults, crashes, clientVars>>

\* The reads that fail among those of existing rows.
Failing(f) ==
    /\ f \subseteq {k \in KeyTypes : stored[k] # 0}
    /\ faults + Cardinality(f) <= MaxFaults

\* get_own_key returns an empty string: there is no row, or the read failed.
EmptyKey(k, f) == stored[k] = 0 \/ k \in f

\* Mutant: the serialized keys come from a generator of their own.
generate_keys_Twice ==
    /\ generated' = generated + 1
    /\ mem' = [k \in KeyTypes |-> generated']
    /\ serialized' = generated' + 1

\* generate_keys: both members, and their serialized forms.
generate_keys ==
    /\ generated' = generated + 1
    /\ mem' = [k \in KeyTypes |-> generated']
    /\ serialized' = generated'

\* Mutant: new keys at every start.
ReadOwnKeys_Always ==
    /\ pc = "read"
    /\ generate_keys /\ pc' = "insertPK"
    /\ UNCHANGED <<faults, stored, crashes, clientVars>>

\* get_own_key("PK") and get_own_key("SK"), and the decision on their results.
ReadOwnKeys ==
    /\ pc = "read"
    /\ \E f \in SUBSET KeyTypes :
         /\ Failing(f)
         /\ faults' = faults + Cardinality(f)
         /\ IF \E k \in KeyTypes : EmptyKey(k, f)
              THEN generate_keys /\ pc' = "insertPK"
              ELSE pc' = "load" /\ UNCHANGED <<generated, mem, serialized>>
    /\ UNCHANGED <<stored, crashes, clientVars>>

\* INSERT OR REPLACE; the caller drops the result.
insert_own_key(k) ==
    \/ stored' = [stored EXCEPT ![k] = mem[k]] /\ UNCHANGED faults
    \/ faults < MaxFaults /\ faults' = faults + 1 /\ UNCHANGED stored

InsertPK ==
    /\ pc = "insertPK"
    /\ insert_own_key("PK")
    /\ pc' = "insertSK"
    /\ UNCHANGED <<mem, serialized, generated, crashes, clientVars>>

\* Mutant: the secret key is not saved.
InsertSK_Dropped ==
    /\ pc = "insertSK"
    /\ pc' = "serving"
    /\ UNCHANGED <<stored, mem, serialized, generated, faults, crashes, clientVars>>

\* The routes are registered right after initialize.
InsertSK ==
    /\ pc = "insertSK"
    /\ insert_own_key("SK")
    /\ pc' = "serving"
    /\ UNCHANGED <<mem, serialized, generated, crashes, clientVars>>

\* Mutant: setPublicKey is not called.
LoadKeys_NoPublicKey ==
    /\ pc = "load"
    /\ mem' = [mem EXCEPT !["SK"] = stored["SK"]]
    /\ pc' = "serving"
    /\ UNCHANGED <<faults, stored, serialized, generated, crashes, clientVars>>

\* The rows are read again and put into the members; the serialized keys stay
\* null.  Loading the empty string of a failed read throws out of main.
LoadKeys ==
    /\ pc = "load"
    /\ \E f \in SUBSET KeyTypes :
         /\ Failing(f)
         /\ faults' = faults + Cardinality(f)
         /\ IF \E k \in KeyTypes : EmptyKey(k, f)
              THEN pc' = "down" /\ UNCHANGED mem
              ELSE pc' = "serving" /\ mem' = stored
    /\ UNCHANGED <<stored, serialized, generated, crashes, clientVars>>

\* The process is killed.
Crash ==
    /\ pc # "down"
    /\ pc' = "down"
    /\ IF pc \in Initializing
         THEN crashes < MaxCrashes /\ crashes' = crashes + 1
         ELSE UNCHANGED crashes
    /\ UNCHANGED <<mem, serialized, stored, generated, faults, clientVars>>

-----------------------------------------------------------------------------
(* The running service *)

\* encrypt_as_QString without a key, for POST /encrypt and for properties read.
Encrypt ==
    /\ pc = "serving"
    /\ ciphertexts' = ciphertexts \cup {Cipher(mem["PK"], "plain")}
    /\ answer' = "cipher"
    /\ UNCHANGED <<processVars, stored, generated, faults, crashes, published>>

\* What the secret key in use makes of a ciphertext: with any other key the
\* decryption succeeds and yields noise.
Decrypted(c) == IF c.key = mem["SK"] THEN c.value ELSE "noise"

\* decrypt, for POST /decrypt and for properties written.
Decrypt(c) ==
    /\ pc = "serving"
    /\ c \in ciphertexts
    /\ answer' = Decrypted(c)
    /\ UNCHANGED <<processVars, stored, generated, faults, crashes,
                   ciphertexts, published>>

\* recrypt and recrypt_for_svm: decrypt, then encrypt with the own public key.
Recrypt(c) ==
    /\ pc = "serving"
    /\ c \in ciphertexts
    /\ ciphertexts' = ciphertexts \cup {Cipher(mem["PK"], Decrypted(c))}
    /\ answer' = "cipher"
    /\ UNCHANGED <<processVars, stored, generated, faults, crashes, published>>

\* sum without a key: the summands are added to an encryption of zero.
Sum(s) ==
    /\ pc = "serving"
    /\ s \subseteq ciphertexts
    /\ LET good == \A c \in s : c = Cipher(mem["PK"], "plain")
       IN  ciphertexts' = ciphertexts \cup
               {Cipher(mem["PK"], IF good THEN "plain" ELSE "noise")}
    /\ answer' = "cipher"
    /\ UNCHANGED <<processVars, stored, generated, faults, crashes, published>>

\* The properties publickey, relinkeys and galoiskeys dereference the
\* serialized keys; a null pointer ends the process.
GetPublicKey ==
    /\ pc = "serving"
    /\ IF serialized = 0
         THEN /\ pc' = "down" /\ answer' = "crash"
              /\ UNCHANGED published
         ELSE /\ published' = published \cup {serialized}
              /\ answer' = "key"
              /\ UNCHANGED pc
    /\ UNCHANGED <<mem, serialized, stored, generated, faults, crashes, ciphertexts>>

\* A client encrypts with a key it was given (encrypt_as_QString with a key, in
\* whatever service the client uses).
EncryptFor(k) ==
    /\ k \in published
    /\ ciphertexts' = ciphertexts \cup {Cipher(k, "plain")}
    /\ UNCHANGED <<processVars, stored, generated, faults, crashes, published, answer>>

Initialize == Start \/ ReadOwnKeys \/ InsertPK \/ InsertSK \/ LoadKeys

Serve ==
    \/ Encrypt
    \/ \E c \in ciphertexts : Decrypt(c) \/ Recrypt(c)
    \/ \E s \in SUBSET ciphertexts : Sum(s)
    \/ GetPublicKey

Client == \E k \in published : EncryptFor(k)

Next == Initialize \/ Crash \/ Serve \/ Client

Spec == Init /\ [][Next]_vars

-----------------------------------------------------------------------------
(* Properties *)

TypeOK ==
    /\ pc \in Initializing \cup {"down", "serving"}
    /\ generated \in Nat
    /\ stored \in [KeyTypes -> 0..generated]
    /\ mem \in [KeyTypes -> 0..generated]
    /\ serialized \in 0..generated
    /\ faults \in 0..MaxFaults
    /\ crashes \in 0..MaxCrashes
    /\ ciphertexts \subseteq [key : 1..generated, value : {"plain", "noise"}]
    /\ published \subseteq 1..generated
    /\ answer \in {"none", "cipher", "plain", "noise", "key", "crash"}

\* As long as the database works, whatever was encrypted by the service, or for
\* it with a key it published, can be decrypted by it after any number of
\* crashes and restarts: the keys in use are those stored, and never change.
NoKeyLoss ==
    faults = 0 =>
        /\ \A c \in ciphertexts :
              /\ c = Cipher(stored["PK"], "plain")
              /\ stored["PK"] = stored["SK"]
        /\ published \subseteq {stored["SK"]}
        /\ answer # "noise"

\* One failure alone, a crash between the two inserts or a database access that
\* fails, never makes the service run with a public key that its secret key
\* does not belong to; and crashes alone never do.
PairSplitNeedsTwoFailures ==
    pc = "serving" /\ mem["PK"] # mem["SK"] =>
        faults >= 1 /\ faults + crashes >= 2

\* Every key pair but the first was generated because of a failure: in
\* ordinary operation the service keeps the keys of its first start.
GenerationsAccounted == generated <= 1 + faults + crashes

\* The comment at seal_handler.cpp:45: saved keys are used, and new ones only
\* "if there are none".
SavedKeysAreUsed ==
    [][pc = "read" /\ (\A k \in KeyTypes : stored[k] # 0)
           => generated' = generated]_vars

\* README.md:45: the property publickey "Returns the service's public key".
PublicKeyIsReturned == answer # "crash"
=============================================================================
