--------------------------- MODULE KeyStoreProofs ---------------------------
(***************************************************************************)
(* The safety of KeyStore for every number of failures.                    *)
(*                                                                         *)
(* The properties speak of the running service.  What makes them hold is   *)
(* what the rows of OWN_KEYS can be while the process is down: IInv says   *)
(* which rows may disagree after how many failures, at every point of      *)
(* initialize.                                                             *)
(***************************************************************************)
EXTENDS KeyStore, FiniteSetTheorems, TLAPS

\* What each point of initialize has established about the members.
PhaseInv ==
    /\ pc \in {"insertPK", "insertSK"} =>
           /\ generated # 0 /\ serialized = generated
           /\ mem["PK"] = generated /\ mem["SK"] = generated
    /\ pc \in {"read", "load"} => serialized = 0
    /\ pc = "load" => stored["PK"] # 0 /\ stored["SK"] # 0
    /\ pc = "serving" => mem["PK"] # 0 /\ mem["SK"] # 0

RowMissing == stored["PK"] = 0 \/ stored["SK"] = 0

\* A row is missing only after a failure, or before the first start is over.
GenerationInv ==
    /\ generated <= 1 + faults + crashes
    /\ pc \in {"down", "read", "serving"} /\ RowMissing
           => generated <= faults + crashes
    /\ pc = "insertSK" /\ stored["PK"] = 0 => generated <= faults + crashes

\* With a working database the rows are written in the order PK, SK, once.
RowsInv ==
    faults = 0 =>
        /\ stored["SK"] # 0 => stored["PK"] = stored["SK"]
        /\ pc \in {"insertPK", "insertSK"} => stored["SK"] = 0
        /\ pc = "insertSK" => stored["PK"] = generated
        /\ pc = "serving" => /\ stored["SK"] # 0
                             /\ mem["PK"] = stored["PK"]
                             /\ mem["SK"] = stored["SK"]
                             /\ serialized \in {0, stored["SK"]}

\* What clients hold, then, belongs to the stored pair.
ClientInv ==
    faults = 0 =>
        /\ ciphertexts # {} => stored["SK"] # 0
        /\ published # {} => stored["SK"] # 0
        /\ \A c \in ciphertexts : c = Cipher(stored["PK"], "plain")
        /\ \A k \in published : k = stored["SK"]
        /\ answer # "noise"

\* After at most one failure the rows differ only if one of them is missing.
PairInv ==
    faults + crashes <= 1 =>
        /\ pc \notin {"insertPK", "insertSK"} =>
               RowMissing \/ stored["PK"] = stored["SK"]
        /\ pc = "insertSK" => stored["PK"] \in {0, generated}
        /\ pc = "serving" => mem["PK"] = mem["SK"]
        /\ pc \in {"insertPK", "insertSK"} /\ faults + crashes = 0 =>
               /\ stored["SK"] = 0
               /\ pc = "insertPK" => stored["PK"] = 0

IInv == /\ TypeOK /\ PhaseInv /\ GenerationInv
        /\ RowsInv /\ ClientInv /\ PairInv

-----------------------------------------------------------------------------
\* The number of failed reads is a number, and it is not 0 if one fails.
LEMMA FailingReads ==
    ASSUME NEW f \in SUBSET KeyTypes
    PROVE  Cardinality(f) \in Nat /\ (f # {} => Cardinality(f) >= 1)
<1>1. IsFiniteSet(KeyTypes)
  <2>1. IsFiniteSet({} \cup {"PK"})
    BY FS_EmptySet, FS_AddElement
  <2>2. IsFiniteSet(({} \cup {"PK"}) \cup {"SK"})
    BY <2>1, FS_AddElement
  <2>3. KeyTypes = ({} \cup {"PK"}) \cup {"SK"}
    BY DEF KeyTypes
  <2>. QED  BY <2>2, <2>3
<1>2. IsFiniteSet(f)
  BY <1>1, FS_Subset
<1>3. Cardinality(f) \in Nat
  BY <1>2, FS_CardinalityType
<1>4. f # {} => Cardinality(f) # 0
  BY <1>2, FS_EmptySet
<1>. QED  BY <1>3, <1>4

\* Before the first start nothing is stored.
LEMMA InitIInv == Init => IInv
  BY BoundsAssumption DEF Init, IInv, TypeOK, PhaseInv, GenerationInv, RowMissing,
     RowsInv, ClientInv, PairInv, KeyTypes, Initializing

\* A start reads no row.
LEMMA StartStep == IInv /\ Start => IInv'
<1>. SUFFICES ASSUME IInv, Start PROVE IInv'
  OBVIOUS
<1>1. TypeOK'
  BY DEF IInv, TypeOK, Start, KeyTypes, Initializing, clientVars
<1>2. (PhaseInv /\ GenerationInv /\ RowsInv /\ PairInv)'
  BY DEF IInv, TypeOK, Start, PhaseInv, GenerationInv, RowMissing, RowsInv,
         PairInv, KeyTypes
<1>3. ClientInv'
  BY DEF IInv, ClientInv, Start, clientVars
<1>. QED  BY <1>1, <1>2, <1>3 DEF IInv

\* The decision between new and saved keys.
LEMMA ReadStep == IInv /\ ReadOwnKeys => IInv'
<1>. SUFFICES ASSUME IInv, ReadOwnKeys PROVE IInv'
  OBVIOUS
<1>1. PICK f \in SUBSET KeyTypes :
        /\ Failing(f)
        /\ faults' = faults + Cardinality(f)
        /\ IF \E k \in KeyTypes : EmptyKey(k, f)
             THEN generate_keys /\ pc' = "insertPK"
             ELSE pc' = "load" /\ UNCHANGED <<generated, mem, serialized>>
  BY DEF ReadOwnKeys
<1>. DEFINE n == Cardinality(f)
<1>2. /\ n \in Nat /\ (f # {} => n >= 1)
      /\ faults' = faults + n
      /\ n = 0 \/ faults + n <= MaxFaults
  BY <1>1, FailingReads DEF Failing
<1>3. pc = "read" /\ UNCHANGED <<stored, crashes, clientVars>>
  BY DEF ReadOwnKeys
<1>4. /\ faults \in Nat /\ crashes \in Nat /\ generated \in Nat
      /\ faults' \in 0..MaxFaults /\ crashes \in 0..MaxCrashes
  BY <1>1, <1>2, BoundsAssumption DEF IInv, TypeOK, Failing
<1>. HIDE DEF n
<1>5. CASE \E k \in KeyTypes : EmptyKey(k, f)
  <2>1. generate_keys /\ pc' = "insertPK"
    BY <1>1, <1>5
  <2>2. /\ generated' = generated + 1
        /\ mem' = [k \in KeyTypes |-> generated'] /\ serialized' = generated'
    BY <2>1 DEF generate_keys
  <2>3. RowMissing \/ n >= 1
    BY <1>2, <1>5 DEF EmptyKey, RowMissing, KeyTypes
  <2>4. /\ TypeOK'
        /\ generated' \in Nat
    BY <1>3, <1>4, <2>1, <2>2 DEF IInv, TypeOK, Initializing, KeyTypes, clientVars
  <2>5. PhaseInv'
    BY <1>4, <2>1, <2>2 DEF PhaseInv, KeyTypes
  <2>6. GenerationInv'
    BY <1>2, <1>3, <1>4, <2>1, <2>2, <2>3 DEF IInv, GenerationInv
  <2>7. faults' = 0 => stored["SK"] = 0
    BY <1>2, <1>4, <2>3 DEF IInv, RowsInv, RowMissing
  <2>8. RowsInv'
    BY <1>2, <1>3, <1>4, <2>1, <2>7 DEF IInv, RowsInv
  <2>9. ClientInv'
    BY <1>2, <1>3, <1>4 DEF IInv, ClientInv, clientVars
  <2>10. faults' + crashes' = 0 => stored["SK"] = 0 /\ stored["PK"] = 0
    <3>1. /\ stored["PK"] \in 0..generated /\ stored["SK"] \in 0..generated
      BY DEF IInv, TypeOK, KeyTypes
    <3>2. RowMissing => generated <= faults + crashes
      BY <1>3 DEF IInv, GenerationInv
    <3>. QED  BY <1>2, <1>3, <1>4, <2>3, <3>1, <3>2
  <2>11. PairInv'
    BY <1>2, <1>3, <1>4, <2>1, <2>10 DEF PairInv
  <2>. QED  BY <2>4, <2>5, <2>6, <2>8, <2>9, <2>11 DEF IInv
<1>6. CASE ~ \E k \in KeyTypes : EmptyKey(k, f)
  <2>1. pc' = "load" /\ UNCHANGED <<generated, mem, serialized>>
    BY <1>1, <1>6
  <2>2. stored["PK"] # 0 /\ stored["SK"] # 0
    BY <1>6 DEF EmptyKey, KeyTypes
  <2>3. TypeOK'
    BY <1>3, <1>4, <2>1 DEF IInv, TypeOK, Initializing, KeyTypes, clientVars
  <2>4. PhaseInv' /\ GenerationInv'
    BY <1>2, <1>3, <1>4, <2>1, <2>2 DEF IInv, PhaseInv, GenerationInv
  <2>5. RowsInv' /\ ClientInv'
    BY <1>2, <1>3, <1>4, <2>1 DEF IInv, RowsInv, ClientInv, clientVars
  <2>6. PairInv'
    BY <1>2, <1>3, <1>4, <2>1 DEF IInv, PairInv, RowMissing
  <2>. QED  BY <2>3, <2>4, <2>5, <2>6 DEF IInv
<1>. QED  BY <1>5, <1>6

\* The first insert: it succeeds or fails.
LEMMA InsertPKStep == IInv /\ InsertPK => IInv'
<1>. SUFFICES ASSUME IInv, InsertPK PROVE IInv'
  OBVIOUS
<1>1. /\ faults \in Nat /\ crashes \in Nat /\ generated \in Nat /\ generated # 0
      /\ mem["PK"] = generated /\ mem["SK"] = generated
      /\ stored \in [KeyTypes -> 0..generated]
  BY DEF IInv, TypeOK, PhaseInv, InsertPK
<1>2. /\ pc = "insertPK" /\ pc' = "insertSK"
      /\ UNCHANGED <<mem, serialized, generated, crashes, clientVars>>
  BY DEF InsertPK
<1>3. \/ /\ stored'["PK"] = generated /\ stored'["SK"] = stored["SK"]
         /\ stored' \in [KeyTypes -> 0..generated]
         /\ faults' = faults
      \/ /\ faults' = faults + 1 /\ faults' <= MaxFaults /\ stored' = stored
  BY <1>1, BoundsAssumption DEF InsertPK, insert_own_key, KeyTypes, IInv, TypeOK
<1>4. TypeOK'
  BY <1>1, <1>2, <1>3, BoundsAssumption DEF IInv, TypeOK, Initializing, clientVars
<1>5. PhaseInv' /\ GenerationInv'
  BY <1>1, <1>2, <1>3 DEF IInv, PhaseInv, GenerationInv
<1>6. RowsInv'
  BY <1>1, <1>2, <1>3 DEF IInv, RowsInv
<1>7. ClientInv'
  <2>1. faults' = 0 => faults = 0 /\ stored["SK"] = 0
    BY <1>1, <1>2, <1>3 DEF IInv, RowsInv
  <2>. QED  BY <1>1, <1>2, <2>1 DEF IInv, ClientInv, clientVars
<1>8. PairInv'
  BY <1>1, <1>2, <1>3 DEF IInv, PairInv
<1>. QED  BY <1>4, <1>5, <1>6, <1>7, <1>8 DEF IInv

\* The second insert.
LEMMA InsertSKStep == IInv /\ InsertSK => IInv'
<1>. SUFFICES ASSUME IInv, InsertSK PROVE IInv'
  OBVIOUS
<1>1. /\ faults \in Nat /\ crashes \in Nat /\ generated \in Nat /\ generated # 0
      /\ mem["PK"] = generated /\ mem["SK"] = generated
      /\ serialized = generated
      /\ stored \in [KeyTypes -> 0..generated]
  BY DEF IInv, TypeOK, PhaseInv, InsertSK
<1>2. /\ pc = "insertSK" /\ pc' = "serving"
      /\ UNCHANGED <<mem, serialized, generated, crashes, clientVars>>
  BY DEF InsertSK
<1>3. \/ /\ stored'["SK"] = generated /\ stored'["PK"] = stored["PK"]
         /\ stored' \in [KeyTypes -> 0..generated]
         /\ faults' = faults
      \/ /\ faults' = faults + 1 /\ faults' <= MaxFaults /\ stored' = stored
  BY <1>1, BoundsAssumption DEF InsertSK, insert_own_key, KeyTypes, IInv, TypeOK
<1>4. TypeOK'
  BY <1>1, <1>2, <1>3, BoundsAssumption DEF IInv, TypeOK, Initializing, clientVars
<1>5. PhaseInv'
  BY <1>1, <1>2 DEF PhaseInv
<1>6. GenerationInv'
  BY <1>1, <1>2, <1>3 DEF IInv, GenerationInv, RowMissing
<1>7. RowsInv'
  BY <1>1, <1>2, <1>3 DEF IInv, RowsInv
<1>8. ClientInv'
  <2>1. faults' = 0 => faults = 0 /\ stored["SK"] = 0
    BY <1>1, <1>2, <1>3 DEF IInv, RowsInv
  <2>. QED  BY <1>1, <1>2, <2>1 DEF IInv, ClientInv, clientVars
<1>9. PairInv'
  BY <1>1, <1>2, <1>3 DEF IInv, PairInv, RowMissing
<1>. QED  BY <1>4, <1>5, <1>6, <1>7, <1>8, <1>9 DEF IInv

\* Loading the saved keys.
LEMMA LoadStep == IInv /\ LoadKeys => IInv'
<1>. SUFFICES ASSUME IInv, LoadKeys PROVE IInv'
  OBVIOUS
<1>1. PICK f \in SUBSET KeyTypes :
        /\ Failing(f)
        /\ faults' = faults + Cardinality(f)
        /\ IF \E k \in KeyTypes : EmptyKey(k, f)
             THEN pc' = "down" /\ UNCHANGED mem
             ELSE pc' = "serving" /\ mem' = stored
  BY DEF LoadKeys
<1>. DEFINE n == Cardinality(f)
<1>2. n \in Nat /\ faults' = faults + n /\ faults + n <= MaxFaults
  BY <1>1, FailingReads DEF Failing
<1>3. pc = "load" /\ UNCHANGED <<stored, serialized, generated, crashes, clientVars>>
  BY DEF LoadKeys
<1>4. /\ faults \in Nat /\ crashes \in Nat /\ generated \in Nat
      /\ serialized = 0 /\ stored["PK"] # 0 /\ stored["SK"] # 0
      /\ stored \in [KeyTypes -> 0..generated]
  BY <1>3, BoundsAssumption DEF IInv, TypeOK, PhaseInv
<1>5. \/ pc' = "serving" /\ mem' = stored
      \/ pc' = "down" /\ mem' = mem
  BY <1>1
<1>. HIDE DEF n
<1>6. TypeOK'
  BY <1>2, <1>3, <1>4, <1>5, BoundsAssumption
     DEF IInv, TypeOK, Initializing, KeyTypes, clientVars
<1>7. PhaseInv' /\ GenerationInv'
  BY <1>2, <1>3, <1>4, <1>5 DEF IInv, PhaseInv, GenerationInv, RowMissing
<1>8. RowsInv' /\ ClientInv'
  BY <1>2, <1>3, <1>4, <1>5 DEF IInv, RowsInv, ClientInv, clientVars
<1>9. PairInv'
  BY <1>2, <1>3, <1>4, <1>5 DEF IInv, PairInv, RowMissing
<1>. QED  BY <1>6, <1>7, <1>8, <1>9 DEF IInv

\* A crash loses the members and leaves the rows as they are.
LEMMA CrashStep == IInv /\ Crash => IInv'
<1>. SUFFICES ASSUME IInv, Crash PROVE IInv'
  OBVIOUS
<1>1. /\ faults \in Nat /\ crashes \in Nat /\ generated \in Nat
      /\ stored["PK"] \in 0..generated /\ stored["SK"] \in 0..generated
  BY DEF IInv, TypeOK, KeyTypes
<1>2. /\ pc # "down" /\ pc' = "down"
      /\ UNCHANGED <<mem, serialized, stored, generated, faults, clientVars>>
      /\ \/ pc \in Initializing /\ crashes' = crashes + 1 /\ crashes' <= MaxCrashes
         \/ pc \notin Initializing /\ crashes' = crashes
  BY <1>1, BoundsAssumption DEF Crash
<1>3. TypeOK'
  BY <1>1, <1>2, BoundsAssumption DEF IInv, TypeOK, clientVars
<1>4. PhaseInv' /\ RowsInv' /\ ClientInv'
  BY <1>2 DEF IInv, PhaseInv, RowsInv, ClientInv, clientVars
<1>5. GenerationInv'
  <2>1. pc \in Initializing \cup {"serving"}
    BY <1>2 DEF IInv, TypeOK
  <2>. QED  BY <1>1, <1>2, <2>1 DEF IInv, GenerationInv, RowMissing, Initializing
<1>6. PairInv'
  <2>1. pc \in {"insertPK", "insertSK"} => crashes' = crashes + 1
    BY <1>2 DEF Initializing
  <2>2. crashes' = crashes \/ crashes' = crashes + 1
    BY <1>2
  <2>3. ASSUME pc \in {"insertPK", "insertSK"}, faults + crashes' <= 1
        PROVE  stored["SK"] = 0
    <3>1. faults + crashes = 0
      BY <1>1, <2>1, <2>3
    <3>. QED  BY <2>3, <3>1 DEF IInv, PairInv
  <2>4. ASSUME pc \notin {"insertPK", "insertSK"}, faults + crashes' <= 1
        PROVE  RowMissing \/ stored["PK"] = stored["SK"]
    <3>1. faults + crashes <= 1
      BY <1>1, <2>2, <2>4
    <3>. QED  BY <2>4, <3>1 DEF IInv, PairInv
  <2>. QED  BY <1>2, <2>3, <2>4 DEF PairInv, RowMissing
<1>. QED  BY <1>3, <1>4, <1>5, <1>6 DEF IInv

\* With a working database the running service uses the stored pair.
LEMMA ServingKeys ==
    ASSUME IInv, pc = "serving", faults = 0
    PROVE  /\ mem["PK"] = stored["PK"] /\ mem["SK"] = stored["SK"]
           /\ stored["PK"] = stored["SK"] /\ stored["SK"] # 0
           /\ serialized \in {0, stored["SK"]}
  BY DEF IInv, RowsInv

\* Requests change what clients hold, and at most end the process.
LEMMA ServeStep ==
    ASSUME IInv, pc = "serving", Serve
    PROVE  IInv'
<1>0. /\ pc' \in {"serving", "down"}
      /\ UNCHANGED <<mem, serialized, stored, generated, faults, crashes>>
  BY DEF Serve, Encrypt, Decrypt, Recrypt, Sum, GetPublicKey, processVars
<1>1. PhaseInv' /\ GenerationInv' /\ RowsInv' /\ PairInv'
  BY <1>0 DEF IInv, PhaseInv, GenerationInv, RowMissing, RowsInv, PairInv
<1>2. /\ mem["PK"] \in 1..generated /\ mem["SK"] \in 1..generated
      /\ serialized \in 0..generated /\ generated \in Nat
  BY DEF IInv, TypeOK, PhaseInv, KeyTypes
<1>. SUFFICES TypeOK' /\ ClientInv'
  BY <1>1 DEF IInv
<1>3. TypeOK' <=> /\ ciphertexts' \subseteq [key : 1..generated, value : {"plain", "noise"}]
                  /\ published' \subseteq 1..generated
                  /\ answer' \in {"none", "cipher", "plain", "noise", "key", "crash"}
  BY <1>0 DEF IInv, TypeOK
<1>. DEFINE Held(cs, ks, a) ==
         /\ cs # {} => stored["SK"] # 0
         /\ ks # {} => stored["SK"] # 0
         /\ \A c \in cs : c = Cipher(stored["PK"], "plain")
         /\ \A k \in ks : k = stored["SK"]
         /\ a # "noise"
<1>4. (faults = 0 => Held(ciphertexts', published', answer')) => ClientInv'
  BY <1>0 DEF ClientInv
<1>5. faults = 0 => Held(ciphertexts, published, answer)
  BY DEF IInv, ClientInv
<1>6. /\ ciphertexts \subseteq [key : 1..generated, value : {"plain", "noise"}]
      /\ published \subseteq 1..generated
      /\ answer \in {"none", "cipher", "plain", "noise", "key", "crash"}
  BY DEF IInv, TypeOK
<1>7. ASSUME NEW c \in ciphertexts
      PROVE  /\ Decrypted(c) \in {"plain", "noise"}
             /\ faults = 0 => Decrypted(c) = "plain"
  <2>1. Decrypted(c) \in {"plain", "noise"}
    BY <1>6 DEF Decrypted
  <2>2. ASSUME faults = 0 PROVE Decrypted(c) = "plain"
    BY <1>5, <2>2, ServingKeys DEF Decrypted, Cipher
  <2>. QED  BY <2>1, <2>2
<1>8. ASSUME NEW v \in {"plain", "noise"}, faults = 0 => v = "plain",
             ciphertexts' = ciphertexts \cup {Cipher(mem["PK"], v)},
             answer' = "cipher", published' = published
      PROVE  TypeOK' /\ ClientInv'
  <2>1. Cipher(mem["PK"], v) \in [key : 1..generated, value : {"plain", "noise"}]
    BY <1>2 DEF Cipher
  <2>2. TypeOK'
    BY <1>3, <1>6, <1>8, <2>1
  <2>3. ASSUME faults = 0 PROVE Held(ciphertexts', published', answer')
    <3>1. Cipher(mem["PK"], v) = Cipher(stored["PK"], "plain") /\ stored["SK"] # 0
      BY <1>8, <2>3, ServingKeys
    <3>. QED  BY <1>5, <1>8, <2>3, <3>1
  <2>. QED  BY <1>4, <2>2, <2>3
<1>9. CASE Encrypt
  BY <1>8, <1>9 DEF Encrypt
<1>10. ASSUME NEW c \in ciphertexts, Decrypt(c) PROVE TypeOK' /\ ClientInv'
  <2>1. /\ answer' = Decrypted(c)
        /\ ciphertexts' = ciphertexts /\ published' = published
    BY <1>10 DEF Decrypt
  <2>2. TypeOK'
    BY <1>3, <1>6, <1>7, <2>1
  <2>3. faults = 0 => Held(ciphertexts', published', answer')
    BY <1>5, <1>7, <2>1
  <2>. QED  BY <1>4, <2>2, <2>3
<1>11. ASSUME NEW c \in ciphertexts, Recrypt(c) PROVE TypeOK' /\ ClientInv'
  BY <1>7, <1>8, <1>11 DEF Recrypt
<1>12. ASSUME NEW s \in SUBSET ciphertexts, Sum(s) PROVE TypeOK' /\ ClientInv'
  <2>. DEFINE good == \A c \in s : c = Cipher(mem["PK"], "plain")
              v == IF good THEN "plain" ELSE "noise"
  <2>1. /\ ciphertexts' = ciphertexts \cup {Cipher(mem["PK"], v)}
        /\ answer' = "cipher" /\ published' = published
    BY <1>12 DEF Sum
  <2>2. faults = 0 => good
    BY <1>5, ServingKeys
  <2>3. v \in {"plain", "noise"} /\ (faults = 0 => v = "plain")
    BY <2>2
  <2>. HIDE DEF v
  <2>. QED  BY <1>8, <2>1, <2>3
<1>13. CASE GetPublicKey
  <2>1. /\ ciphertexts' = ciphertexts
        /\ answer' \in {"crash", "key"}
        /\ \/ published' = published
           \/ serialized # 0 /\ published' = published \cup {serialized}
    BY <1>13 DEF GetPublicKey
  <2>2. TypeOK'
    <3>0. serialized # 0 => serialized \in 1..generated
      BY <1>2
    <3>1. published' \subseteq 1..generated
      BY <1>6, <2>1, <3>0
    <3>2. answer' \in {"none", "cipher", "plain", "noise", "key", "crash"}
      BY <2>1
    <3>. QED  BY <1>3, <1>6, <2>1, <3>1, <3>2
  <2>3. ASSUME faults = 0 PROVE Held(ciphertexts', published', answer')
    <3>1. stored["SK"] # 0 /\ serialized \in {0, stored["SK"]}
      BY <2>3, ServingKeys
    <3>. QED  BY <1>5, <2>1, <2>3, <3>1
  <2>. QED  BY <1>4, <2>2, <2>3
<1>. QED  BY <1>9, <1>10, <1>11, <1>12, <1>13 DEF Serve

\* A client uses a key it was given.
LEMMA ClientStep == IInv /\ Client => IInv'
<1>. SUFFICES ASSUME IInv, NEW k \in published, EncryptFor(k) PROVE IInv'
  BY DEF Client
<1>1. /\ ciphertexts' = ciphertexts \cup {Cipher(k, "plain")}
      /\ UNCHANGED <<pc, mem, serialized, stored, generated, faults, crashes,
                     published, answer>>
  BY DEF EncryptFor, processVars
<1>2. PhaseInv' /\ GenerationInv' /\ RowsInv' /\ PairInv'
  BY <1>1 DEF IInv, PhaseInv, GenerationInv, RowMissing, RowsInv, PairInv
<1>3. TypeOK'
  <2>1. Cipher(k, "plain") \in [key : 1..generated, value : {"plain", "noise"}]
    BY DEF IInv, TypeOK, Cipher
  <2>. QED  BY <1>1, <2>1 DEF IInv, TypeOK
<1>4. ClientInv'
  <2>1. ASSUME faults = 0
        PROVE  stored["SK"] # 0 /\ Cipher(k, "plain") = Cipher(stored["PK"], "plain")
    <3>1. k = stored["SK"] /\ stored["SK"] # 0
      BY <2>1 DEF IInv, ClientInv
    <3>2. stored["PK"] = stored["SK"]
      BY <2>1, <3>1 DEF IInv, RowsInv
    <3>. QED  BY <3>1, <3>2
  <2>. QED  BY <1>1, <2>1 DEF IInv, ClientInv
<1>. QED  BY <1>2, <1>3, <1>4 DEF IInv

\* Every step keeps the invariant.
LEMMA NextStep == IInv /\ [Next]_vars => IInv'
<1>. SUFFICES ASSUME IInv, [Next]_vars PROVE IInv'
  OBVIOUS
<1>1. CASE Initialize
  BY <1>1, StartStep, ReadStep, InsertPKStep, InsertSKStep, LoadStep DEF Initialize
<1>2. CASE Crash
  BY <1>2, CrashStep
<1>3. CASE Serve
  <2>1. pc = "serving"
    BY <1>3 DEF Serve, Encrypt, Decrypt, Recrypt, Sum, GetPublicKey
  <2>. QED  BY <1>3, <2>1, ServeStep
<1>4. CASE Client
  BY <1>4, ClientStep
<1>5. CASE UNCHANGED vars
  BY <1>5 DEF vars, processVars, clientVars, IInv, TypeOK, PhaseInv, GenerationInv,
     RowMissing, RowsInv, ClientInv, PairInv
<1>. QED  BY <1>1, <1>2, <1>3, <1>4, <1>5 DEF Next

\* IInv is an invariant.
THEOREM Invariance == Spec => []IInv
  BY InitIInv, NextStep, PTL DEF Spec

\* Every variable keeps its type, for every number of failures.
THEOREM TypeCorrect == Spec => []TypeOK
<1>1. IInv => TypeOK
  BY DEF IInv
<1>. QED  BY <1>1, Invariance, PTL

\* While the database works, no crash or restart of the service loses what was
\* encrypted by it or for it.
THEOREM KeysSurvive == Spec => []NoKeyLoss
<1>1. IInv => NoKeyLoss
  BY DEF IInv, ClientInv, RowsInv, NoKeyLoss
<1>. QED  BY <1>1, Invariance, PTL

\* One failure is not enough to run with keys that do not belong together.
THEOREM PairStaysTogether == Spec => []PairSplitNeedsTwoFailures
<1>1. IInv => PairSplitNeedsTwoFailures
  BY DEF IInv, TypeOK, PairInv, RowsInv, PairSplitNeedsTwoFailures
<1>. QED  BY <1>1, Invariance, PTL

\* Keys are generated anew only after a failure.
THEOREM KeysAreKept == Spec => []GenerationsAccounted
<1>1. IInv => GenerationsAccounted
  BY DEF IInv, GenerationInv, GenerationsAccounted
<1>. QED  BY <1>1, Invariance, PTL

-----------------------------------------------------------------------------
\* The serialized keys of a running service are those in use, or null: also
\* after failures that made the service use keys other than the stored ones.
LEMMA SerializedInUse ==
    Spec => [](pc = "serving" /\ serialized # 0 =>
                   mem["PK"] = serialized /\ mem["SK"] = serialized)
<1>. DEFINE InUse == pc = "serving" /\ serialized # 0 =>
                         mem["PK"] = serialized /\ mem["SK"] = serialized
<1>1. Init => InUse
  BY DEF Init
<1>2. ASSUME IInv, InUse, [Next]_vars PROVE InUse'
  <2>1. CASE InsertSK
    BY <1>2, <2>1 DEF InsertSK, IInv, PhaseInv
  <2>2. CASE LoadKeys
    BY <1>2, <2>2 DEF LoadKeys, IInv, PhaseInv
  <2>3. CASE pc' = "serving" => pc = "serving" /\ UNCHANGED <<mem, serialized>>
    BY <1>2, <2>3
  <2>. QED
    BY <1>2, <2>1, <2>2, <2>3
    DEF Next, Initialize, Start, ReadOwnKeys, InsertPK, Crash, Serve, Client, EncryptFor,
        Encrypt, Decrypt, Recrypt, Sum, GetPublicKey, vars, processVars
<1>. QED  BY <1>1, <1>2, Invariance, PTL DEF Spec

\* A public key that a client is given is, when it is given, the one the service
\* encrypts with, and the secret key in use belongs to it: whatever failed.
\* What is lost after failures is lost at a later start.
THEOREM PublishedKeyIsInUse ==
    Spec => [][\A k \in published' \ published : k = mem["PK"] /\ k = mem["SK"]]_vars
<1>. DEFINE InUse == pc = "serving" /\ serialized # 0 =>
                         mem["PK"] = serialized /\ mem["SK"] = serialized
            Given == \A k \in published' \ published : k = mem["PK"] /\ k = mem["SK"]
<1>1. ASSUME InUse, [Next]_vars PROVE [Given]_vars
  <2>1. CASE GetPublicKey
    BY <1>1, <2>1 DEF GetPublicKey
  <2>2. CASE ~GetPublicKey
    <3>1. published' = published
      BY <1>1, <2>2
      DEF Next, Initialize, Start, ReadOwnKeys, InsertPK, InsertSK, LoadKeys, Crash, Serve,
          Client, EncryptFor, Encrypt, Decrypt, Recrypt, Sum, vars, clientVars
    <3>. QED  BY <3>1
  <2>. QED  BY <2>1, <2>2
<1>. QED  BY <1>1, SerializedInUse, PTL DEF Spec

\* Once both keys are stored, only a failure of the database makes initialize
\* overwrite one: crashes, in any number and at any point, do not.
THEOREM StoredKeysAreFinal ==
    Spec => [][(\A k \in KeyTypes : stored[k] # 0) /\ stored' # stored => faults > 0]_vars
<1>1. ASSUME IInv, [Next]_vars, \A k \in KeyTypes : stored[k] # 0, stored' # stored
      PROVE  faults > 0
  <2>1. InsertPK \/ InsertSK
    BY <1>1 DEF Next, Initialize, Start, ReadOwnKeys, LoadKeys, Crash, Serve, Client,
       EncryptFor, Encrypt, Decrypt, Recrypt, Sum, GetPublicKey, vars
  <2>2. pc \in {"insertPK", "insertSK"} /\ stored["SK"] # 0
    BY <1>1, <2>1 DEF InsertPK, InsertSK, KeyTypes
  <2>3. faults # 0 /\ faults \in Nat
    BY <1>1, <2>2, BoundsAssumption DEF IInv, RowsInv, TypeOK
  <2>. QED  BY <2>3
<1>2. IInv /\ [Next]_vars =>
          [(\A k \in KeyTypes : stored[k] # 0) /\ stored' # stored => faults > 0]_vars
  BY <1>1
<1>. QED  BY <1>2, Invariance, PTL DEF Spec
=============================================================================
