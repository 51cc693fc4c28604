--------------------------- MODULE AccountsProofs ----------------------------
(***************************************************************************)
(* Safety of Accounts for every set of connections and ids, every number   *)
(* of sign-ups and codes and every combination of faults.  The inductive   *)
(* invariant Inv says which sign-up an account belongs to while its        *)
(* handler is still at work: it alone has the success, nothing has been    *)
(* given to a client yet, and the codes, if any, are its own.              *)
(***************************************************************************)
EXTENDS Accounts, TLAPS

Exists(i) == accounts[i] # NoAccount

\* A secret that a sign-up will store is the one of its URI, unless another
\* sign-up came in between or the insert is going to fail.
Own(c, secret) ==
  secret = local[c].uri \/ local[c].id \in overtaken \/ Exists(local[c].id)

\* What is known at each place of a handler.
Place(c) ==
  /\ pc[c] \in {"register", "registered"} => Exists(local[c].id)
  /\ pc[c] \in {"generated", "get_secret"} => local[c].uri # 0
  /\ pc[c] = "get_secret" => Own(c, user_secrets[local[c].id])
  /\ pc[c] = "insert" /\ local[c].use_otp =>
       local[c].uri # 0 /\ Own(c, local[c].otp_secret)
  /\ pc[c] \in {"store_secret", "store_codes"} =>
       /\ local[c].success /\ local[c].use_otp /\ local[c].uri # 0
       /\ recovery_codes[local[c].id] = {} /\ redeemed[local[c].id] = {}
  /\ pc[c] = "invalidate" => local[c].code \in recovery_codes[local[c].id]

\* What is known of a sign-up that has inserted its account.
Inserted(c) ==
  local[c].success =>
    /\ pc[c] \in {"store_secret", "store_codes", "answer"}
    /\ Exists(local[c].id)
    /\ accounts[local[c].id].otp_secret = local[c].otp_secret
    /\ accounts[local[c].id].use_otp = local[c].use_otp
    /\ local[c].use_otp => \/ local[c].otp_secret = local[c].uri
                           \/ local[c].id \in overtaken
    /\ given[local[c].id] = 0
    /\ recovery_codes[local[c].id] \subseteq CodesOf(local[c].uri)

\* No two sign-ups have inserted the account of one id.
OneInserted ==
  \A c, d \in Conns : local[c].success /\ local[d].success /\ local[c].id = local[d].id
                        => c = d

\* What is known of an account and its codes.
Table(i) ==
  /\ given[i] # 0 => /\ Exists(i)
                     /\ accounts[i].otp_secret = given[i] \/ i \in overtaken
                     /\ recovery_codes[i] \subseteq CodesOf(given[i])
  /\ recovery_codes[i] # {} => Exists(i) /\ accounts[i].use_otp
  /\ redeemed[i] # {} => Exists(i)
  /\ redeemed[i] \cap recovery_codes[i] \subseteq left_valid[i]

Inv ==
  /\ TypeOK
  /\ \A c \in Conns : Place(c) /\ Inserted(c)
  /\ OneInserted
  /\ \A i \in Ids : Table(i)

-----------------------------------------------------------------------------

\* What an update of one field of the locals leaves alone.
LEMMA FieldsLemma ==
  ASSUME NEW r \in Locals
  PROVE  /\ \A x \in Ids : LET s == [r EXCEPT !.id = x] IN
              /\ s \in Locals /\ s.id = x /\ s.use_otp = r.use_otp /\ s.uri = r.uri
              /\ s.otp_secret = r.otp_secret /\ s.success = r.success /\ s.code = r.code
         /\ \A x \in BOOLEAN : LET s == [r EXCEPT !.use_otp = x] IN
              /\ s \in Locals /\ s.id = r.id /\ s.use_otp = x /\ s.uri = r.uri
              /\ s.otp_secret = r.otp_secret /\ s.success = r.success /\ s.code = r.code
         /\ \A x \in Secrets : LET s == [r EXCEPT !.uri = x] IN
              /\ s \in Locals /\ s.id = r.id /\ s.use_otp = r.use_otp /\ s.uri = x
              /\ s.otp_secret = r.otp_secret /\ s.success = r.success /\ s.code = r.code
         /\ \A x \in Secrets : LET s == [r EXCEPT !.otp_secret = x] IN
              /\ s \in Locals /\ s.id = r.id /\ s.use_otp = r.use_otp /\ s.uri = r.uri
              /\ s.otp_secret = x /\ s.success = r.success /\ s.code = r.code
         /\ \A x \in BOOLEAN : LET s == [r EXCEPT !.success = x] IN
              /\ s \in Locals /\ s.id = r.id /\ s.use_otp = r.use_otp /\ s.uri = r.uri
              /\ s.otp_secret = r.otp_secret /\ s.success = x /\ s.code = r.code
         /\ \A x \in Codes : LET s == [r EXCEPT !.code = x] IN
              /\ s \in Locals /\ s.id = r.id /\ s.use_otp = r.use_otp /\ s.uri = r.uri
              /\ s.otp_secret = r.otp_secret /\ s.success = r.success /\ s.code = x
BY DEF Locals

\* The locals of a connection that is idle.
LEMMA IdleLemma ==
  /\ Idle \in Locals
  /\ Idle.success = FALSE /\ Idle.use_otp = FALSE /\ Idle.uri = 0
<1>1. (CHOOSE i \in Ids : TRUE) \in Ids
  BY NothingAssumption
<1>2. QED
  BY <1>1, CountsAssumption DEF Idle, Locals, Secrets

\* The locals with which a sign-up begins.
LEMMA SignupLocals ==
  ASSUME NEW i \in Ids, NEW use_otp \in BOOLEAN
  PROVE  LET r == [Idle EXCEPT !.id = i, !.use_otp = use_otp]
         IN  r \in Locals /\ r.id = i /\ r.success = FALSE /\ r.use_otp = use_otp
<1> DEFINE q == [Idle EXCEPT !.id = i]
           r == [q EXCEPT !.use_otp = use_otp]
<1>1. q \in Locals /\ q.id = i /\ q.success = FALSE
  BY IdleLemma, FieldsLemma
<1> HIDE DEF q
<1>2. r \in Locals /\ r.id = i /\ r.success = FALSE /\ r.use_otp = use_otp
  BY <1>1, FieldsLemma
<1>3. QED
  BY <1>2, Zenon DEF q

\* The locals with which a login by password begins.
LEMMA LoginLocals ==
  ASSUME NEW i \in Ids, NEW secret \in Secrets
  PROVE  LET r == [Idle EXCEPT !.id = i, !.otp_secret = secret]
         IN  r \in Locals /\ r.id = i /\ r.success = FALSE /\ r.otp_secret = secret
<1> DEFINE q == [Idle EXCEPT !.id = i]
           r == [q EXCEPT !.otp_secret = secret]
<1>1. q \in Locals /\ q.id = i /\ q.success = FALSE
  BY IdleLemma, FieldsLemma
<1> HIDE DEF q
<1>2. r \in Locals /\ r.id = i /\ r.success = FALSE /\ r.otp_secret = secret
  BY <1>1, FieldsLemma
<1>3. QED
  BY <1>2, Zenon DEF q

\* The locals with which a login by recovery code begins.
LEMMA CodeLocals ==
  ASSUME NEW i \in Ids, NEW input \in Codes
  PROVE  LET r == [Idle EXCEPT !.id = i, !.code = input]
         IN  r \in Locals /\ r.id = i /\ r.success = FALSE /\ r.code = input
<1> DEFINE q == [Idle EXCEPT !.id = i]
           r == [q EXCEPT !.code = input]
<1>1. q \in Locals /\ q.id = i /\ q.success = FALSE
  BY IdleLemma, FieldsLemma
<1> HIDE DEF q
<1>2. r \in Locals /\ r.id = i /\ r.success = FALSE /\ r.code = input
  BY <1>1, FieldsLemma
<1>3. QED
  BY <1>2, Zenon DEF q

\* The codes of a sign-up are codes.
LEMMA CodesLemma ==
  ASSUME NEW s \in Secrets, s # 0
  PROVE  CodesOf(s) \subseteq Codes
BY CountsAssumption DEF Secrets, CodesOf, Codes

\* What is known of a connection that does not move still holds after a step that
\* leaves alone what it needs.
LEMMA OtherLemma ==
  ASSUME Inv, NEW d \in Conns, NEW i, i = local[d].id,
         pc'[d] = pc[d], local'[d] = local[d], accounts' = accounts, overtaken' = overtaken,
         user_secrets'[i] = user_secrets[i] \/ Exists(i),
         pc[d] \in Locked => recovery_codes'[i] = recovery_codes[i] /\ redeemed'[i] = redeemed[i],
         local[d].success => given'[i] = given[i] /\ recovery_codes'[i] \subseteq recovery_codes[i]
  PROVE  Place(d)' /\ Inserted(d)'
<1>1. Place(d) /\ Inserted(d)
  BY DEF Inv
<1>2. Exists(i)' <=> Exists(i)
  BY DEF Exists
<1>3. Place(d)'
  BY <1>1, <1>2 DEF Place, Own, Locked
<1>4. Inserted(d)'
  BY <1>1, <1>2 DEF Inserted
<1>5. QED
  BY <1>3, <1>4

\* A step of one connection that leaves the tables alone and is no success can
\* disturb only what is known of the connection's own place.
LEMMA LocalStep ==
  ASSUME Inv, NEW c \in Conns, NEW there \in PcStates,
         TypeOK', Goto(c, there), Place(c)', ~local'[c].success,
         \A d \in Conns \ {c} : local'[d] = local[d],
         UNCHANGED <<accounts, recovery_codes, user_secrets, given, redeemed, left_valid,
                     overtaken>>
  PROVE  Inv'
<1>1. ASSUME NEW d \in Conns, d # c PROVE Place(d)' /\ Inserted(d)'
  <2>1. pc'[d] = pc[d] /\ local'[d] = local[d]
    BY <1>1 DEF Inv, Goto, TypeOK
  <2>2. QED
    BY <2>1, OtherLemma
<1>2. Inserted(c)'
  BY DEF Inserted
<1>3. OneInserted'
  BY DEF Inv, OneInserted
<1>4. \A i \in Ids : Table(i)'
  BY DEF Inv, Table, Exists
<1>5. QED
  BY <1>1, <1>2, <1>3, <1>4 DEF Inv

\* store_otp_secret writes what insert_data_accounts has written before.
LEMMA StoreLemma ==
  ASSUME Inv, NEW c \in Conns, StoreSecret(c)
  PROVE  accounts' = accounts
<1> DEFINE i == local[c].id
<1>1. /\ i \in Ids /\ accounts[i] \in Rows
      /\ accounts[i].otp_secret = local[c].otp_secret
  BY DEF Inv, TypeOK, Locals, Place, Inserted, Exists, StoreSecret, At
<1>2. \A r \in Rows : [r EXCEPT !.otp_secret = r.otp_secret] = r
  BY DEF Rows
<1>3. accounts' = [accounts EXCEPT ![i] = [accounts[i] EXCEPT !.otp_secret = local[c].otp_secret]]
  BY DEF StoreSecret
<1>4. accounts' = [accounts EXCEPT ![i] = accounts[i]]
  BY <1>1, <1>2, <1>3, Zenon
<1>5. QED
  BY <1>1, <1>4 DEF Inv, TypeOK

\* Every step preserves the invariant.
LEMMA InvStep == Inv /\ [Next]_vars => Inv'
<1> SUFFICES ASSUME Inv, [Next]_vars PROVE Inv'
  OBVIOUS
<1> USE DEF tables, maps, history
<1>t. /\ local \in [Conns -> Locals] /\ pc \in [Conns -> PcStates]
      /\ \A c \in Conns : /\ local[c] \in Locals /\ local[c].id \in Ids
                          /\ local[c].uri \in Secrets /\ local[c].otp_secret \in Secrets
                          /\ local[c].success \in BOOLEAN /\ local[c].use_otp \in BOOLEAN
      /\ 0 \in Secrets
  BY CountsAssumption DEF Inv, TypeOK, Locals, Secrets
<1>1. ASSUME NEW c \in Conns, Signup(c) PROVE Inv'
  <2>1. PICK i \in Ids, use_otp \in BOOLEAN :
          /\ local' = [local EXCEPT ![c] = [Idle EXCEPT !.id = i, !.use_otp = use_otp]]
          /\ Goto(c, IF use_otp THEN "generate" ELSE "insert")
    BY <1>1 DEF Signup
  <2> DEFINE r == [Idle EXCEPT !.id = i, !.use_otp = use_otp]
  <2>2. r \in Locals /\ r.use_otp = use_otp /\ r.success = FALSE
    BY SignupLocals, Zenon
  <2>3. local' = [local EXCEPT ![c] = r]
    BY <2>1
  <2> HIDE DEF r
  <2>4. /\ pc[c] = "idle" /\ pc' = [pc EXCEPT ![c] = IF use_otp THEN "generate" ELSE "insert"]
        /\ UNCHANGED <<server, db_mutex, tables, maps, drawn, history>>
    BY <1>1, <2>1 DEF Signup, Goto, At
  <2>5. /\ local' \in [Conns -> Locals] /\ local'[c] = r
        /\ \A d \in Conns \ {c} : local'[d] = local[d]
    BY <2>2, <2>3, <1>t
  <2>6. TypeOK'
    BY <2>4, <2>5, NothingAssumption DEF Inv, TypeOK, PcStates, Locked
  <2>7. Place(c)'
    BY <2>2, <2>4, <2>5, <1>t DEF Place
  <2>8. QED
    BY <2>1, <2>2, <2>4, <2>5, <2>6, <2>7, LocalStep DEF PcStates
<1>2. ASSUME NEW c \in Conns, GenerateOtp(c) PROVE Inv'
  <2>1. /\ pc[c] = "generate" /\ pc' = [pc EXCEPT ![c] = "generated"] /\ Goto(c, "generated")
        /\ UNCHANGED <<server, db_mutex, tables, user_secrets, history>>
    BY <1>2 DEF GenerateOtp, Goto, At
  <2>2. drawn' \in Secrets /\ drawn + 1 \in Secrets /\ drawn + 1 # 0
    BY <1>2, CountsAssumption DEF GenerateOtp, Inv, TypeOK, Secrets
  <2>3. user_otps' \in [Ids -> Secrets]
    BY <1>2, <1>t, <2>2 DEF GenerateOtp, Inv, TypeOK
  <2> DEFINE r == [local[c] EXCEPT !.uri = drawn + 1]
  <2>4. r \in Locals /\ r.uri # 0 /\ r.success = local[c].success
    BY <1>t, <2>2, FieldsLemma
  <2>5. local' = [local EXCEPT ![c] = r]
    BY <1>2 DEF GenerateOtp
  <2> HIDE DEF r
  <2>6. /\ local' \in [Conns -> Locals] /\ local'[c] = r
        /\ \A d \in Conns \ {c} : local'[d] = local[d]
    BY <2>4, <2>5, <1>t
  <2>7. TypeOK'
    BY <2>1, <2>2, <2>3, <2>6, NothingAssumption DEF Inv, TypeOK, PcStates, Locked
  <2>8. Place(c)' /\ ~local'[c].success
    BY <2>1, <2>4, <2>6, <1>t DEF Inv, Place, Inserted
  <2>9. QED
    BY <2>1, <2>6, <2>7, <2>8, LocalStep DEF PcStates
<1>3. ASSUME NEW c \in Conns, KeepSecret(c) PROVE Inv'
  <2>1. /\ pc[c] = "generated" /\ pc' = [pc EXCEPT ![c] = "get_secret"]
        /\ user_secrets' = [user_secrets EXCEPT ![local[c].id] = local[c].uri]
        /\ UNCHANGED <<server, local, db_mutex, tables, user_otps, drawn, given, loaded,
                       redeemed, left_valid>>
    BY <1>3 DEF KeepSecret, Goto, At
  <2>2. /\ overtaken \subseteq overtaken' /\ overtaken' \subseteq Ids
        /\ \A d \in Conns \ {c} : pc[d] = "get_secret" /\ local[d].id = local[c].id
                                    => local[d].id \in overtaken'
    BY <1>3, <1>t DEF KeepSecret, Inv, TypeOK
  <2>3. TypeOK'
    BY <2>1, <2>2, <1>t, NothingAssumption DEF Inv, TypeOK, PcStates, Locked
  <2>4. ASSUME NEW d \in Conns PROVE Place(d)' /\ Inserted(d)'
    <3>1. Place(d) /\ Inserted(d) /\ local'[d] = local[d]
      BY <2>1 DEF Inv
    <3>2. user_secrets'[local[d].id] = IF local[d].id = local[c].id THEN local[c].uri
                                                                    ELSE user_secrets[local[d].id]
      BY <2>1, <1>t DEF Inv, TypeOK
    <3>3. Inserted(d)'
      BY <2>1, <2>2, <3>1, <1>t DEF Inserted, Exists
    <3>4. CASE d = c
      BY <2>1, <3>1, <3>2, <3>3, <3>4, <1>t DEF Place, Own
    <3>5. CASE d # c
      BY <2>1, <2>2, <3>1, <3>2, <3>3, <3>5, <1>t DEF Place, Own, Exists
    <3>6. QED
      BY <3>4, <3>5
  <2>5. OneInserted' /\ \A i \in Ids : Table(i)'
    BY <2>1, <2>2 DEF Inv, OneInserted, Table, Exists
  <2>6. QED
    BY <2>3, <2>4, <2>5 DEF Inv
<1>4. ASSUME NEW c \in Conns, GetSecret(c) PROVE Inv'
  <2>1. /\ pc[c] = "get_secret" /\ pc' = [pc EXCEPT ![c] = "insert"] /\ Goto(c, "insert")
        /\ UNCHANGED <<server, db_mutex, tables, maps, drawn, history>>
    BY <1>4 DEF GetSecret, Goto, At
  <2> DEFINE r == [local[c] EXCEPT !.otp_secret = user_secrets[local[c].id]]
  <2>2. user_secrets[local[c].id] \in Secrets
    BY <1>t DEF Inv, TypeOK
  <2>3. /\ r \in Locals /\ r.id = local[c].id /\ r.uri = local[c].uri
        /\ r.otp_secret = user_secrets[local[c].id] /\ r.success = local[c].success
    BY <1>t, <2>2, FieldsLemma
  <2>4. local' = [local EXCEPT ![c] = r]
    BY <1>4 DEF GetSecret
  <2> HIDE DEF r
  <2>5. /\ local' \in [Conns -> Locals] /\ local'[c] = r
        /\ \A d \in Conns \ {c} : local'[d] = local[d]
    BY <2>3, <2>4, <1>t
  <2>6. TypeOK'
    BY <2>1, <2>5, NothingAssumption DEF Inv, TypeOK, PcStates, Locked
  <2>7. Place(c)' /\ ~local'[c].success
    <3>1. pc'[c] = "insert" /\ ~local[c].success /\ Place(c)
      BY <2>1, <1>t DEF Inv, Inserted
    <3>2. local[c].uri # 0 /\ Own(c, user_secrets[local[c].id])
      BY <2>1, <3>1 DEF Place
    <3>3. Own(c, local[c].otp_secret)'
      BY <2>1, <2>3, <2>5, <3>2 DEF Own, Exists
    <3>4. QED
      BY <2>3, <2>5, <3>1, <3>2, <3>3 DEF Place
  <2>8. QED
    BY <2>1, <2>5, <2>6, <2>7, LocalStep DEF PcStates
<1>5. ASSUME NEW c \in Conns, InsertAccount(c) PROVE Inv'
  <2> DEFINE i == local[c].id
  <2>1. PICK done \in BOOLEAN :
          /\ insert_data_accounts(i, NewAccount(c), done)
          /\ local' = [local EXCEPT ![c].success = done]
          /\ IF done /\ local[c].use_otp THEN db_mutex' = c /\ Goto(c, "store_secret")
                                         ELSE db_mutex' = db_mutex /\ Goto(c, "answer")
    BY <1>5 DEF InsertAccount
  <2>2. /\ pc[c] = "insert" /\ db_mutex = Nobody
        /\ UNCHANGED <<server, recovery_codes, maps, drawn, history>>
    BY <1>5 DEF InsertAccount, At
  <2> DEFINE r == [local[c] EXCEPT !.success = done]
  <2>3. /\ r \in Locals /\ r.id = i /\ r.use_otp = local[c].use_otp
        /\ r.uri = local[c].uri /\ r.otp_secret = local[c].otp_secret /\ r.success = done
    BY <1>t, FieldsLemma
  <2>4. local' = [local EXCEPT ![c] = r]
    BY <2>1
  <2> HIDE DEF r
  <2>5. /\ local' \in [Conns -> Locals] /\ local'[c] = r
        /\ \A d \in Conns \ {c} : local'[d] = local[d]
    BY <2>3, <2>4, <1>t
  <2>6. i \in Ids /\ NewAccount(c) \in Rows /\ NewAccount(c) # NoAccount
    BY <1>t, NothingAssumption DEF NewAccount, Rows
  <2>7. /\ NewAccount(c).otp_secret = local[c].otp_secret
        /\ NewAccount(c).use_otp = local[c].use_otp
    BY DEF NewAccount
  <2>8. /\ ~local[c].success /\ Place(c)
        /\ \A d \in Conns : pc[d] \notin Locked
    BY <2>2, NothingAssumption DEF Inv, Inserted, TypeOK, PcStates
  <2>9. CASE ~done
    <3>1. Goto(c, "answer") /\ UNCHANGED <<accounts, db_mutex>>
      BY <2>1, <2>9 DEF insert_data_accounts
    <3>2. TypeOK'
      BY <2>2, <2>5, <3>1, NothingAssumption DEF Inv, TypeOK, PcStates, Locked, Goto
    <3>3. Place(c)' /\ ~local'[c].success
      BY <2>3, <2>5, <2>9, <3>1, <1>t DEF Place, Goto
    <3>4. QED
      BY <2>2, <2>5, <3>1, <3>2, <3>3, LocalStep DEF PcStates
  <2>10. CASE done
    <3>1. accounts[i] = NoAccount /\ accounts' = [accounts EXCEPT ![i] = NewAccount(c)]
      BY <2>1, <2>10 DEF insert_data_accounts
    <3>2. /\ accounts'[i] = NewAccount(c)
          /\ \A j \in Ids \ {i} : accounts'[j] = accounts[j]
          /\ accounts' \in [Ids -> Rows \cup {NoAccount}]
      BY <2>6, <3>1 DEF Inv, TypeOK
    <3>3. \/ local[c].use_otp /\ db_mutex' = c /\ pc' = [pc EXCEPT ![c] = "store_secret"]
          \/ ~local[c].use_otp /\ db_mutex' = Nobody /\ pc' = [pc EXCEPT ![c] = "answer"]
      BY <2>1, <2>2, <2>10 DEF Goto
    <3>4. given[i] = 0 /\ recovery_codes[i] = {} /\ redeemed[i] = {}
      BY <2>6, <3>1 DEF Inv, Table, Exists
    <3>5. \A d \in Conns \ {c} : local[d].success => local[d].id # i
      BY <3>1 DEF Inv, Inserted, Exists
    <3>6. TypeOK'
      BY <2>2, <2>5, <3>2, <3>3, NothingAssumption DEF Inv, TypeOK, PcStates, Locked
    <3>7. ASSUME NEW d \in Conns, d # c PROVE Place(d)' /\ Inserted(d)'
      <4>1. /\ Place(d) /\ Inserted(d) /\ local'[d] = local[d] /\ pc'[d] = pc[d]
            /\ local[d].success => local[d].id # i
            /\ local[d].id \in Ids
        BY <2>5, <3>3, <3>5, <3>7, <1>t DEF Inv, TypeOK
      <4>2. Exists(local[d].id) => Exists(local[d].id)'
        BY <2>6, <3>2, <4>1 DEF Exists
      <4>3. Place(d)'
        BY <2>2, <4>1, <4>2 DEF Place, Own
      <4>4. Inserted(d)'
        BY <2>2, <3>2, <4>1, <4>2 DEF Inserted
      <4>5. QED
        BY <4>3, <4>4
    <3>8. Place(c)'
      BY <2>2, <2>3, <2>5, <2>8, <2>10, <3>3, <3>4, <1>t DEF Place
    <3>9. Inserted(c)'
      <4>1. local[c].use_otp => local[c].otp_secret = local[c].uri \/ i \in overtaken
        BY <2>2, <2>8, <3>1 DEF Place, Own, Exists
      <4>2. pc'[c] \in {"store_secret", "answer"}
        BY <3>3, <1>t
      <4>3. QED
        BY <2>2, <2>3, <2>5, <2>6, <2>7, <3>2, <3>4, <4>1, <4>2 DEF Inserted, Exists
    <3>10. OneInserted'
      BY <2>3, <2>5, <3>5 DEF Inv, OneInserted
    <3>11. \A j \in Ids : Table(j)'
      BY <2>2, <2>6, <3>2, <3>4 DEF Inv, Table, Exists
    <3>12. QED
      BY <3>6, <3>7, <3>8, <3>9, <3>10, <3>11 DEF Inv
  <2>11. QED
    BY <2>9, <2>10
<1>6. ASSUME NEW c \in Conns, StoreSecret(c) PROVE Inv'
  <2>1. /\ pc[c] = "store_secret" /\ pc' = [pc EXCEPT ![c] = "store_codes"]
        /\ UNCHANGED <<server, local, db_mutex, recovery_codes, maps, drawn, history>>
    BY <1>6 DEF StoreSecret, Goto, At
  <2>2. accounts' = accounts
    BY <1>6, StoreLemma
  <2>3. TypeOK'
    BY <2>1, <2>2, <1>t, NothingAssumption DEF Inv, TypeOK, PcStates, Locked
  <2>4. ASSUME NEW d \in Conns, d # c PROVE Place(d)' /\ Inserted(d)'
    <3>1. pc'[d] = pc[d]
      BY <2>1, <2>4, <1>t
    <3>2. QED
      BY <2>1, <2>2, <3>1, OtherLemma
  <2>5. Place(c)' /\ Inserted(c)'
    <3>1. Place(c) /\ Inserted(c) /\ pc'[c] = "store_codes"
      BY <2>1, <1>t DEF Inv
    <3>2. QED
      BY <2>1, <2>2, <3>1 DEF Place, Inserted, Exists
  <2>6. OneInserted' /\ \A i \in Ids : Table(i)'
    BY <2>1, <2>2 DEF Inv, OneInserted, Table, Exists
  <2>7. QED
    BY <2>3, <2>4, <2>5, <2>6 DEF Inv
<1>7. ASSUME NEW c \in Conns, StoreCodes(c) PROVE Inv'
  <2> DEFINE i == local[c].id
  <2>1. /\ pc[c] = "store_codes" /\ pc' = [pc EXCEPT ![c] = "answer"] /\ Goto(c, "answer")
        /\ db_mutex' = Nobody
        /\ UNCHANGED <<server, accounts, maps, drawn, history>>
    BY <1>7 DEF StoreCodes, Goto, At
  <2>2. /\ i \in Ids /\ db_mutex = c /\ Place(c) /\ Inserted(c)
        /\ \A d \in Conns \ {c} : pc[d] \notin Locked
    BY <2>1, <1>t DEF Inv, TypeOK, Locked
  <2>3. CASE /\ recovery_codes' = [recovery_codes EXCEPT ![i] = @ \cup CodesOf(local[c].uri)]
             /\ UNCHANGED local
    <3>1. CodesOf(local[c].uri) \subseteq Codes
      BY <2>1, <2>2, <1>t, CodesLemma DEF Place
    <3>2. /\ recovery_codes' \in [Ids -> SUBSET Codes]
          /\ recovery_codes'[i] = recovery_codes[i] \cup CodesOf(local[c].uri)
          /\ \A j \in Ids \ {i} : recovery_codes'[j] = recovery_codes[j]
      BY <2>2, <2>3, <3>1 DEF Inv, TypeOK
    <3>3. /\ recovery_codes'[i] \subseteq CodesOf(local[c].uri) /\ redeemed[i] = {}
          /\ given[i] = 0 /\ Exists(i) /\ accounts[i].use_otp /\ local[c].success
      BY <2>1, <2>2, <3>2 DEF Place, Inserted
    <3>4. TypeOK'
      BY <2>1, <2>2, <2>3, <3>2, <1>t, NothingAssumption DEF Inv, TypeOK, PcStates, Locked
    <3>5. ASSUME NEW d \in Conns, d # c PROVE Place(d)' /\ Inserted(d)'
      <4>1. /\ local'[d] = local[d] /\ pc'[d] = pc[d]
            /\ pc[d] \notin Locked /\ local[d].id \in Ids
        BY <2>1, <2>2, <2>3, <3>5, <1>t
      <4>2. local[d].success => local[d].id # i
        BY <3>3, <3>5 DEF Inv, OneInserted
      <4>3. QED
        BY <2>1, <3>2, <4>1, <4>2, OtherLemma
    <3>6. Place(c)' /\ Inserted(c)'
      BY <2>1, <2>2, <2>3, <3>3, <1>t DEF Place, Inserted, Exists
    <3>7. OneInserted'
      BY <2>3 DEF Inv, OneInserted
    <3>8. \A j \in Ids : Table(j)'
      BY <2>1, <2>2, <3>2, <3>3 DEF Inv, Table, Exists
    <3>9. QED
      BY <3>4, <3>5, <3>6, <3>7, <3>8 DEF Inv
  <2>4. CASE UNCHANGED <<recovery_codes, local>>
    <3>1. TypeOK'
      BY <2>1, <2>2, <2>4, <1>t, NothingAssumption DEF Inv, TypeOK, PcStates, Locked
    <3>2. ASSUME NEW d \in Conns, d # c PROVE Place(d)' /\ Inserted(d)'
      <4>1. pc'[d] = pc[d]
        BY <2>1, <3>2, <1>t
      <4>2. QED
        BY <2>1, <2>4, <4>1, OtherLemma
    <3>3. Place(c)' /\ Inserted(c)'
      <4>1. Place(c) /\ Inserted(c) /\ pc'[c] = "answer"
        BY <2>1, <1>t DEF Inv
      <4>2. QED
        BY <2>1, <2>4, <4>1 DEF Place, Inserted, Exists
    <3>4. OneInserted' /\ \A j \in Ids : Table(j)'
      BY <2>1, <2>4 DEF Inv, OneInserted, Table, Exists
    <3>5. QED
      BY <3>1, <3>2, <3>3, <3>4 DEF Inv
  <2>5. CASE /\ local' = [local EXCEPT ![c].success = FALSE]
             /\ UNCHANGED recovery_codes
    <3> DEFINE r == [local[c] EXCEPT !.success = FALSE]
    <3>1. r \in Locals /\ r.success = FALSE
      BY <1>t, FieldsLemma
    <3>2. local' = [local EXCEPT ![c] = r] /\ UNCHANGED recovery_codes
      BY <2>5
    <3> HIDE DEF r
    <3>3. /\ local' \in [Conns -> Locals] /\ local'[c] = r
          /\ \A d \in Conns \ {c} : local'[d] = local[d]
      BY <3>1, <3>2, <1>t
    <3>4. TypeOK'
      BY <2>1, <2>2, <3>2, <3>3, NothingAssumption DEF Inv, TypeOK, PcStates, Locked
    <3>5. Place(c)' /\ ~local'[c].success
      BY <2>1, <3>1, <3>3, <1>t DEF Place
    <3>6. QED
      BY <2>1, <3>2, <3>3, <3>4, <3>5, LocalStep DEF PcStates
  <2>6. QED
    BY <1>7, <2>3, <2>4, <2>5 DEF StoreCodes, store_recovery_codes
<1>8. ASSUME NEW c \in Conns, AnswerSignup(c) PROVE Inv'
  <2> DEFINE i == local[c].id
  <2>1. /\ pc[c] = "answer" /\ pc' = [pc EXCEPT ![c] = "idle"] /\ Goto(c, "idle")
        /\ local' = [local EXCEPT ![c] = Idle]
        /\ given' = [given EXCEPT ![i] = IF local[c].success /\ local[c].use_otp
                                         THEN local[c].uri ELSE @]
        /\ UNCHANGED <<server, db_mutex, tables, maps, drawn, loaded, redeemed, left_valid,
                       overtaken>>
    BY <1>8 DEF AnswerSignup, Return, Goto, At
  <2>2. /\ local' \in [Conns -> Locals] /\ local'[c] = Idle
        /\ \A d \in Conns \ {c} : local'[d] = local[d]
    BY <2>1, <1>t, IdleLemma
  <2>3. given' \in [Ids -> Secrets] /\ \A j \in Ids \ {i} : given'[j] = given[j]
    BY <2>1, <1>t DEF Inv, TypeOK
  <2>4. TypeOK'
    BY <2>1, <2>2, <2>3, NothingAssumption DEF Inv, TypeOK, PcStates, Locked
  <2>5. Place(c)' /\ ~local'[c].success
    BY <2>1, <2>2, <1>t, IdleLemma DEF Place
  <2>6. CASE ~(local[c].success /\ local[c].use_otp)
    <3>1. given' = given
      BY <2>1, <2>6, <1>t DEF Inv, TypeOK
    <3>2. QED
      BY <2>1, <2>2, <2>4, <2>5, <3>1, LocalStep DEF PcStates
  <2>7. CASE local[c].success /\ local[c].use_otp
    <3>1. given'[i] = local[c].uri
      BY <2>1, <2>7, <1>t DEF Inv, TypeOK
    <3>2. /\ Exists(i)
          /\ accounts[i].otp_secret = local[c].uri \/ i \in overtaken
          /\ recovery_codes[i] \subseteq CodesOf(local[c].uri)
      BY <2>7 DEF Inv, Inserted
    <3>3. ASSUME NEW d \in Conns, d # c PROVE Place(d)' /\ Inserted(d)'
      <4>1. local'[d] = local[d] /\ pc'[d] = pc[d] /\ local[d].id \in Ids
        BY <2>1, <2>2, <3>3, <1>t
      <4>2. local[d].success => local[d].id # i
        BY <2>7, <3>3 DEF Inv, OneInserted
      <4>3. QED
        BY <2>1, <2>3, <4>1, <4>2, OtherLemma
    <3>4. Inserted(c)'
      BY <2>5 DEF Inserted
    <3>5. OneInserted'
      BY <2>2, <2>5 DEF Inv, OneInserted
    <3>6. \A j \in Ids : Table(j)'
      BY <2>1, <2>3, <3>1, <3>2 DEF Inv, Table, Exists
    <3>7. QED
      BY <2>4, <2>5, <3>3, <3>4, <3>5, <3>6 DEF Inv
  <2>8. QED
    BY <2>6, <2>7
<1>9. ASSUME NEW c \in Conns, LoginStep1(c) PROVE Inv'
  <2>1. PICK i \in Ids : /\ accounts[i] # NoAccount
                         /\ local' = [local EXCEPT ![c] = [Idle EXCEPT !.id = i,
                                        !.otp_secret = accounts[i].otp_secret]]
    BY <1>9 DEF LoginStep1, get_account_by_id
  <2>2. /\ pc[c] = "idle" /\ pc' = [pc EXCEPT ![c] = "register"] /\ Goto(c, "register")
        /\ UNCHANGED <<server, db_mutex, tables, maps, drawn, history>>
    BY <1>9 DEF LoginStep1, Goto, At
  <2> DEFINE r == [Idle EXCEPT !.id = i, !.otp_secret = accounts[i].otp_secret]
  <2>3. accounts[i].otp_secret \in Secrets
    BY <2>1 DEF Inv, TypeOK, Rows
  <2>4. r \in Locals /\ r.id = i /\ r.success = FALSE
    BY <2>3, LoginLocals, ZenonT(60)
  <2>5. local' = [local EXCEPT ![c] = r]
    BY <2>1
  <2> HIDE DEF r
  <2>6. /\ local' \in [Conns -> Locals] /\ local'[c] = r
        /\ \A d \in Conns \ {c} : local'[d] = local[d]
    BY <2>4, <2>5, <1>t
  <2>7. TypeOK'
    BY <2>2, <2>6, NothingAssumption DEF Inv, TypeOK, PcStates, Locked
  <2>8. Place(c)' /\ ~local'[c].success
    BY <2>1, <2>2, <2>4, <2>6, <1>t DEF Place, Exists
  <2>9. QED
    BY <2>2, <2>6, <2>7, <2>8, LocalStep DEF PcStates
<1>10. ASSUME NEW c \in Conns, RegisterOtp(c) PROVE Inv'
  <2>1. /\ pc[c] = "register" /\ pc' = [pc EXCEPT ![c] = "registered"] /\ Goto(c, "registered")
        /\ UNCHANGED <<server, local, db_mutex, tables, user_secrets, drawn, given, redeemed,
                       left_valid, overtaken>>
    BY <1>10 DEF RegisterOtp, Goto, At
  <2>2. user_otps' \in [Ids -> Secrets] /\ loaded' \subseteq Ids
    BY <1>10, <1>t DEF RegisterOtp, Inv, TypeOK
  <2>3. TypeOK'
    BY <2>1, <2>2, NothingAssumption DEF Inv, TypeOK, PcStates, Locked
  <2>4. Place(c)' /\ ~local'[c].success
    BY <2>1, <1>t DEF Inv, Place, Inserted, Exists
  <2>5. QED
    BY <2>1, <2>3, <2>4, LocalStep DEF PcStates
<1>11. ASSUME NEW c \in Conns, RegisterSecret(c) PROVE Inv'
  <2>1. /\ pc[c] = "registered" /\ pc' = [pc EXCEPT ![c] = "idle"]
        /\ local' = [local EXCEPT ![c] = Idle]
        /\ user_secrets' = [user_secrets EXCEPT ![local[c].id] = local[c].otp_secret]
        /\ UNCHANGED <<server, db_mutex, tables, user_otps, drawn, history>>
    BY <1>11 DEF RegisterSecret, Return, Goto, At
  <2>2. /\ local' \in [Conns -> Locals] /\ local'[c] = Idle
        /\ \A d \in Conns \ {c} : local'[d] = local[d]
    BY <2>1, <1>t, IdleLemma
  <2>3. user_secrets' \in [Ids -> Secrets] /\ Exists(local[c].id)
    BY <2>1, <1>t DEF Inv, TypeOK, Place
  <2>4. TypeOK'
    BY <2>1, <2>2, <2>3, NothingAssumption DEF Inv, TypeOK, PcStates, Locked
  <2>5. ASSUME NEW d \in Conns, d # c PROVE Place(d)' /\ Inserted(d)'
    <3>1. local'[d] = local[d] /\ pc'[d] = pc[d]
      BY <2>1, <2>2, <2>5, <1>t
    <3>2. user_secrets'[local[d].id] = user_secrets[local[d].id] \/ Exists(local[d].id)
      BY <2>1, <2>3, <1>t DEF Inv, TypeOK
    <3>3. QED
      BY <2>1, <3>1, <3>2, OtherLemma
  <2>6. Place(c)' /\ ~local'[c].success
    BY <2>1, <2>2, <1>t, IdleLemma DEF Place
  <2>7. Inserted(c)' /\ OneInserted'
    BY <2>2, <2>6 DEF Inv, Inserted, OneInserted
  <2>8. \A j \in Ids : Table(j)'
    BY <2>1 DEF Inv, Table, Exists
  <2>9. QED
    BY <2>4, <2>5, <2>6, <2>7, <2>8 DEF Inv
<1>12. ASSUME NEW c \in Conns, LoginOtp(c) PROVE Inv'
  <2>1. PICK i \in Ids : local' = [local EXCEPT ![c] = [Idle EXCEPT !.id = i]]
    BY <1>12 DEF LoginOtp
  <2>2. /\ pc[c] = "idle" /\ pc' = [pc EXCEPT ![c] = "verify_otp"] /\ Goto(c, "verify_otp")
        /\ UNCHANGED <<server, db_mutex, tables, maps, drawn, history>>
    BY <1>12 DEF LoginOtp, Goto, At
  <2> DEFINE r == [Idle EXCEPT !.id = i]
  <2>3. r \in Locals /\ r.success = FALSE
    BY IdleLemma, FieldsLemma
  <2>4. local' = [local EXCEPT ![c] = r]
    BY <2>1
  <2> HIDE DEF r
  <2>5. /\ local' \in [Conns -> Locals] /\ local'[c] = r
        /\ \A d \in Conns \ {c} : local'[d] = local[d]
    BY <2>3, <2>4, <1>t
  <2>6. TypeOK'
    BY <2>2, <2>5, NothingAssumption DEF Inv, TypeOK, PcStates, Locked
  <2>7. Place(c)' /\ ~local'[c].success
    BY <2>2, <2>3, <2>5, <1>t DEF Place
  <2>8. QED
    BY <2>2, <2>5, <2>6, <2>7, LocalStep DEF PcStates
<1>13. ASSUME NEW c \in Conns, VerifyOtp(c) PROVE Inv'
  <2>1. /\ pc[c] = "verify_otp" /\ pc' = [pc EXCEPT ![c] = "idle"] /\ Goto(c, "idle")
        /\ local' = [local EXCEPT ![c] = Idle]
        /\ UNCHANGED <<server, db_mutex, tables, maps, drawn, history>>
    BY <1>13 DEF VerifyOtp, Return, Goto, At
  <2>2. /\ local' \in [Conns -> Locals] /\ local'[c] = Idle
        /\ \A d \in Conns \ {c} : local'[d] = local[d]
    BY <2>1, <1>t, IdleLemma
  <2>3. TypeOK'
    BY <2>1, <2>2, NothingAssumption DEF Inv, TypeOK, PcStates, Locked
  <2>4. Place(c)' /\ ~local'[c].success
    BY <2>1, <2>2, <1>t, IdleLemma DEF Place
  <2>5. QED
    BY <2>1, <2>2, <2>3, <2>4, LocalStep DEF PcStates
<1>14. ASSUME NEW c \in Conns, LoginCode(c) PROVE Inv'
  <2>1. PICK i \in Ids, input \in Codes :
          /\ input \in recovery_codes[i]
          /\ local' = [local EXCEPT ![c] = [Idle EXCEPT !.id = i, !.code = input]]
    BY <1>14 DEF LoginCode, verify_recovery_code, get_hashed_recovery_codes
  <2>2. /\ pc[c] = "idle" /\ pc' = [pc EXCEPT ![c] = "invalidate"] /\ Goto(c, "invalidate")
        /\ db_mutex = Nobody /\ db_mutex' = c
        /\ UNCHANGED <<server, tables, maps, drawn, history>>
    BY <1>14 DEF LoginCode, Goto, At
  <2> DEFINE r == [Idle EXCEPT !.id = i, !.code = input]
  <2>3. r \in Locals /\ r.id = i /\ r.success = FALSE /\ r.code = input
    BY CodeLocals, Zenon
  <2>4. local' = [local EXCEPT ![c] = r]
    BY <2>1
  <2> HIDE DEF r
  <2>5. /\ local' \in [Conns -> Locals] /\ local'[c] = r
        /\ \A d \in Conns \ {c} : local'[d] = local[d]
    BY <2>3, <2>4, <1>t
  <2>6. TypeOK'
    BY <2>2, <2>5, NothingAssumption DEF Inv, TypeOK, PcStates, Locked
  <2>7. Place(c)' /\ ~local'[c].success
    BY <2>1, <2>2, <2>3, <2>5, <1>t DEF Place
  <2>8. QED
    BY <2>2, <2>5, <2>6, <2>7, LocalStep DEF PcStates
<1>15. ASSUME NEW c \in Conns, InvalidateCode(c) PROVE Inv'
  <2> DEFINE i == local[c].id
             code == local[c].code
  <2>1. /\ pc[c] = "invalidate" /\ pc' = [pc EXCEPT ![c] = "idle"]
        /\ local' = [local EXCEPT ![c] = Idle]
        /\ db_mutex' = Nobody
        /\ redeemed' = [redeemed EXCEPT ![i] = @ \cup {code}]
        /\ UNCHANGED <<server, accounts, maps, drawn, given, loaded, overtaken>>
    BY <1>15 DEF InvalidateCode, Return, Goto, At
  <2>2. PICK done \in BOOLEAN :
          /\ invalidate_recovery_code(i, code, done)
          /\ left_valid' = [left_valid EXCEPT ![i] = IF done THEN @ ELSE @ \cup {code}]
    BY <1>15 DEF InvalidateCode
  <2>3. /\ i \in Ids /\ db_mutex = c /\ code \in recovery_codes[i] /\ code \in Codes
        /\ \A d \in Conns \ {c} : pc[d] \notin Locked
    BY <2>1, <1>t DEF Inv, TypeOK, Locked, Place
  <2>4. /\ local' \in [Conns -> Locals] /\ local'[c] = Idle
        /\ \A d \in Conns \ {c} : local'[d] = local[d]
    BY <2>1, <1>t, IdleLemma
  <2>5. /\ redeemed' \in [Ids -> SUBSET Codes] /\ left_valid' \in [Ids -> SUBSET Codes]
        /\ redeemed'[i] = redeemed[i] \cup {code}
        /\ left_valid'[i] = IF done THEN left_valid[i] ELSE left_valid[i] \cup {code}
        /\ \A j \in Ids \ {i} : redeemed'[j] = redeemed[j] /\ left_valid'[j] = left_valid[j]
    BY <2>1, <2>2, <2>3 DEF Inv, TypeOK
  <2>6. /\ recovery_codes' \in [Ids -> SUBSET Codes]
        /\ recovery_codes'[i] = IF done THEN recovery_codes[i] \ {code} ELSE recovery_codes[i]
        /\ \A j \in Ids \ {i} : recovery_codes'[j] = recovery_codes[j]
    <3>1. recovery_codes \in [Ids -> SUBSET Codes]
      BY DEF Inv, TypeOK
    <3>2. CASE done
      BY <2>2, <2>3, <3>1, <3>2 DEF invalidate_recovery_code
    <3>3. CASE ~done
      BY <2>2, <3>1, <3>3 DEF invalidate_recovery_code
    <3>4. QED
      BY <3>2, <3>3
  <2>7. TypeOK'
    <3>1. pc' \in [Conns -> PcStates] /\ \A d \in Conns : pc'[d] \notin Locked
      BY <2>1, <2>3, <1>t DEF PcStates, Locked
    <3>2. /\ local' \in [Conns -> Locals] /\ recovery_codes' \in [Ids -> SUBSET Codes]
          /\ redeemed' \in [Ids -> SUBSET Codes] /\ left_valid' \in [Ids -> SUBSET Codes]
      BY <2>4, <2>5, <2>6
    <3>3. /\ db_mutex' = Nobody
          /\ UNCHANGED <<server, accounts, maps, drawn, given, loaded, overtaken>>
      BY <2>1
    <3>4. QED
      BY <3>1, <3>2, <3>3, NothingAssumption DEF Inv, TypeOK
  <2>8. ASSUME NEW d \in Conns, d # c PROVE Place(d)' /\ Inserted(d)'
    <3>1. /\ local'[d] = local[d] /\ pc'[d] = pc[d]
          /\ pc[d] \notin Locked /\ local[d].id \in Ids
      BY <2>1, <2>3, <2>4, <2>8, <1>t
    <3>2. recovery_codes'[local[d].id] \subseteq recovery_codes[local[d].id]
      BY <2>6, <3>1
    <3>3. QED
      BY <2>1, <3>1, <3>2, OtherLemma
  <2>9. Place(c)' /\ ~local'[c].success
    BY <2>1, <2>4, <1>t, IdleLemma DEF Place
  <2>10. Inserted(c)' /\ OneInserted'
    BY <2>4, <2>9 DEF Inv, Inserted, OneInserted
  <2>11. \A j \in Ids : Table(j)'
    <3>1. ASSUME NEW j \in Ids PROVE Table(j) /\ (Exists(j)' <=> Exists(j))
      BY <2>1 DEF Inv, Exists
    <3>2. ASSUME NEW j \in Ids, j = i PROVE Table(j)'
      <4>1. /\ recovery_codes'[j] \subseteq recovery_codes[j] /\ given'[j] = given[j]
            /\ accounts'[j] = accounts[j] /\ overtaken' = overtaken /\ recovery_codes[j] # {}
        BY <2>1, <2>3, <2>6, <3>2
      <4>2. redeemed'[j] \cap recovery_codes'[j] \subseteq left_valid'[j]
        <5>1. redeemed[j] \cap recovery_codes[j] \subseteq left_valid[j]
          BY <3>1 DEF Table
        <5>2. /\ redeemed'[j] = redeemed[j] \cup {code}
              /\ \/ recovery_codes'[j] = recovery_codes[j] \ {code} /\ left_valid'[j] = left_valid[j]
                 \/ recovery_codes'[j] = recovery_codes[j] /\ left_valid'[j] = left_valid[j] \cup {code}
          BY <2>5, <2>6, <3>2
        <5> HIDE DEF code
        <5>3. QED
          BY <5>1, <5>2
      <4>3. QED
        BY <3>1, <4>1, <4>2 DEF Table
    <3>3. ASSUME NEW j \in Ids, j # i PROVE Table(j)'
      BY <2>1, <2>5, <2>6, <3>1, <3>3 DEF Table
    <3>4. QED
      BY <3>2, <3>3
  <2>12. QED
    BY <2>7, <2>8, <2>9, <2>10, <2>11 DEF Inv
<1>16. CASE MapsRace
  <2>1. TypeOK'
    BY <1>16 DEF MapsRace, Inv, TypeOK
  <2>2. \A d \in Conns : Place(d)' /\ Inserted(d)'
    BY <1>16, OtherLemma DEF MapsRace
  <2>3. OneInserted' /\ \A i \in Ids : Table(i)'
    BY <1>16 DEF MapsRace, Inv, OneInserted, Table, Exists
  <2>4. QED
    BY <2>1, <2>2, <2>3 DEF Inv
<1>17. CASE Restart
  <2>1. /\ pc' = [c \in Conns |-> "idle"] /\ local' = [c \in Conns |-> Idle]
        /\ db_mutex' = Nobody /\ user_otps' = [i \in Ids |-> 0]
        /\ user_secrets' = [i \in Ids |-> 0] /\ loaded' = {}
        /\ UNCHANGED <<server, tables, drawn, given, redeemed, left_valid, overtaken>>
    BY <1>17 DEF Restart
  <2>2. TypeOK'
    BY <2>1, <1>t, IdleLemma, NothingAssumption DEF Inv, TypeOK, PcStates, Locked
  <2>3. \A c \in Conns : Place(c)' /\ Inserted(c)'
    BY <2>1, IdleLemma DEF Place, Inserted
  <2>4. OneInserted' /\ \A i \in Ids : Table(i)'
    BY <2>1, IdleLemma DEF Inv, OneInserted, Table, Exists
  <2>5. QED
    BY <2>2, <2>3, <2>4 DEF Inv
<1>18. CASE UNCHANGED vars
  <2>1. TypeOK'
    BY <1>18 DEF vars, Inv, TypeOK
  <2>2. \A d \in Conns : Place(d)' /\ Inserted(d)'
    BY <1>18, OtherLemma DEF vars
  <2>3. OneInserted' /\ \A i \in Ids : Table(i)'
    BY <1>18 DEF vars, Inv, OneInserted, Table, Exists
  <2>4. QED
    BY <2>1, <2>2, <2>3 DEF Inv
<1>19. QED
  BY <1>1, <1>2, <1>3, <1>4, <1>5, <1>6, <1>7, <1>8, <1>9, <1>10, <1>11, <1>12, <1>13,
     <1>14, <1>15, <1>16, <1>17, <1>18 DEF Next, Step

\* Inv holds at every moment.
LEMMA InvAlways == Spec => []Inv
<1>1. Init => Inv
  <2> SUFFICES ASSUME Init PROVE Inv
    OBVIOUS
  <2>1. TypeOK
    BY IdleLemma, CountsAssumption, NothingAssumption DEF Init, TypeOK, PcStates, Locked, Secrets
  <2>2. QED
    BY <2>1, IdleLemma DEF Init, Inv, Place, Inserted, OneInserted, Table
<1>2. QED
  BY <1>1, InvStep, PTL DEF Spec

-----------------------------------------------------------------------------

\* db_mutex is held exactly while a handler is inside a critical section of several
\* statements: handle_signup_request and handle_login_step2_request give it back on
\* every way out, and no two connections are inside at once.
THEOREM TypeCorrect == Spec => []TypeOK
BY InvAlways, PTL DEF Inv

\* However many clients sign up for one id at once, whatever statement fails and
\* whenever the process restarts: a success of handle_signup_request that a client
\* was told of is stored, with its secret unless that sign-up was overtaken.
THEOREM SignupOtpAlwaysStored == Spec => []SignupOtpStored
<1>1. Inv => SignupOtpStored
  BY DEF Inv, Table, SignupOtpStored, Exists
<1>2. QED
  BY <1>1, InvAlways, PTL

\* The recovery codes of an account are never those of two sign-ups, and never
\* without an account: the INSERT that fails for all but one of them decides.
THEOREM CodesAlwaysOfOneSignup == Spec => []CodesOfOneSignup
<1>1. Inv => CodesOfOneSignup
  BY DEF Inv, Table, CodesOfOneSignup, Exists
<1>2. QED
  BY <1>1, InvAlways, PTL

\* A recovery code logs in once, however many clients send it at the same time,
\* unless the UPDATE of invalidate_recovery_code failed: verifying and invalidating
\* are one critical section of db_mutex.
THEOREM CodesAlwaysSingleUse == Spec => []CodesSingleUse
<1>1. Inv => CodesSingleUse
  <2> SUFFICES ASSUME Inv, NEW c \in Conns, pc[c] = "invalidate",
                      local[c].code \in redeemed[local[c].id]
               PROVE  local[c].code \in left_valid[local[c].id]
    BY DEF CodesSingleUse
  <2>1. local[c].id \in Ids /\ local[c].code \in recovery_codes[local[c].id]
    BY DEF Inv, TypeOK, Locals, Place
  <2>2. QED
    BY <2>1 DEF Inv, Table
<1>2. QED
  BY <1>1, InvAlways, PTL

\* No step of any connection, and no restart, changes or removes the row of an
\* account: a second insert_data_accounts fails, and store_otp_secret writes what is
\* there already.
THEOREM AccountsAlwaysPermanent == Spec => AccountsPermanent
<1>1. ASSUME Inv, [Next]_vars
      PROVE  [\A i \in Ids : accounts[i] # NoAccount => accounts'[i] = accounts[i]]_vars
  <2>1. ASSUME NEW c \in Conns, InsertAccount(c)
        PROVE  \A i \in Ids : accounts[i] # NoAccount => accounts'[i] = accounts[i]
    BY <1>1, <2>1 DEF InsertAccount, insert_data_accounts, Inv, TypeOK
  <2>2. ASSUME NEW c \in Conns, StoreSecret(c) PROVE UNCHANGED accounts
    BY <1>1, <2>2, StoreLemma
  <2>3. ASSUME NEW c \in Conns, Step(c), ~InsertAccount(c), ~StoreSecret(c)
        PROVE  UNCHANGED accounts
    BY <2>3 DEF Step, tables, Signup, GenerateOtp, KeepSecret, GetSecret, StoreCodes,
                AnswerSignup, LoginStep1, RegisterOtp, RegisterSecret, LoginOtp, VerifyOtp,
                LoginCode, InvalidateCode
  <2>4. ASSUME MapsRace \/ Restart PROVE UNCHANGED accounts
    BY <2>4 DEF MapsRace, Restart, tables
  <2>5. QED
    BY <1>1, <2>1, <2>2, <2>3, <2>4 DEF Next
<1>2. QED
  BY <1>1, InvAlways, PTL DEF Spec, AccountsPermanent

=============================================================================
