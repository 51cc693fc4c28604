------------------------------ MODULE Accounts -------------------------------
(***************************************************************************)
(* Sign-up and login: handle_signup_request, handle_login_step1_request    *)
(* and handle_login_step2_request, with the accounts and recovery_codes    *)
(* tables and the OTPManager that all connections share.                   *)
(*                                                                         *)
(* The tables are used under db_mutex and survive a restart; the maps of   *)
(* the OTPManager are used under no lock and do not.  Statements commit    *)
(* one by one (only store_recovery_codes is a transaction), so the process *)
(* can stop between any two.  A secret is a number, drawn once; the codes  *)
(* generated by the same sign-up carry the same number.  Passwords, hashes *)
(* and one-time passwords are abstracted to whether they match.            *)
(***************************************************************************)
EXTENDS Naturals, FiniteSets

CONSTANTS
  Conns,        \* connections that sign up or log in
  Ids,          \* account ids
  MaxSignups,   \* bound on the sign-ups that generate a secret
  NumCodes,     \* recovery codes of one sign-up (5 in the code)
  Faults,       \* the database and hashing failures that can happen
  Nobody,       \* no connection
  NoAccount     \* no row

ASSUME CountsAssumption == MaxSignups \in Nat /\ NumCodes \in Nat

ASSUME FaultsAssumption == Faults \subseteq {"insert", "hash", "codes", "invalidate"}

Secrets == 0..MaxSignups   \* 0 is the empty string

Rows == [otp_secret : Secrets, use_otp : BOOLEAN]

ASSUME NothingAssumption == Nobody \notin Conns /\ NoAccount \notin Rows /\ Ids # {}

VARIABLES
  server,           \* "up", or "undefined" after a data race on the maps
  pc,               \* where the handler of a connection is
  local,            \* the locals of that handler
  db_mutex,         \* the connection that holds it, or Nobody
  accounts,         \* the table accounts, by id
  recovery_codes,   \* the unused rows of the table recovery_codes, by id
  user_otps,        \* OTPManager: the secret of the TOTP object of an id; 0: none
  user_secrets,     \* OTPManager: likewise
  drawn,            \* secrets drawn so far
  given,            \* what the answer to the successful sign-up of an id held
  loaded,           \* ids whose OTP a login has loaded since the last restart
  redeemed,         \* codes that have logged in, by id
  left_valid,       \* those of them whose invalidation failed
  overtaken         \* ids with two sign-ups between generating and reading

tables == <<accounts, recovery_codes>>
maps == <<user_otps, user_secrets>>
history == <<given, loaded, redeemed, left_valid, overtaken>>

vars == <<server, pc, local, db_mutex, tables, maps, drawn, history>>

Codes == (1..MaxSignups) \X (1..NumCodes)

CodesOf(secret) == {secret} \X (1..NumCodes)

NoCode == <<0, 0>>

Idle == [id |-> CHOOSE i \in Ids : TRUE, use_otp |-> FALSE, uri |-> 0,
         otp_secret |-> 0, success |-> FALSE, code |-> NoCode]

Init ==
  /\ server = "up"
  /\ pc = [c \in Conns |-> "idle"]
  /\ local = [c \in Conns |-> Idle]
  /\ db_mutex = Nobody
  /\ accounts = [i \in Ids |-> NoAccount]
  /\ recovery_codes = [i \in Ids |-> {}]
  /\ user_otps = [i \in Ids |-> 0]
  /\ user_secrets = [i \in Ids |-> 0]
  /\ drawn = 0
  /\ given = [i \in Ids |-> 0]
  /\ loaded = {}
  /\ redeemed = [i \in Ids |-> {}]
  /\ left_valid = [i \in Ids |-> {}]
  /\ overtaken = {}

At(c, here) == pc[c] = here

Goto(c, there) == pc' = [pc EXCEPT ![c] = there]

\* The end of a request: the locals are gone.
Return(c) == Goto(c, "idle") /\ local' = [local EXCEPT ![c] = Idle]

-----------------------------------------------------------------------------
(* Request 9: sign-up.                                                     *)

\* The password is hashed; when that fails nothing has happened.
Signup(c) ==
  /\ At(c, "idle")
  /\ \E i \in Ids, use_otp \in BOOLEAN :
       /\ use_otp => drawn < MaxSignups
       /\ local' = [local EXCEPT ![c] = [Idle EXCEPT !.id = i, !.use_otp = use_otp]]
       /\ Goto(c, IF use_otp THEN "generate" ELSE "insert")
  /\ UNCHANGED <<server, db_mutex, tables, maps, drawn, history>>

\* generate_otp_uri: a random secret goes into user_otps ...
GenerateOtp(c) ==
  /\ At(c, "generate")
  /\ drawn < MaxSignups
  /\ drawn' = drawn + 1
  /\ local' = [local EXCEPT ![c].uri = drawn + 1]
  /\ user_otps' = [user_otps EXCEPT ![local[c].id] = drawn + 1]
  /\ Goto(c, "generated")
  /\ UNCHANGED <<server, db_mutex, tables, user_secrets, history>>

\* Mutant: the secret is not kept.
SecretNotKept(c) ==
  /\ At(c, "generated")
  /\ Goto(c, "get_secret")
  /\ UNCHANGED <<server, local, db_mutex, tables, maps, drawn, history>>

\* ... and then into user_secrets.
KeepSecret(c) ==
  /\ At(c, "generated")
  /\ user_secrets' = [user_secrets EXCEPT ![local[c].id] = local[c].uri]
  /\ overtaken' = overtaken \cup
       {local[d].id : d \in {d \in Conns \ {c} : /\ pc[d] = "get_secret"
                                                 /\ local[d].id = local[c].id}}
  /\ Goto(c, "get_secret")
  /\ UNCHANGED <<server, local, db_mutex, tables, user_otps, drawn, given, loaded,
                 redeemed, left_valid>>

\* get_secret, the QR code and the recovery codes.
GetSecret(c) ==
  /\ At(c, "get_secret")
  /\ local' = [local EXCEPT ![c].otp_secret = user_secrets[local[c].id]]
  /\ Goto(c, "insert")
  /\ UNCHANGED <<server, db_mutex, tables, maps, drawn, history>>

NewAccount(c) == [otp_secret |-> local[c].otp_secret, use_otp |-> local[c].use_otp]

\* Mutant: INSERT OR REPLACE.
insert_or_replace(i, account, done) ==
  done /\ accounts' = [accounts EXCEPT ![i] = account]

\* The id is the primary key; a statement that throws is caught.
insert_data_accounts(i, account, done) ==
  \/ /\ done
     /\ accounts[i] = NoAccount
     /\ accounts' = [accounts EXCEPT ![i] = account]
  \/ /\ ~done
     /\ accounts[i] # NoAccount \/ "insert" \in Faults
     /\ UNCHANGED accounts

\* Mutant: the result of insert_data_accounts is not looked at.
InsertUnchecked(c) ==
  /\ At(c, "insert")
  /\ db_mutex = Nobody
  /\ \E done \in BOOLEAN : insert_data_accounts(local[c].id, NewAccount(c), done)
  /\ local' = [local EXCEPT ![c].success = TRUE]
  /\ IF local[c].use_otp THEN db_mutex' = c /\ Goto(c, "store_codes")
                         ELSE db_mutex' = db_mutex /\ Goto(c, "answer")
  /\ UNCHANGED <<server, recovery_codes, maps, drawn, history>>

\* The row is inserted under the lock, which is kept when the secret and the
\* codes are to follow.
InsertAccount(c) ==
  /\ At(c, "insert")
  /\ db_mutex = Nobody
  /\ \E done \in BOOLEAN :
       /\ insert_data_accounts(local[c].id, NewAccount(c), done)
       /\ local' = [local EXCEPT ![c].success = done]
       /\ IF done /\ local[c].use_otp THEN db_mutex' = c /\ Goto(c, "store_secret")
                                      ELSE db_mutex' = db_mutex /\ Goto(c, "answer")
  /\ UNCHANGED <<server, recovery_codes, maps, drawn, history>>

\* store_otp_secret writes the secret the row already has, or fails.
StoreSecret(c) ==
  /\ At(c, "store_secret")
  /\ accounts' = [accounts EXCEPT ![local[c].id].otp_secret = local[c].otp_secret]
  /\ Goto(c, "store_codes")
  /\ UNCHANGED <<server, local, db_mutex, recovery_codes, maps, drawn, history>>

\* One transaction: all codes or, when a statement throws, none.
store_recovery_codes(i, codes) ==
  \/ recovery_codes' = [recovery_codes EXCEPT ![i] = @ \cup codes]
  \/ "codes" \in Faults /\ UNCHANGED recovery_codes

\* hash_password throws for one of the codes.
hash_recovery_codes_throws == "hash" \in Faults

\* Mutant: an exception leaves the lock taken.
StoreCodesKeepsLock(c) ==
  /\ At(c, "store_codes")
  /\ \/ /\ store_recovery_codes(local[c].id, CodesOf(local[c].uri))
        /\ db_mutex' = Nobody
        /\ UNCHANGED local
     \/ /\ hash_recovery_codes_throws
        /\ local' = [local EXCEPT ![c].success = FALSE]
        /\ UNCHANGED <<db_mutex, recovery_codes>>
  /\ Goto(c, "answer")
  /\ UNCHANGED <<server, accounts, maps, drawn, history>>

\* When hash_recovery_codes throws the answer will be a failure; the result of
\* store_recovery_codes is not looked at.
StoreCodes(c) ==
  /\ At(c, "store_codes")
  /\ \/ /\ store_recovery_codes(local[c].id, CodesOf(local[c].uri))
        /\ UNCHANGED local
     \/ /\ hash_recovery_codes_throws
        /\ local' = [local EXCEPT ![c].success = FALSE]
        /\ UNCHANGED recovery_codes
  /\ db_mutex' = Nobody
  /\ Goto(c, "answer")
  /\ UNCHANGED <<server, accounts, maps, drawn, history>>

\* The answer; after a success with OTP it holds the URI and the codes.
AnswerSignup(c) ==
  /\ At(c, "answer")
  /\ given' = [given EXCEPT ![local[c].id] = IF local[c].success /\ local[c].use_otp
                                             THEN local[c].uri ELSE @]
  /\ Return(c)
  /\ UNCHANGED <<server, db_mutex, tables, maps, drawn, loaded, redeemed, left_valid,
                 overtaken>>

-----------------------------------------------------------------------------
(* Request 8: the first step of a login.                                   *)

\* The row of an id, or NoAccount for the null pointer.
get_account_by_id(i) == accounts[i]

\* The row is read under the lock, the password matches and the account has a
\* secret; in every other case the answer is all there is.
LoginStep1(c) ==
  /\ At(c, "idle")
  /\ db_mutex = Nobody
  /\ \E i \in Ids :
       LET account == get_account_by_id(i) IN
       /\ account # NoAccount
       /\ account.otp_secret # 0
       /\ local' = [local EXCEPT ![c] = [Idle EXCEPT !.id = i,
                                                     !.otp_secret = account.otp_secret]]
  /\ Goto(c, "register")
  /\ UNCHANGED <<server, db_mutex, tables, maps, drawn, history>>

\* register_otp sets the TOTP object ...
RegisterOtp(c) ==
  /\ At(c, "register")
  /\ user_otps' = [user_otps EXCEPT ![local[c].id] = local[c].otp_secret]
  /\ loaded' = loaded \cup {local[c].id}
  /\ Goto(c, "registered")
  /\ UNCHANGED <<server, local, db_mutex, tables, user_secrets, drawn, given, redeemed,
                 left_valid, overtaken>>

\* ... and then the secret; the answer says whether an OTP is required.
RegisterSecret(c) ==
  /\ At(c, "registered")
  /\ user_secrets' = [user_secrets EXCEPT ![local[c].id] = local[c].otp_secret]
  /\ Return(c)
  /\ UNCHANGED <<server, db_mutex, tables, user_otps, drawn, history>>

-----------------------------------------------------------------------------
(* Request 22: the second step, which does not depend on the first.        *)

\* Six digits: the TOTP object of the id is looked up and decides.
LoginOtp(c) ==
  /\ At(c, "idle")
  /\ \E i \in Ids : local' = [local EXCEPT ![c] = [Idle EXCEPT !.id = i]]
  /\ Goto(c, "verify_otp")
  /\ UNCHANGED <<server, db_mutex, tables, maps, drawn, history>>

VerifyOtp(c) ==
  /\ At(c, "verify_otp")
  /\ Return(c)
  /\ UNCHANGED <<server, db_mutex, tables, maps, drawn, history>>

\* The codes of an id that are not used.
get_hashed_recovery_codes(i) == recovery_codes[i]

verify_recovery_code(i, input) == input \in get_hashed_recovery_codes(i)

\* UPDATE ... SET used = 1 for the code that matches, or a statement that throws.
invalidate_recovery_code(i, input, done) ==
  \/ done /\ recovery_codes' = [recovery_codes EXCEPT ![i] = @ \ {input}]
  \/ ~done /\ "invalidate" \in Faults /\ UNCHANGED recovery_codes

\* Mutant: the lock is given up between verifying and invalidating.
LoginCodeUnlocks(c) ==
  /\ At(c, "idle")
  /\ db_mutex = Nobody
  /\ \E i \in Ids, input \in Codes :
       /\ verify_recovery_code(i, input)
       /\ local' = [local EXCEPT ![c] = [Idle EXCEPT !.id = i, !.code = input]]
  /\ Goto(c, "invalidate")
  /\ UNCHANGED <<server, db_mutex, tables, maps, drawn, history>>

\* Anything else: verify_recovery_code, under the lock.  A code that is not
\* among the unused ones is refused and nothing changes.
LoginCode(c) ==
  /\ At(c, "idle")
  /\ db_mutex = Nobody
  /\ \E i \in Ids, input \in Codes :
       /\ verify_recovery_code(i, input)
       /\ local' = [local EXCEPT ![c] = [Idle EXCEPT !.id = i, !.code = input]]
  /\ db_mutex' = c
  /\ Goto(c, "invalidate")
  /\ UNCHANGED <<server, tables, maps, drawn, history>>

\* The result of invalidate_recovery_code is not looked at: the answer is a
\* success that says the code has been invalidated.
InvalidateCode(c) ==
  /\ At(c, "invalidate")
  /\ LET i == local[c].id
         code == local[c].code
     IN  /\ \E done \in BOOLEAN :
              /\ invalidate_recovery_code(i, code, done)
              /\ left_valid' = [left_valid EXCEPT ![i] = IF done THEN @ ELSE @ \cup {code}]
         /\ redeemed' = [redeemed EXCEPT ![i] = @ \cup {code}]
  /\ db_mutex' = Nobody
  /\ Return(c)
  /\ UNCHANGED <<server, accounts, maps, drawn, given, loaded, overtaken>>

-----------------------------------------------------------------------------

\* The next access of a connection to the unordered_maps, which have no lock.
MapWriters == {"generate", "generated", "register", "registered"}
MapReaders == {"get_secret", "verify_otp"}

\* Two threads are at the maps and one of them writes: a data race.
MapsRace ==
  /\ \E c \in Conns : \E d \in Conns \ {c} :
       pc[c] \in MapWriters /\ pc[d] \in MapWriters \cup MapReaders
  /\ server' = "undefined"
  /\ UNCHANGED <<pc, local, db_mutex, tables, maps, drawn, history>>

\* The process stops and is started again: only the tables are left.
Restart ==
  /\ pc' = [c \in Conns |-> "idle"]
  /\ local' = [c \in Conns |-> Idle]
  /\ db_mutex' = Nobody
  /\ user_otps' = [i \in Ids |-> 0]
  /\ user_secrets' = [i \in Ids |-> 0]
  /\ loaded' = {}
  /\ UNCHANGED <<server, tables, drawn, given, redeemed,
                 left_valid, overtaken>>

Step(c) ==
  \/ Signup(c) \/ GenerateOtp(c) \/ KeepSecret(c) \/ GetSecret(c)
  \/ InsertAccount(c) \/ StoreSecret(c) \/ StoreCodes(c) \/ AnswerSignup(c)
  \/ LoginStep1(c) \/ RegisterOtp(c) \/ RegisterSecret(c)
  \/ LoginOtp(c) \/ VerifyOtp(c) \/ LoginCode(c) \/ InvalidateCode(c)

Next ==
  /\ server = "up"
  /\ MapsRace \/ Restart \/ \E c \in Conns : Step(c)

Spec == Init /\ [][Next]_vars

-----------------------------------------------------------------------------
(* Properties.                                                             *)

PcStates ==
  {"idle", "generate", "generated", "get_secret", "insert", "store_secret",
   "store_codes", "answer", "register", "registered", "verify_otp", "invalidate"}

Locals ==
  [id : Ids, use_otp : BOOLEAN, uri : Secrets, otp_secret : Secrets,
   success : BOOLEAN, code : Codes \cup {NoCode}]

\* The handlers' critical sections of db_mutex that take several statements.
Locked == {"store_secret", "store_codes", "invalidate"}

\* Every variable has its type, and db_mutex is held by the handler that is
\* inside a critical section: every way out, the exception of
\* hash_recovery_codes included, gives it back.
TypeOK ==
  /\ server \in {"up", "undefined"}
  /\ pc \in [Conns -> PcStates]
  /\ local \in [Conns -> Locals]
  /\ db_mutex \in Conns \cup {Nobody}
  /\ \A c \in Conns : db_mutex = c <=> pc[c] \in Locked
  /\ accounts \in [Ids -> Rows \cup {NoAccount}]
  /\ recovery_codes \in [Ids -> SUBSET Codes]
  /\ user_otps \in [Ids -> Secrets]
  /\ user_secrets \in [Ids -> Secrets]
  /\ drawn \in Secrets
  /\ given \in [Ids -> Secrets]
  /\ loaded \subseteq Ids
  /\ redeemed \in [Ids -> SUBSET Codes]
  /\ left_valid \in [Ids -> SUBSET Codes]
  /\ overtaken \subseteq Ids

\* An account, once inserted, keeps its row: no later sign-up for the same id,
\* login or restart changes its secret or removes it.
AccountsPermanent ==
  [][\A i \in Ids : accounts[i] # NoAccount => accounts'[i] = accounts[i]]_vars

\* When handle_signup_request has answered with a success, the stored secret is
\* the one of the URI and the QR code it answered with, unless a second
\* sign-up for the same id stored its secret in the OTPManager between this
\* one's generate_otp_uri and its get_secret.
SignupOtpStored ==
  \A i \in Ids : given[i] # 0
                   => /\ accounts[i] # NoAccount
                      /\ accounts[i].otp_secret = given[i] \/ i \in overtaken

\* SQLite does not enforce the FOREIGN KEY of recovery_codes unless told to:
\* handle_signup_request keeps it, also when a statement fails, and the codes that
\* can log in to an account are among those of the sign-up that was answered with
\* a success, however many others ran beside it.
CodesOfOneSignup ==
  \A i \in Ids :
    /\ recovery_codes[i] # {} => accounts[i] # NoAccount /\ accounts[i].use_otp
    /\ given[i] # 0 => recovery_codes[i] \subseteq CodesOf(given[i])

\* No recovery code is accepted a second time, unless its invalidation failed:
\* of two clients that send the same code at the same time one is refused.
CodesSingleUse ==
  \A c \in Conns : pc[c] = "invalidate" /\ local[c].code \in redeemed[local[c].id]
                     => local[c].code \in left_valid[local[c].id]

\* handle_login_step1_request, after "create the OTP object (load the secret
\* from the DB)", asks the client for a one-time password: the object that
\* will verify it has the secret of the account.
LoadedOtpIsStored ==
  \A i \in loaded : user_otps[i] = accounts[i].otp_secret

=============================================================================
