------------------------------- MODULE EnvVault -------------------------------
(***************************************************************************)
(* The encrypted vault (backend/m055_env_vault.rs), the migration tool     *)
(* (backend/src/bin/env-migrate.rs) and what the server takes from the     *)
(* vault when it starts (main.rs).                                         *)
(*                                                                         *)
(* The vault is one file, read and rewritten as a whole, without a lock;   *)
(* a write truncates it first.  The key of the cipher comes from the       *)
(* password and from the salt in the file, so a vault that was created     *)
(* anew cannot be read through an older handle.  A vault is its salt and   *)
(* its secrets; anything else in the file cannot be parsed.                *)
(***************************************************************************)
EXTENDS Naturals, Sequences, SequencesExt, TLC

CONSTANTS
  Holders,      \* processes with a handle on the vault
  SecretKeys,   \* names of secrets, PRIVATE_KEY among them
  SecretValues,
  Dotenv,       \* the .env file: a value or NoValue for each key
  NoValue,
  MaxVaults,    \* bound: vaults created
  MaxSets       \* bound: calls of set_secret

ASSUME VaultAssumption ==
  /\ "PRIVATE_KEY" \in SecretKeys /\ "none" \notin SecretKeys /\ IsFiniteSet(SecretKeys)
  /\ NoValue \notin SecretValues
  /\ Dotenv \in [SecretKeys -> SecretValues \union {NoValue}]

VARIABLES
  file,      \* the vault's file
  salts,     \* vaults created so far; the last one's salt
  holder,    \* each handle: closed, or its salt and where it is
  sets,      \* calls of set_secret so far
  server,    \* the server's start
  env,       \* the server's environment
  signer,    \* the key the server signs with
  acked,     \* history: what callers were told is in the last vault
  stored,    \* history: <<key, value>> pairs ever written to a vault
  disrupted  \* history: a write was overtaken, cut off, or over another file

vaultVars == <<file, salts, holder, sets, server, env, signer, acked, stored, disrupted>>

NoFile   == [is |-> "absent"]
Garbage  == [is |-> "garbage"]
Vault(salt, secrets) == [is |-> "vault", salt |-> salt, secrets |-> secrets]

Empty  == [k \in SecretKeys |-> NoValue]
Closed == [at |-> "closed"]

VaultInit ==
  /\ file = NoFile /\ salts = 0
  /\ holder = [h \in Holders |-> Closed]
  /\ sets = 0
  /\ server = [at |-> "down"] /\ env = Dotenv /\ signer = NoValue
  /\ acked = Empty /\ stored = {} /\ disrupted = FALSE

serverVars == <<server, env, signer>>

Readable(salt) == file.is = "vault" /\ file.salt = salt

-----------------------------------------------------------------------------
(* create makes a salt and writes an empty vault, whatever the file was;     *)
(* migrate_dotenv_to_vault goes on with the keys of .env that look like      *)
(* secrets.                                                                  *)
Create(h, todo) ==
  /\ holder[h] = Closed /\ salts < MaxVaults
  /\ salts' = salts + 1
  /\ holder' = [holder EXCEPT ![h] =
       [at |-> "truncate", salt |-> salts + 1, next |-> Empty, key |-> "none", todo |-> todo]]
  /\ disrupted' = (disrupted \/ file # NoFile)
  /\ UNCHANGED <<file, sets, acked, stored, serverVars>>

(* open; a file that is no vault, or the wrong password, leaves no handle. *)
Open(h) ==
  /\ holder[h] = Closed /\ file.is = "vault"
  /\ holder' = [holder EXCEPT ![h] = [at |-> "idle", salt |-> file.salt, todo |-> <<>>]]
  /\ UNCHANGED <<file, salts, sets, acked, stored, disrupted, serverVars>>

(* set_secret reads and decrypts the whole vault ... *)
ReadForSet(h, k, v, todo) ==
  /\ holder[h].at = "idle" /\ sets < MaxSets
  /\ Readable(holder[h].salt)
  /\ sets' = sets + 1
  /\ holder' = [holder EXCEPT ![h] =
       [at |-> "truncate", salt |-> file.salt, next |-> [file.secrets EXCEPT ![k] = v],
        key |-> k, todo |-> todo]]
  /\ UNCHANGED <<file, salts, acked, stored, disrupted, serverVars>>

SetSecret(h, k, v) ==
  /\ holder[h].at = "idle" /\ holder[h].todo = <<>>
  /\ ReadForSet(h, k, v, <<>>)

MigrateNext(h) ==
  /\ holder[h].at = "idle" /\ holder[h].todo # <<>>
  /\ ReadForSet(h, Head(holder[h].todo), Dotenv[Head(holder[h].todo)], Tail(holder[h].todo))

(* ... and writes it: the file is truncated and then filled.  A read that is *)
(* older than the last write writes that one's secret away.                  *)
Overtakes(h) ==
  \/ file.is = "garbage"
  \/ /\ file.is = "vault"
     /\ \/ file.salt # holder[h].salt
        \/ \E k \in SecretKeys \ {holder[h].key} : file.secrets[k] # holder[h].next[k]

Truncate(h) ==
  /\ holder[h].at = "truncate"
  /\ disrupted' = (disrupted \/ Overtakes(h))
  /\ file' = Garbage
  /\ holder' = [holder EXCEPT ![h].at = "fill"]
  /\ UNCHANGED <<salts, sets, acked, stored, serverVars>>

Fill(h) ==
  LET r == holder[h]
  IN /\ r.at = "fill"
     /\ file' = Vault(r.salt, r.next)
     /\ acked' = IF r.key = "none" THEN Empty ELSE [acked EXCEPT ![r.key] = r.next[r.key]]
     /\ stored' = stored \union {<<k, r.next[k]>> : k \in {x \in SecretKeys : r.next[x] # NoValue}}
     /\ holder' = [holder EXCEPT ![h] = [at |-> "idle", salt |-> r.salt, todo |-> r.todo]]
     /\ UNCHANGED <<salts, sets, disrupted, serverVars>>

(* A handle is given up at any point, between the two halves of a write too. *)
Stop(h) ==
  /\ holder[h] # Closed
  /\ disrupted' = (disrupted \/ holder[h].at = "fill")
  /\ holder' = [holder EXCEPT ![h] = Closed]
  /\ UNCHANGED <<file, salts, sets, acked, stored, serverVars>>

(* env-migrate has a vault of its own: it appends lines in clear, and the    *)
(* result is a vault for nobody.                                             *)
EnvMigrate ==
  /\ \E k \in SecretKeys : Dotenv[k] # NoValue
  /\ file' = Garbage
  /\ disrupted' = TRUE
  /\ UNCHANGED <<salts, holder, sets, acked, stored, serverVars>>

-----------------------------------------------------------------------------
(* The server's start.  main reads .env, opens the vault and loads it into   *)
(* the environment; the server's state then opens it again, loads it again   *)
(* and takes the key.  Each of these reads the file.  ALLBRIGHT_VAULT_PATH   *)
(* is set: without it the two look for different files.                      *)
ServerStarts(password) ==
  /\ server.at \in {"down", "up"}
  /\ server' = [at |-> "started", password |-> password]
  /\ env' = Dotenv /\ signer' = NoValue
  /\ UNCHANGED <<file, salts, holder, sets, acked, stored, disrupted>>

Opens == file.is = "vault" /\ server.password

OpenEarly ==
  /\ server.at = "started"
  /\ server' = IF Opens THEN [server EXCEPT !.at = "early"] @@ [salt |-> file.salt]
                        ELSE [server EXCEPT !.at = "main"]
  /\ UNCHANGED <<file, salts, holder, sets, env, signer, acked, stored, disrupted>>

(* load_to_env; a failure is a warning. *)
LoadedEnv(salt) ==
  IF Readable(salt)
  THEN [k \in SecretKeys |-> IF file.secrets[k] # NoValue THEN file.secrets[k] ELSE env[k]]
  ELSE env

LoadEarly ==
  /\ server.at = "early"
  /\ env' = LoadedEnv(server.salt)
  /\ server' = [at |-> "main", password |-> server.password]
  /\ UNCHANGED <<file, salts, holder, sets, signer, acked, stored, disrupted>>

(* Without a vault the key is the environment's, which main may have loaded. *)
OpenForState ==
  /\ server.at = "main"
  /\ IF Opens
     THEN server' = [at |-> "opened", salt |-> file.salt] /\ UNCHANGED signer
     ELSE server' = [at |-> "up", vault |-> FALSE] /\ signer' = env["PRIVATE_KEY"]
  /\ UNCHANGED <<file, salts, holder, sets, env, acked, stored, disrupted>>

LoadToEnv ==
  /\ server.at = "opened"
  /\ env' = LoadedEnv(server.salt)
  /\ server' = [at |-> "loaded", salt |-> server.salt]
  /\ UNCHANGED <<file, salts, holder, sets, signer, acked, stored, disrupted>>

(* Mutant: a key the vault does not give is taken from the environment. *)
TakeKeyOrFallBack ==
  /\ server.at = "loaded"
  /\ signer' = IF Readable(server.salt) /\ file.secrets["PRIVATE_KEY"] # NoValue
               THEN file.secrets["PRIVATE_KEY"] ELSE env["PRIVATE_KEY"]
  /\ server' = [at |-> "up", vault |-> TRUE]
  /\ UNCHANGED <<file, salts, holder, sets, env, acked, stored, disrupted>>

(* With a vault the key is the vault's or none. *)
TakeKey ==
  /\ server.at = "loaded"
  /\ signer' = IF Readable(server.salt) THEN file.secrets["PRIVATE_KEY"] ELSE NoValue
  /\ server' = [at |-> "up", vault |-> TRUE]
  /\ UNCHANGED <<file, salts, holder, sets, env, acked, stored, disrupted>>

Migratable == SetToSeq({k \in SecretKeys : Dotenv[k] # NoValue})

VaultNext ==
  \/ \E h \in Holders :
       \/ \E todo \in {<<>>, Migratable} : Create(h, todo)
       \/ Open(h)
       \/ \E k \in SecretKeys, v \in SecretValues : SetSecret(h, k, v)
       \/ MigrateNext(h) \/ Truncate(h) \/ Fill(h) \/ Stop(h)
  \/ EnvMigrate
  \/ \E password \in BOOLEAN : ServerStarts(password)
  \/ OpenEarly \/ LoadEarly \/ OpenForState \/ LoadToEnv \/ TakeKey

VaultSpec == VaultInit /\ [][VaultNext]_vaultVars

-----------------------------------------------------------------------------
VaultTypeOK ==
  /\ file.is \in {"absent", "garbage", "vault"}
  /\ file.is = "vault" => file.salt \in 1..salts
  /\ \A h \in Holders : holder[h].at \in {"closed", "idle", "truncate", "fill"}
  /\ env \in [SecretKeys -> SecretValues \union {NoValue}]

(* As long as no write was overtaken, cut off or made over another file, the *)
(* vault holds exactly what its callers were told, by whichever handle.      *)
AcknowledgedIsStored == ~disrupted /\ file.is = "vault" => file.secrets = acked

(* A server whose vault opened signs with a key that was in a vault, or with *)
(* none, and never with the key of .env; without a vault it may have either. *)
(* Its environment has nothing but stored secrets and .env.                  *)
SignerHasSource ==
  /\ signer # NoValue =>
       \/ <<"PRIVATE_KEY", signer>> \in stored
       \/ server.at = "up" /\ ~server.vault /\ signer = Dotenv["PRIVATE_KEY"]
  /\ \A k \in SecretKeys : env[k] # Dotenv[k] => <<k, env[k]>> \in stored

(* Both. *)
VaultSound == VaultTypeOK /\ AcknowledgedIsStored /\ SignerHasSource
=============================================================================
