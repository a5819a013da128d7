------------------------------ MODULE AIConfig ------------------------------
(***************************************************************************)
(* api/routers/ai_config.py, src/ai/crypto.py and src/ai/factory.py: the   *)
(* language-model provider an NGO has configured, its API key and the key  *)
(* it is encrypted with.                                                   *)
(*                                                                         *)
(* The encryption key is a global of each process, set at its first use;   *)
(* the threads of the process share it without a lock.  The processes (the *)
(* Dockerfile starts two) share the database only.  Provider, model and    *)
(* base URL are left out: nothing depends on them but what the provider    *)
(* answers.                                                                *)
(***************************************************************************)
EXTENDS Requests

CONSTANTS
    ApiKey,        \* API keys of users
    Process,       \* worker processes
    Deployments,   \* ways to deploy: which process runs each thread, and whether
                   \* GRANTSETU_ENCRYPTION_KEY is set
    MaxRestarts    \* bound of the number of restarts

VARIABLES
    deployment,    \* the one chosen
    config,        \* ai_provider_configs: the row of each NGO, or None
    fernet,        \* _fernet of each process
    keys,          \* how many keys each process has generated
    born,          \* those of them from before its last restart
    restarts,
    raced,         \* history: two first uses overlapped since the last restart
    tested,        \* history: the key that the last result written was about
    crossed        \* history: see Commit

keyVars == <<deployment, fernet, keys, born, restarts, raced>>
aiVars == <<keyVars, config, tested, crossed>>

Home(w) == deployment.home[w]
EnvKey == deployment.env_key

AIConfigInit ==
    /\ deployment \in Deployments
    /\ config = [n \in Ngo |-> None]
    /\ fernet = [p \in Process |-> None]
    /\ keys = [p \in Process |-> 0] /\ born = keys
    /\ restarts = 0
    /\ raced = [p \in Process |-> FALSE]
    /\ tested = [n \in Ngo |-> None]
    /\ crossed = [n \in Ngo |-> FALSE]

-----------------------------------------------------------------------------
(* _get_fernet, of which a request goes through the stages                 *)
(* "crypt" (is there a key?), "make" (there is none), "use".               *)

(* Mutant: no look at _fernet. *)
LookForKeyAlways(w) ==
    /\ thread[w].pc = "crypt"
    /\ Continue(w, [thread[w] EXCEPT !.pc = "make"])
    /\ UNCHANGED <<profile, aiVars>>

LookForKey(w) ==
    /\ thread[w].pc = "crypt"
    /\ Continue(w, [thread[w] EXCEPT !.pc = IF fernet[Home(w)] = None THEN "make" ELSE "use"])
    /\ UNCHANGED <<profile, aiVars>>

(* Generated keys are random: those of two processes differ. *)
FromEnvironment == [maker |-> "environment", number |-> 0]
Generated(p, k) == [maker |-> p, number |-> k]

MakeKey(w) ==
    LET p == Home(w)
    IN  /\ thread[w].pc = "make"
        /\ keys' = IF EnvKey THEN keys ELSE [keys EXCEPT ![p] = @ + 1]
        /\ fernet' = [fernet EXCEPT ![p] = IF EnvKey THEN FromEnvironment
                                           ELSE Generated(p, keys[p] + 1)]
        /\ raced' = [raced EXCEPT ![p] =
              @ \/ \E v \in Worker \ {w} : thread[v].pc = "make" /\ Home(v) = p]
        /\ Continue(w, [thread[w] EXCEPT !.pc = "use"])
        /\ UNCHANGED <<profile, deployment, config, born, restarts, tested, crossed>>

-----------------------------------------------------------------------------
(* set_ai_config, update_ai_config, delete_ai_config                       *)

(* No two ciphertexts are equal, whatever their text and key. *)
Cipher(w, text) == [under |-> fernet[Home(w)], text |-> text, nonce |-> <<w, calls>>]

(* A request first loads its row. *)
Load(w, n, request) ==
    /\ profile[n] # None
    /\ Begin(w, [request EXCEPT !.ngo = n, !.loaded = config[n], !.new = config[n]])
    /\ UNCHANGED <<profile, aiVars>>

Request(op, pc) == [op |-> op, pc |-> pc, ngo |-> None, loaded |-> None, new |-> None,
                    api_key |-> None, is_enabled |-> None]

SetAIConfig(w, n, k, enabled) ==
    Load(w, n, [Request("put", "crypt") EXCEPT !.api_key = k, !.is_enabled = enabled])

PutRow(w) ==
    /\ thread[w].pc = "use" /\ thread[w].op = "put"
    /\ Continue(w, [thread[w] EXCEPT !.pc = "write",
          !.new = [api_key |-> Cipher(w, thread[w].api_key), is_enabled |-> thread[w].is_enabled,
                   last_test_status |-> "untested", last_test_message |-> None,
                   last_tested_at |-> FALSE]])
    /\ UNCHANGED <<profile, aiVars>>

UpdateAIConfig(w, n, k, enabled) ==
    /\ config[n] # None
    /\ Load(w, n, [Request("patch", IF k = None THEN "patch" ELSE "crypt") EXCEPT
                      !.api_key = k, !.is_enabled = enabled])

Enabled(w) == IF thread[w].is_enabled = None THEN thread[w].loaded.is_enabled
              ELSE thread[w].is_enabled

(* Mutant: the result of the last test is kept. *)
PatchRowTested(w) ==
    /\ \/ thread[w].pc = "use" /\ thread[w].op = "patch"
       \/ thread[w].pc = "patch"
    /\ Continue(w, [thread[w] EXCEPT !.pc = "write",
          !.new = [@ EXCEPT !.is_enabled = Enabled(w),
                            !.api_key = IF thread[w].api_key = None THEN @
                                        ELSE Cipher(w, thread[w].api_key)]])
    /\ UNCHANGED <<profile, aiVars>>

(* Only the status of the last test is reset by a new key, not its message *)
(* and its date.                                                           *)
PatchRow(w) ==
    /\ \/ thread[w].pc = "use" /\ thread[w].op = "patch"
       \/ thread[w].pc = "patch"
    /\ Continue(w, [thread[w] EXCEPT !.pc = "write",
          !.new = IF thread[w].api_key = None THEN [@ EXCEPT !.is_enabled = Enabled(w)]
                  ELSE [@ EXCEPT !.is_enabled = Enabled(w),
                                 !.api_key = Cipher(w, thread[w].api_key),
                                 !.last_test_status = "untested"]])
    /\ UNCHANGED <<profile, aiVars>>

Result(row) == <<row.api_key, row.last_test_status>>

(* A row that was not there is inserted, which the primary key refuses if  *)
(* another request has; an update of a row that is gone fails too.         *)
(* History: a commit that writes the key or the result is crossed if one   *)
(* of the two is not what it had loaded.                                   *)
Commit(w) ==
    LET n == thread[w].ngo
        loaded == thread[w].loaded
        new == thread[w].new
        updates == loaded # None /\ config[n] # None
    IN  /\ thread[w].pc = "write"
        /\ config' = [config EXCEPT ![n] = IF updates THEN Written(@, loaded, new)
                                           ELSE IF loaded = None /\ @ = None THEN new
                                           ELSE @]
        /\ tested' = [tested EXCEPT ![n] =
              IF updates /\ thread[w].op = "test" /\ new.last_test_status # loaded.last_test_status
              THEN loaded.api_key ELSE @]
        /\ crossed' = [crossed EXCEPT ![n] =
              IF updates /\ Result(new) # Result(loaded) THEN Result(config[n]) # Result(loaded)
              ELSE @]
        /\ End(w)
        /\ UNCHANGED <<profile, keyVars>>

DeleteAIConfig(w, n) ==
    /\ config[n] # None
    /\ Load(w, n, Request("delete", "delete"))

DeleteCommit(w) ==
    /\ thread[w].pc = "delete"
    /\ config' = [config EXCEPT ![thread[w].ngo] = None]
    /\ End(w)
    /\ UNCHANGED <<profile, keyVars, tested, crossed>>

-----------------------------------------------------------------------------
(* test_ai_config                                                          *)

TestAIConfig(w, n) ==
    /\ config[n] # None
    /\ Load(w, n, Request("test", "crypt"))

Opens(p, cipher) == cipher.under = fernet[p]

(* decrypt_api_key, and the call of the provider with what it returns.     *)
CallProvider(w, ok) ==
    /\ thread[w].pc = "use" /\ thread[w].op = "test"
    /\ Continue(w, [thread[w] EXCEPT !.pc = "write",
          !.new = IF Opens(Home(w), @.api_key)
                  THEN [@ EXCEPT !.last_test_status = IF ok THEN "ok" ELSE "failed",
                                 !.last_test_message = IF ok THEN "connected" ELSE "refused",
                                 !.last_tested_at = TRUE]
                  ELSE [@ EXCEPT !.last_test_status = "failed",
                                 !.last_test_message = "undecryptable"]])
    /\ UNCHANGED <<profile, aiVars>>

-----------------------------------------------------------------------------
(* A process is restarted: its requests end and its key is forgotten.      *)
Restart(p) ==
    /\ restarts < MaxRestarts
    /\ restarts' = restarts + 1
    /\ fernet' = [fernet EXCEPT ![p] = None]
    /\ born' = [born EXCEPT ![p] = keys[p]]
    /\ raced' = [raced EXCEPT ![p] = FALSE]
    /\ thread' = [w \in Worker |-> IF Home(w) = p THEN Idle ELSE thread[w]]
    /\ UNCHANGED <<profile, calls, deployment, config, keys, tested, crossed>>

AIConfigNext ==
    \/ \E w \in Worker, n \in Ngo :
          \/ \E k \in ApiKey, e \in BOOLEAN : SetAIConfig(w, n, k, e)
          \/ \E k \in ApiKey \cup {None}, e \in BOOLEAN \cup {None} : UpdateAIConfig(w, n, k, e)
          \/ DeleteAIConfig(w, n) \/ TestAIConfig(w, n)
    \/ \E w \in Worker : \/ LookForKey(w) \/ MakeKey(w) \/ PutRow(w) \/ PatchRow(w)
                         \/ \E ok \in BOOLEAN : CallProvider(w, ok)
                         \/ Commit(w) \/ DeleteCommit(w)
    \/ \E p \in Process : Restart(p)

-----------------------------------------------------------------------------
(* A process reads the keys that it has stored as long as it runs, and     *)
(* every key if GRANTSETU_ENCRYPTION_KEY is set.  Without, it does not     *)
(* read what another process stored, what it stored before its last        *)
(* restart, or when two first uses overlapped and each made a key.         *)
StoredKeyOpens ==
    \A n \in Ngo, p \in Process : (config[n] # None /\ fernet[p] # None) =>
        LET under == config[n].api_key.under
        IN  \/ Opens(p, config[n].api_key)
            \/ ~EnvKey /\ (under.maker # p \/ under.number <= born[p] \/ raced[p])

(* The result that the frontend shows ("Connected and working") is of the  *)
(* stored key, unless a commit that wrote one of the two found the row     *)
(* changed since it was loaded: a test that answers after the key was      *)
(* replaced, or a new key whose request had loaded the row before a test   *)
(* committed.                                                              *)
Shown(n) == config[n] # None /\ config[n].last_test_status # "untested"

ResultOfStoredKey == \A n \in Ngo : Shown(n) => tested[n] = config[n].api_key \/ crossed[n]

(* What frontend/index.html:2751 says of a row whose status is "ok",       *)
(* "Connected and working": the stored key is the one that was tried.  A   *)
(* test that overlaps a replacement of the key refutes it.                 *)
WorkingKeyWasTried ==
    \A n \in Ngo : (Shown(n) /\ config[n].last_test_status = "ok") =>
        tested[n] # None /\ tested[n].text = config[n].api_key.text

(* What src/ai/crypto.py:14-18 says of a run without a configured key: one *)
(* key, used for that run, and lost by a restart.  Two processes refute    *)
(* it, with no restart and no race.                                        *)
OneKeyPerRun ==
    restarts = 0 => \A n \in Ngo, p \in Process :
        (config[n] # None /\ fernet[p] # None) => Opens(p, config[n].api_key)

=============================================================================
