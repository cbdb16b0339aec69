--------------------------- MODULE SecureAggregation ---------------------------
(***************************************************************************)
(* One secure aggregation (one handle, a train round): the SSAServer or    *)
(* SSASimpleServer of the coordinator, an SSAClient or SSASimpleClient at  *)
(* the agent of each client, and the SSAProtector in its training script.  *)
(*                                                                         *)
(* A value is what is left of the masks in it: how often the generator     *)
(* seeded with b of a client, and with the agreement of two clients, was   *)
(* added. The total the server returns must hold none. Messages may be     *)
(* lost, and arrive in any order; a timer that is armed may fire at any    *)
(* time. A handler of the event loop never suspends before it has sent its *)
(* messages, and is one action.                                            *)
(***************************************************************************)
EXTENDS Integers, FiniteSets

CONSTANTS
  Client,         \* the ids of the clients, which are compared
  client_num,     \* clients the server waits for; shares a secret is split into
  min_client_num, \* shares that recover a secret: threshold of secure_algorithm
  threshold,      \* updates after which the round is decrypted: threshold_client_num
  MaxLost         \* bound on messages lost

\* What coordinator/validations.py lets through.
ASSUME SSAAssumption ==
  /\ Client \subseteq Nat /\ IsFiniteSet(Client)
  /\ client_num \in Nat /\ min_client_num \in Nat /\ threshold \in Nat /\ MaxLost \in Nat
  /\ 2 <= min_client_num /\ min_client_num <= threshold /\ threshold <= client_num

VARIABLES
  mode,   \* the algorithm of the job: one mask, or two
  server, \* the fields of the server
  client, \* the fields of each client, and of its script
  total,  \* _total_data
  net,    \* messages under way
  lost    \* how many were lost

ssaVars == <<mode, server, client, total, net, lost>>

Mode == {"doublemask", "onemask"}
Double == mode = "doublemask"

\* ProtocolStage of common.py; a client has none before it starts.
Stage == {"none", "ExchangePublicKey", "ExchangeEncryptedShare", "CiphertextAggregate",
          "DecryptResult"}

\* The agreement of two clients is one seed, named with the greater id first.
Pair == {p \in Client \X Client : p[1] > p[2]}
Masks == [b : [Client -> Int], s : [Pair -> Int]]
NoMask == [b |-> [c \in Client |-> 0], s |-> [p \in Pair |-> 0]]

Message ==
  [type : {"public_key"}, from : Client]
  \cup [type : {"public_keys"}, to : Client, keys : SUBSET Client]
  \cup [type : {"encrypted_shares"}, from : Client]
  \cup [type : {"shares"}, to : Client, peers : SUBSET Client]
  \cup [type : {"update"}, from : Client]
  \cup [type : {"alive"}, to : Client, alive : SUBSET Client]
  \cup [type : {"secrets"}, from : Client, b : SUBSET Client, s : SUBSET Client]

PublicKey(c) == [type |-> "public_key", from |-> c]
PublicKeys(c, K) == [type |-> "public_keys", to |-> c, keys |-> K]
EncryptedShares(c) == [type |-> "encrypted_shares", from |-> c]
Shares(c, P) == [type |-> "shares", to |-> c, peers |-> P]
Update(c) == [type |-> "update", from |-> c]
Alive(c, A) == [type |-> "alive", to |-> c, alive |-> A]
Secrets(c, B, S) == [type |-> "secrets", from |-> c, b |-> B, s |-> S]

\* registered: ssa_controller forwards to the handler. wait: the aggregate
\* timer. ready: mask_ready_event. b and s: who has reported a share of a secret.
Server ==
  [stage : Stage, registered : BOOLEAN, error : BOOLEAN, wait : BOOLEAN, ready : BOOLEAN,
   keys : SUBSET Client, shares : SUBSET Client, results : SUBSET Client,
   secrets : SUBSET Client, b : [Client -> SUBSET Client], s : [Client -> SUBSET Client],
   decrypt : {"none", "waits", "done", "failed"}]

\* peers: whose masks are in s_uv_s. file: the secrets are in the workspace.
\* wait: the aggregate timer. held: an alive message waits for the task to finish.
ClientState ==
  [stage : Stage, registered : BOOLEAN, wait : BOOLEAN, keys : SUBSET Client,
   peers : SUBSET Client, file : {"none", "there", "used"}, held : BOOLEAN,
   alive : SUBSET Client]

SSATypeOK ==
  /\ mode \in Mode /\ server \in Server /\ client \in [Client -> ClientState]
  /\ total \in Masks /\ net \subseteq Message /\ lost \in Nat

\* SSAServer.__init__ and initialize.
NewServer ==
  [stage |-> "ExchangePublicKey", registered |-> TRUE, error |-> FALSE, wait |-> TRUE,
   ready |-> FALSE, keys |-> {}, shares |-> {}, results |-> {}, secrets |-> {},
   b |-> [c \in Client |-> {}], s |-> [c \in Client |-> {}], decrypt |-> "none"]
NewClient ==
  [stage |-> "none", registered |-> FALSE, wait |-> FALSE, keys |-> {}, peers |-> {},
   file |-> "none", held |-> FALSE, alive |-> {}]

SSAInit ==
  /\ mode \in Mode
  /\ server = NewServer /\ client = [c \in Client |-> NewClient]
  /\ total = NoMask /\ net = {} /\ lost = 0

\* ssa_controller.handle_msg: a message for a handler that is gone, or that its
\* handler refuses, changes nothing; the call ignores the reply that says so.
Takes(m, sent) == m \in net /\ net' = (net \ {m}) \cup sent
Refuses(m) == Takes(m, {}) /\ UNCHANGED <<mode, server, client, total, lost>>

Lose(m) ==
  /\ lost < MaxLost /\ lost' = lost + 1
  /\ Takes(m, {}) /\ UNCHANGED <<mode, server, client, total>>

-----------------------------------------------------------------------------
(* The server.                                                             *)

\* __process_error: the handler is gone after the first error.
Failed(srv) == [srv EXCEPT !.error = TRUE, !.registered = FALSE]

\* __exchange_public_keys: whoever has sent a key gets all of them.
ExchangePublicKeys(srv) ==
  [srv EXCEPT !.stage = IF Double THEN "ExchangeEncryptedShare" ELSE "CiphertextAggregate"]
SentKeys(srv) == {PublicKeys(c, srv.keys) : c \in srv.keys}

\* __exchange_encrypted_shares: what the others have split is sent to each that
\* has sent shares; nothing is found for one that is alone.
ExchangeEncryptedShares(srv) ==
  LET next == [srv EXCEPT !.stage = "CiphertextAggregate"] IN
  IF Cardinality(srv.shares) = 1 THEN Failed(next) ELSE next
SentShares(srv) ==
  IF Cardinality(srv.shares) = 1 THEN {}
  ELSE {Shares(c, srv.shares \ {c}) : c \in srv.shares}

\* Clients whose masks stay in the total because their update never came.
Dropped(srv) == srv.shares \ srv.results

\* Faulty variant: one share more than a secret needs.
CanUnmaskOneMore(srv) ==
  /\ srv.secrets # {}
  /\ \A c \in Dropped(srv) : Cardinality(srv.s[c]) > min_client_num
  /\ \A c \in srv.results : Cardinality(srv.b[c]) > min_client_num
\* __generate_double_mask: s of every dropped client and b of every other must be
\* recovered; decrypt() is woken, and the handler goes.
CanUnmask(srv) ==
  /\ srv.secrets # {}
  /\ \A c \in Dropped(srv) : Cardinality(srv.s[c]) >= min_client_num
  /\ \A c \in srv.results : Cardinality(srv.b[c]) >= min_client_num
\* Faulty variant: decrypt() is woken only when it worked.
GenerateOrLeave(srv) ==
  IF CanUnmask(srv) THEN [srv EXCEPT !.ready = TRUE, !.registered = FALSE]
  ELSE [srv EXCEPT !.error = TRUE, !.registered = FALSE]
GenerateDoubleMask(srv) ==
  [srv EXCEPT !.error = @ \/ ~CanUnmask(srv), !.ready = TRUE, !.registered = FALSE]

HandlePublicKey(c) ==
  LET srv == [server EXCEPT !.keys = @ \cup {c}] IN
  /\ server.registered /\ server.stage = "ExchangePublicKey"
  /\ IF Cardinality(srv.keys) = client_num
     THEN server' = ExchangePublicKeys(srv) /\ Takes(PublicKey(c), SentKeys(srv))
     ELSE server' = srv /\ Takes(PublicKey(c), {})
  /\ UNCHANGED <<mode, client, total, lost>>

HandleEncryptedShares(c) ==
  LET srv == [server EXCEPT !.shares = @ \cup {c}] IN
  /\ server.registered /\ server.stage = "ExchangeEncryptedShare"
  /\ IF Cardinality(srv.shares) = Cardinality(srv.keys)
     THEN server' = ExchangeEncryptedShares(srv) /\ Takes(EncryptedShares(c), SentShares(srv))
     ELSE server' = srv /\ Takes(EncryptedShares(c), {})
  /\ UNCHANGED <<mode, client, total, lost>>

\* The masks an update of c carries; only two-mask clients have a b.
MaskOfPair(c, P, p) ==
  IF p[1] = c /\ p[2] \in P THEN 1 ELSE IF p[2] = c /\ p[1] \in P THEN -1 ELSE 0
Accumulated(c) ==
  [b |-> [d \in Client |-> total.b[d] + (IF d = c /\ Double THEN 1 ELSE 0)],
   s |-> [p \in Pair |-> total.s[p] + MaskOfPair(c, client[c].peers, p)]]

\* ciphertext_accumulate, when the round receives the update of a client.
CiphertextAccumulate(c) ==
  /\ server.stage = "CiphertextAggregate" /\ ~server.error
  /\ server' = [server EXCEPT !.results = @ \cup {c}]
  /\ total' = Accumulated(c)
  /\ Takes(Update(c), {})
  /\ UNCHANGED <<mode, client, lost>>

\* decrypt, which the round calls once enough updates are in. The two-mask
\* server asks who is alive for the secrets, and waits for them.
Decrypt ==
  /\ Double /\ server.decrypt = "none" /\ Cardinality(server.results) >= threshold
  /\ IF server.error
     THEN /\ server' = [server EXCEPT !.wait = FALSE, !.decrypt = "failed"]
          /\ net' = net
     ELSE /\ server' = [server EXCEPT !.wait = FALSE, !.stage = "DecryptResult",
                                      !.decrypt = "waits"]
          /\ net' = net \cup {Alive(c, server.results) : c \in server.results}
  /\ UNCHANGED <<mode, client, total, lost>>

\* The one-mask server cannot do without a client that sent its key: decrypt and
\* __assert_client_not_drop.
DecryptSimple ==
  /\ ~Double /\ server.decrypt = "none" /\ Cardinality(server.results) >= threshold
  /\ IF server.results = server.keys /\ ~server.error
     THEN server' = [server EXCEPT !.wait = FALSE, !.stage = "DecryptResult",
                                   !.decrypt = "done"]
     ELSE server' = [server EXCEPT !.wait = FALSE, !.decrypt = "failed"]
  /\ UNCHANGED <<mode, client, total, net, lost>>

\* Shares each reporter adds to those of the same secret.
Reconstructed(shares, C, c) ==
  [d \in Client |-> IF d \in C THEN shares[d] \cup {c} ELSE shares[d]]

HandleSecretShares(m) ==
  LET srv == [server EXCEPT !.secrets = @ \cup {m.from},
                            !.b = Reconstructed(@, m.b, m.from),
                            !.s = Reconstructed(@, m.s, m.from)] IN
  /\ server.registered /\ server.stage = "DecryptResult"
  /\ server' = IF Cardinality(srv.secrets) = Cardinality(srv.results)
               THEN GenerateDoubleMask(srv) ELSE srv
  /\ Takes(m, {})
  /\ UNCHANGED <<mode, client, total, lost>>

\* __generate_mask: what is taken out of the total.
Unmasked(srv) ==
  [b |-> [c \in Client |-> total.b[c] - (IF c \in srv.results THEN 1 ELSE 0)],
   s |-> [p \in Pair |-> total.s[p] + (IF p[1] \in Dropped(srv) /\ p[2] \in srv.results THEN 1
                                       ELSE IF p[2] \in Dropped(srv) /\ p[1] \in srv.results
                                       THEN -1 ELSE 0)]]

\* The rest of decrypt, once mask_ready_event is set.
DecryptEnds ==
  /\ server.decrypt = "waits" /\ server.ready
  /\ IF server.error
     THEN server' = [server EXCEPT !.decrypt = "failed"] /\ total' = total
     ELSE server' = [server EXCEPT !.decrypt = "done"] /\ total' = Unmasked(server)
  /\ UNCHANGED <<mode, client, net, lost>>

\* The stage timer goes on to the next stage with what is there.
StageTimeout ==
  \/ /\ server.stage = "ExchangePublicKey"
     /\ server' = ExchangePublicKeys(server) /\ net' = net \cup SentKeys(server)
     /\ UNCHANGED <<mode, client, total, lost>>
  \/ /\ server.stage = "ExchangeEncryptedShare"
     /\ server' = ExchangeEncryptedShares(server) /\ net' = net \cup SentShares(server)
     /\ UNCHANGED <<mode, client, total, lost>>
  \/ /\ Double /\ server.stage = "DecryptResult" /\ ~server.ready
     /\ server' = GenerateDoubleMask(server)
     /\ UNCHANGED <<mode, client, total, net, lost>>

\* __wait_aggregate_timeout: decrypt() was not called in time.
AggregateTimeout ==
  /\ server.wait
  /\ server' = Failed([server EXCEPT !.wait = FALSE])
  /\ UNCHANGED <<mode, client, total, net, lost>>

-----------------------------------------------------------------------------
(* A client.                                                               *)

Becomes(c, r) == client' = [client EXCEPT ![c] = r]

\* __process_error: after it the handler is gone; nothing else looks at the error.
Forgotten(c) == [client[c] EXCEPT !.registered = FALSE]

\* initialize and __start.
Start(c) ==
  /\ client[c].stage = "none"
  /\ Becomes(c, [client[c] EXCEPT !.stage = "ExchangePublicKey", !.registered = TRUE,
                                  !.wait = Double])
  /\ net' = net \cup {PublicKey(c)}
  /\ UNCHANGED <<mode, server, total, lost>>

\* __handle_public_keys of the one-mask client: the masks are ready.
OneMaskReady(c, K) ==
  [client[c] EXCEPT !.keys = K \ {c}, !.stage = "CiphertextAggregate",
                    !.peers = K \ {c}, !.file = "there"]
\* That of the two-mask client, with the task it creates: the secrets are split
\* and sent.
HandlePublicKeys(c, K) ==
  /\ client[c].registered
  /\ IF client[c].stage # "ExchangePublicKey" \/ Cardinality(K) < min_client_num
     THEN Becomes(c, Forgotten(c)) /\ Takes(PublicKeys(c, K), {})
     ELSE IF Double
     THEN /\ Becomes(c, [client[c] EXCEPT !.keys = K \ {c},
                                         !.stage = "ExchangeEncryptedShare"])
          /\ Takes(PublicKeys(c, K), {EncryptedShares(c)})
     ELSE /\ Becomes(c, OneMaskReady(c, K))
          /\ Takes(PublicKeys(c, K), {})
  /\ UNCHANGED <<mode, server, total, lost>>

\* Faulty variant: pairwise masks with whoever has sent a key.
MaskedWithAll(c, P) ==
  [client[c] EXCEPT !.stage = "CiphertextAggregate", !.peers = client[c].keys,
                    !.file = "there"]
\* __generate_double_mask of the client: masks with the clients whose shares came,
\* and the secrets written for the script.
Masked(c, P) ==
  [client[c] EXCEPT !.stage = "CiphertextAggregate", !.peers = P, !.file = "there"]
\* __handle_encrypted_shares.
HandleShares(c, P) ==
  /\ client[c].registered
  /\ Becomes(c, IF client[c].stage # "ExchangeEncryptedShare"
                   \/ Cardinality(P) + 1 < min_client_num
                THEN Forgotten(c) ELSE Masked(c, P))
  /\ Takes(Shares(c, P), {})
  /\ UNCHANGED <<mode, server, total, lost>>

\* The script: wait_ready takes the secrets, encrypt masks the update, and it is
\* sent to the coordinator. The handler of the agent may be gone by then.
Encrypt(c) ==
  /\ client[c].file = "there"
  /\ Becomes(c, [client[c] EXCEPT !.file = "used"])
  /\ net' = net \cup {Update(c)}
  /\ UNCHANGED <<mode, server, total, lost>>

\* finish: the task has succeeded. The timer of a one-mask client ends with it.
Finish(c) ==
  /\ client[c].file = "used" /\ client[c].stage = "CiphertextAggregate"
  /\ Becomes(c, [client[c] EXCEPT !.stage = "DecryptResult", !.registered = @ /\ Double])
  /\ UNCHANGED <<mode, server, total, net, lost>>

\* finish of a task that has failed.
FinishFailed(c) ==
  /\ client[c].registered /\ client[c].stage # "DecryptResult"
  /\ Becomes(c, Forgotten(c))
  /\ UNCHANGED <<mode, server, total, net, lost>>

\* __staget_timeout. The ready timer runs on when the masks are ready, until the
\* task has finished; the stage timer never outlives it.
ClientTimeout(c) ==
  /\ client[c].registered
  /\ client[c].stage # "DecryptResult" \/ client[c].wait
  /\ Becomes(c, Forgotten(c))
  /\ UNCHANGED <<mode, server, total, net, lost>>

\* __handle_alive_clients: it polls until the task has finished, or gives up.
HandleAlive(c, A) ==
  /\ client[c].registered
  /\ Becomes(c, [client[c] EXCEPT !.held = TRUE, !.alive = A])
  /\ Takes(Alive(c, A), {})
  /\ UNCHANGED <<mode, server, total, lost>>
GiveUpAlive(c) ==
  /\ client[c].held /\ client[c].stage # "DecryptResult"
  /\ Becomes(c, [client[c] EXCEPT !.held = FALSE, !.registered = FALSE])
  /\ UNCHANGED <<mode, server, total, net, lost>>

\* Faulty variant: b of the dropped clients too.
TakeOutBoth(c) ==
  Secrets(c, client[c].peers \cup {c}, client[c].peers \ client[c].alive)
\* __take_out_shares: b of those alive and of its own, s of the dropped.
TakeOutShares(c) ==
  Secrets(c, (client[c].peers \cap client[c].alive) \cup {c},
          client[c].peers \ client[c].alive)

\* Faulty variant: the handler stays.
AnswersAndStays(c) == [client[c] EXCEPT !.held = FALSE, !.wait = FALSE]
\* __clear, when the alive clients have been processed.
Answers(c) == [client[c] EXCEPT !.held = FALSE, !.wait = FALSE, !.registered = FALSE]
\* __process_alive_clients: the secrets are sent, and the handler goes.
ProcessAlive(c) ==
  /\ client[c].held /\ client[c].stage = "DecryptResult"
  /\ Becomes(c, Answers(c))
  /\ net' = IF Cardinality(client[c].alive) < min_client_num THEN net
            ELSE net \cup {TakeOutShares(c)}
  /\ UNCHANGED <<mode, server, total, lost>>

-----------------------------------------------------------------------------
\* A message is refused by a handler that is gone, or in another stage.
ServerRefuses(m) ==
  \/ m.type \in {"public_key", "encrypted_shares", "secrets"} /\ ~server.registered
  \/ m.type = "public_key" /\ server.stage # "ExchangePublicKey"
  \/ m.type = "encrypted_shares" /\ server.stage # "ExchangeEncryptedShare"
  \/ m.type = "update" /\ (server.stage # "CiphertextAggregate" \/ server.error)
ClientRefuses(m) ==
  /\ m.type \in {"public_keys", "shares", "alive"}
  /\ ~client[m.to].registered

Delivered(m) ==
  \/ m.type = "public_key" /\ HandlePublicKey(m.from)
  \/ m.type = "public_keys" /\ HandlePublicKeys(m.to, m.keys)
  \/ m.type = "encrypted_shares" /\ HandleEncryptedShares(m.from)
  \/ m.type = "shares" /\ HandleShares(m.to, m.peers)
  \/ m.type = "update" /\ CiphertextAccumulate(m.from)
  \/ m.type = "alive" /\ HandleAlive(m.to, m.alive)
  \/ m.type = "secrets" /\ HandleSecretShares(m)
  \/ (ServerRefuses(m) \/ ClientRefuses(m)) /\ Refuses(m)

ClientStep(c) ==
  Start(c) \/ Encrypt(c) \/ Finish(c) \/ FinishFailed(c) \/ ClientTimeout(c)
  \/ GiveUpAlive(c) \/ ProcessAlive(c)

SSANext ==
  \/ Decrypt \/ DecryptSimple \/ DecryptEnds \/ StageTimeout \/ AggregateTimeout
  \/ \E c \in Client : ClientStep(c)
  \/ \E m \in net : Delivered(m) \/ Lose(m)

\* An armed timer fires in the end, and the loop resumes what it can. Nothing is
\* promised of the network, of the tasks, or of the round that calls decrypt().
SSAFairness ==
  /\ WF_ssaVars(StageTimeout) /\ WF_ssaVars(AggregateTimeout) /\ WF_ssaVars(DecryptEnds)
  /\ \A c \in Client : WF_ssaVars(ClientTimeout(c))

SSASafety == SSAInit /\ [][SSANext]_ssaVars
SSASpec == SSASafety /\ SSAFairness

-----------------------------------------------------------------------------
(* What the aggregation promises.                                          *)

\* A total that decrypt() returns has no mask left in it, whoever dropped out
\* and in whatever stage: ciphertext_accumulate and __do_decrypt agree on them.
MasksCancel == server.decrypt = "done" => total = NoMask

\* Shares of both secrets of a client never reach the server: with both it could
\* take the masks off a single update (__take_out_shares).
OneSecretEach == \A c \in Client : server.b[c] = {} \/ server.s[c] = {}

\* The unmasking fails only when fewer clients than the threshold of the secret
\* sharing have answered, however many dropped out (__generate_double_mask).
EnoughAnswersUnmask ==
  server.ready /\ server.error => Cardinality(server.secrets) < min_client_num

\* A round that waits for decrypt() goes on: the stage timer wakes it.
DecryptReturns == server.decrypt = "waits" ~> server.decrypt # "waits"

\* The handlers go, whether the round decrypts or is given up: that of every
\* client, and that of a two-mask server. (That of a one-mask server stays when
\* decrypt() has been called.)
HandlersAreForgotten ==
  /\ Double /\ server.registered ~> ~server.registered
  /\ \A c \in Client : client[c].registered ~> ~client[c].registered
==============================================================================
