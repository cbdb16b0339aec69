----------------------- MODULE SecureAggregation_proofs -----------------------
(***************************************************************************)
(* Theorems about SecureAggregation, for any clients, any thresholds, and  *)
(* any number of lost messages.                                            *)
(***************************************************************************)
EXTENDS SecureAggregation, FiniteSetTheorems, TLAPS

-----------------------------------------------------------------------------
(* Types. *)

LEMMA MessageTypes ==
  ASSUME NEW c \in Client, NEW K \in SUBSET Client, NEW L \in SUBSET Client
  PROVE  /\ PublicKey(c) \in Message /\ PublicKeys(c, K) \in Message
         /\ EncryptedShares(c) \in Message /\ Shares(c, K) \in Message
         /\ Update(c) \in Message /\ Alive(c, K) \in Message
         /\ Secrets(c, K, L) \in Message
BY DEF Message, PublicKey, PublicKeys, EncryptedShares, Shares, Update, Alive, Secrets

\* The sender or the addressee of a message, and what it carries.
LEMMA MessageFields ==
  ASSUME NEW m \in Message
  PROVE  /\ m.type \in {"public_key", "encrypted_shares", "update", "secrets"} =>
              m.from \in Client
         /\ m.type \in {"public_keys", "shares", "alive"} => m.to \in Client
         /\ m.type = "public_keys" => m.keys \in SUBSET Client
         /\ m.type = "shares" => m.peers \in SUBSET Client
         /\ m.type = "alive" => m.alive \in SUBSET Client
         /\ m.type = "secrets" => m.b \in SUBSET Client /\ m.s \in SUBSET Client
BY DEF Message

LEMMA StageTypes ==
  ASSUME NEW srv \in Server
  PROVE  /\ ExchangePublicKeys(srv) \in Server
         /\ ExchangeEncryptedShares(srv) \in Server
         /\ GenerateDoubleMask(srv) \in Server
         /\ Failed(srv) \in Server
         /\ Failed([srv EXCEPT !.wait = FALSE]) \in Server
BY DEF ExchangePublicKeys, ExchangeEncryptedShares, GenerateDoubleMask, Failed, Server, Stage

LEMMA SentTypes ==
  ASSUME NEW srv \in Server
  PROVE  SentKeys(srv) \subseteq Message /\ SentShares(srv) \subseteq Message
<1>1. srv.keys \subseteq Client /\ srv.shares \subseteq Client
  BY DEF Server
<1> QED BY <1>1, MessageTypes DEF SentKeys, SentShares

LEMMA InitTypes == SSAInit => SSATypeOK
BY DEF SSAInit, SSATypeOK, NewServer, NewClient, NoMask, Server, ClientState, Masks, Stage

LEMMA TakesTypes ==
  ASSUME NEW m, NEW sent \in SUBSET Message, net \subseteq Message, Takes(m, sent)
  PROVE  net' \subseteq Message
BY DEF Takes

LEMMA ReconstructedType ==
  ASSUME NEW shares \in [Client -> SUBSET Client], NEW C, NEW c \in Client
  PROVE  Reconstructed(shares, C, c) \in [Client -> SUBSET Client]
BY DEF Reconstructed

LEMMA ServerActionTypes ==
  ASSUME SSATypeOK, NEW c \in Client
  PROVE  /\ HandlePublicKey(c) => SSATypeOK'
         /\ HandleEncryptedShares(c) => SSATypeOK'
<1> USE DEF SSATypeOK
<1>1. ASSUME HandlePublicKey(c) PROVE SSATypeOK'
  <2> DEFINE srv == [server EXCEPT !.keys = @ \cup {c}]
  <2>1. srv \in Server
    BY DEF Server
  <2>2. server' \in Server /\ net' \subseteq Message
    BY <1>1, <2>1, StageTypes, SentTypes, TakesTypes DEF HandlePublicKey
  <2> QED BY <1>1, <2>2 DEF HandlePublicKey
<1>2. ASSUME HandleEncryptedShares(c) PROVE SSATypeOK'
  <2> DEFINE srv == [server EXCEPT !.shares = @ \cup {c}]
  <2>1. srv \in Server
    BY DEF Server
  <2>2. server' \in Server /\ net' \subseteq Message
    BY <1>2, <2>1, StageTypes, SentTypes, TakesTypes DEF HandleEncryptedShares
  <2> QED BY <1>2, <2>2 DEF HandleEncryptedShares
<1> QED BY <1>1, <1>2

\* The records decrypt() leaves.
LEMMA DecryptRecords ==
  ASSUME NEW srv \in Server
  PROVE  /\ [srv EXCEPT !.wait = FALSE, !.decrypt = "failed"] \in Server
         /\ [srv EXCEPT !.wait = FALSE, !.stage = "DecryptResult",
                        !.decrypt = "waits"] \in Server
         /\ [srv EXCEPT !.wait = FALSE, !.stage = "DecryptResult",
                        !.decrypt = "done"] \in Server
         /\ [srv EXCEPT !.decrypt = "failed"] \in Server
         /\ [srv EXCEPT !.decrypt = "done"] \in Server
BY DEF Server, Stage

LEMMA ServerStepTypes ==
  ASSUME SSATypeOK
  PROVE  /\ Decrypt => SSATypeOK'
         /\ DecryptSimple => SSATypeOK'
         /\ DecryptEnds => SSATypeOK'
         /\ StageTimeout => SSATypeOK'
         /\ AggregateTimeout => SSATypeOK'
<1> USE DEF SSATypeOK
<1>1. ASSUME Decrypt PROVE SSATypeOK'
  <2>1. server.results \subseteq Client
    BY DEF Server
  <2>2. {Alive(c, server.results) : c \in server.results} \subseteq Message
    BY <2>1, MessageTypes
  <2>3. server' \in Server
    BY <1>1, DecryptRecords DEF Decrypt
  <2> QED BY <1>1, <2>2, <2>3 DEF Decrypt
<1>2. ASSUME DecryptSimple PROVE SSATypeOK'
  <2>1. server' \in Server
    BY <1>2, DecryptRecords DEF DecryptSimple
  <2> QED BY <1>2, <2>1 DEF DecryptSimple
<1>3. ASSUME DecryptEnds PROVE SSATypeOK'
  <2>1. Unmasked(server) \in Masks
    BY DEF Unmasked, Masks
  <2> QED BY <1>3, <2>1, DecryptRecords DEF DecryptEnds
<1>4. ASSUME StageTimeout PROVE SSATypeOK'
  BY <1>4, StageTypes, SentTypes DEF StageTimeout
<1>5. ASSUME AggregateTimeout PROVE SSATypeOK'
  BY <1>5, StageTypes DEF AggregateTimeout
<1> QED BY <1>1, <1>2, <1>3, <1>4, <1>5

LEMMA SecretSharesTypes ==
  ASSUME SSATypeOK, NEW m \in net, m.type = "secrets", HandleSecretShares(m)
  PROVE  SSATypeOK'
<1> DEFINE srv == [server EXCEPT !.secrets = @ \cup {m.from},
                                 !.b = Reconstructed(@, m.b, m.from),
                                 !.s = Reconstructed(@, m.s, m.from)]
<1>1. m \in Message /\ m.from \in Client
  BY MessageFields DEF SSATypeOK
<1>2. srv \in Server
  BY <1>1, ReconstructedType DEF SSATypeOK, Server
<1>3. server' \in Server /\ net' \subseteq Message
  BY <1>2, StageTypes, TakesTypes DEF HandleSecretShares, SSATypeOK
<1> QED BY <1>3 DEF HandleSecretShares, SSATypeOK

LEMMA AccumulateTypes ==
  ASSUME SSATypeOK, NEW c \in Client, CiphertextAccumulate(c)
  PROVE  SSATypeOK'
<1>1. Accumulated(c) \in Masks
  BY DEF Accumulated, MaskOfPair, Masks, SSATypeOK
<1>2. net' \subseteq Message
  BY TakesTypes DEF CiphertextAccumulate, SSATypeOK
<1> QED BY <1>1, <1>2 DEF CiphertextAccumulate, SSATypeOK, Server

LEMMA BecomesType ==
  ASSUME client \in [Client -> ClientState], NEW c \in Client, NEW r \in ClientState,
         Becomes(c, r)
  PROVE  client' \in [Client -> ClientState]
BY DEF Becomes

\* The records a client becomes.
LEMMA ClientRecords ==
  ASSUME client \in [Client -> ClientState], NEW c \in Client, NEW K \in SUBSET Client
  PROVE  /\ Forgotten(c) \in ClientState /\ Answers(c) \in ClientState
         /\ OneMaskReady(c, K) \in ClientState /\ Masked(c, K) \in ClientState
         /\ [client[c] EXCEPT !.stage = "ExchangePublicKey", !.registered = TRUE,
                              !.wait = Double] \in ClientState
         /\ [client[c] EXCEPT !.keys = K \ {c},
                              !.stage = "ExchangeEncryptedShare"] \in ClientState
         /\ [client[c] EXCEPT !.file = "used"] \in ClientState
         /\ [client[c] EXCEPT !.stage = "DecryptResult",
                              !.registered = @ /\ Double] \in ClientState
         /\ [client[c] EXCEPT !.held = TRUE, !.alive = K] \in ClientState
         /\ [client[c] EXCEPT !.held = FALSE, !.registered = FALSE] \in ClientState
<1>1. client[c] \in ClientState /\ Double \in BOOLEAN
  BY DEF Double
<1>2. Forgotten(c) \in ClientState /\ Answers(c) \in ClientState
  BY <1>1 DEF Forgotten, Answers, ClientState
<1>3. OneMaskReady(c, K) \in ClientState /\ Masked(c, K) \in ClientState
  BY <1>1 DEF OneMaskReady, Masked, ClientState, Stage
<1>4. [client[c] EXCEPT !.stage = "ExchangePublicKey", !.registered = TRUE,
                        !.wait = Double] \in ClientState
  BY <1>1 DEF ClientState, Stage
<1>5. [client[c] EXCEPT !.keys = K \ {c}, !.stage = "ExchangeEncryptedShare"] \in ClientState
  BY <1>1 DEF ClientState, Stage
<1>6. [client[c] EXCEPT !.file = "used"] \in ClientState
  BY <1>1 DEF ClientState
<1>7. [client[c] EXCEPT !.stage = "DecryptResult", !.registered = @ /\ Double] \in ClientState
  BY <1>1 DEF ClientState, Stage
<1>8. [client[c] EXCEPT !.held = TRUE, !.alive = K] \in ClientState
  BY <1>1 DEF ClientState
<1>9. [client[c] EXCEPT !.held = FALSE, !.registered = FALSE] \in ClientState
  BY <1>1 DEF ClientState
<1> QED BY <1>2, <1>3, <1>4, <1>5, <1>6, <1>7, <1>8, <1>9

LEMMA ClientReceiveTypes ==
  ASSUME SSATypeOK, NEW c \in Client, NEW K \in SUBSET Client
  PROVE  /\ HandlePublicKeys(c, K) => SSATypeOK'
         /\ HandleShares(c, K) => SSATypeOK'
         /\ HandleAlive(c, K) => SSATypeOK'
<1> USE DEF SSATypeOK
<1>1. ASSUME HandlePublicKeys(c, K) PROVE SSATypeOK'
  <2>1. client' \in [Client -> ClientState]
    BY <1>1, ClientRecords, BecomesType DEF HandlePublicKeys
  <2>2. net' \subseteq Message
    BY <1>1, MessageTypes, TakesTypes DEF HandlePublicKeys
  <2> QED BY <1>1, <2>1, <2>2 DEF HandlePublicKeys
<1>2. ASSUME HandleShares(c, K) PROVE SSATypeOK'
  <2>1. client' \in [Client -> ClientState]
    BY <1>2, ClientRecords, BecomesType DEF HandleShares
  <2>2. net' \subseteq Message
    BY <1>2, TakesTypes DEF HandleShares
  <2> QED BY <1>2, <2>1, <2>2 DEF HandleShares
<1>3. ASSUME HandleAlive(c, K) PROVE SSATypeOK'
  <2>1. client' \in [Client -> ClientState]
    BY <1>3, ClientRecords, BecomesType DEF HandleAlive
  <2>2. net' \subseteq Message
    BY <1>3, TakesTypes DEF HandleAlive
  <2> QED BY <1>3, <2>1, <2>2 DEF HandleAlive
<1> QED BY <1>1, <1>2, <1>3

LEMMA ClientStepTypes ==
  ASSUME SSATypeOK, NEW c \in Client, ClientStep(c)
  PROVE  SSATypeOK'
<1>1. client \in [Client -> ClientState] /\ net \subseteq Message
  BY DEF SSATypeOK
<1>2. client' \in [Client -> ClientState]
  BY <1>1, ClientRecords, BecomesType
  DEF ClientStep, Start, Encrypt, Finish, FinishFailed, ClientTimeout, GiveUpAlive, ProcessAlive
<1>3. PublicKey(c) \in Message /\ Update(c) \in Message /\ TakeOutShares(c) \in Message
  BY <1>1, MessageTypes DEF TakeOutShares, ClientState
<1>4. net' \subseteq Message
  BY <1>1, <1>3
  DEF ClientStep, Start, Encrypt, Finish, FinishFailed, ClientTimeout, GiveUpAlive, ProcessAlive
<1>5. UNCHANGED <<mode, server, total, lost>>
  BY DEF ClientStep, Start, Encrypt, Finish, FinishFailed, ClientTimeout, GiveUpAlive, ProcessAlive
<1> QED BY <1>2, <1>4, <1>5 DEF SSATypeOK

LEMMA DeliveredTypes ==
  ASSUME SSATypeOK, NEW m \in net, Delivered(m) \/ Lose(m)
  PROVE  SSATypeOK'
<1>1. m \in Message
  BY DEF SSATypeOK
<1>2. CASE Lose(m)
  BY <1>2, TakesTypes DEF Lose, SSATypeOK
<1>3. CASE Refuses(m)
  BY <1>3, TakesTypes DEF Refuses, SSATypeOK
<1>4. CASE Delivered(m) /\ ~Refuses(m)
  BY <1>1, <1>4, MessageFields, ServerActionTypes, SecretSharesTypes, AccumulateTypes,
     ClientReceiveTypes DEF Delivered
<1> QED BY <1>2, <1>3, <1>4

LEMMA NextTypes == SSATypeOK /\ [SSANext]_ssaVars => SSATypeOK'
<1> SUFFICES ASSUME SSATypeOK, [SSANext]_ssaVars PROVE SSATypeOK'
  OBVIOUS
<1>1. CASE UNCHANGED ssaVars
  BY <1>1 DEF ssaVars, SSATypeOK
<1>2. CASE SSANext
  BY <1>2, ServerStepTypes, ClientStepTypes, DeliveredTypes DEF SSANext
<1> QED BY <1>1, <1>2

\* Every reachable state is well typed.
THEOREM SSATypes == SSASpec => []SSATypeOK
BY InitTypes, NextTypes, PTL DEF SSASpec, SSASafety

-----------------------------------------------------------------------------
(* The induction. *)

\* Nobody comes to those who exchange masks any more.
Settled == server.stage \in {"CiphertextAggregate", "DecryptResult"}

\* Those who exchange masks: with two masks, whose shares came in time.
Party == IF Double THEN server.shares ELSE server.keys

\* The two-mask server asks for secrets.
Deciding == Double /\ server.stage = "DecryptResult"

\* What the server sends is what it knows, and what it is sent was never sent before.
MessageOK(m) ==
  /\ m.type = "shares" =>
       Double /\ Settled /\ m.to \in server.shares /\ m.peers = server.shares \ {m.to}
  /\ m.type = "public_keys" /\ ~Double =>
       Settled /\ m.to \in server.keys /\ m.keys = server.keys
  /\ m.type = "update" => client[m.from].file = "used" /\ m.from \notin server.results
  /\ m.type = "alive" => Deciding /\ m.to \in server.results /\ m.alive = server.results
  /\ m.type = "secrets" =>
       Deciding /\ m.from \in server.results /\ m.b = server.results /\ m.s = Dropped(server)

\* A client that has masks shares them with all others of the party.
ClientOK(c) ==
  /\ client[c].stage = "ExchangeEncryptedShare" => Double
  /\ client[c].stage = "DecryptResult" => client[c].file = "used"
  /\ client[c].file # "none" =>
       /\ Settled /\ c \in Party /\ client[c].peers = Party \ {c}
       /\ client[c].stage \in {"CiphertextAggregate", "DecryptResult"}
  /\ client[c].held => Deciding /\ c \in server.results /\ client[c].alive = server.results
  /\ c \in server.results => client[c].file = "used"

ServerOK ==
  /\ server.stage = "ExchangeEncryptedShare" => Double
  /\ server.decrypt \in {"waits", "done"} => server.stage = "DecryptResult"
  /\ ~Double /\ server.decrypt = "done" => server.results = server.keys
  /\ server.stage = "DecryptResult" => ~server.wait /\ (server.ready \/ ~server.error)
  /\ server.ready => Deciding /\ ~server.registered
  /\ ~Deciding => server.secrets = {}
  /\ \A c \in Client :
       /\ server.b[c] = IF c \in server.results THEN server.secrets ELSE {}
       /\ server.s[c] = IF c \in Dropped(server) THEN server.secrets ELSE {}

\* The masks of the updates that are in, of which only those of dropped clients remain.
Accounted ==
  [b |-> [c \in Client |-> IF Double /\ c \in server.results THEN 1 ELSE 0],
   s |-> [p \in Pair |-> (IF p[1] \in server.results /\ p[2] \in Party THEN 1 ELSE 0)
                         - (IF p[2] \in server.results /\ p[1] \in Party THEN 1 ELSE 0)]]
TotalOK == total = IF Double /\ server.decrypt = "done" THEN NoMask ELSE Accounted

SSAInv ==
  /\ SSATypeOK
  /\ \A m \in net : MessageOK(m)
  /\ \A c \in Client : ClientOK(c)
  /\ ServerOK
  /\ TotalOK
  /\ EnoughAnswersUnmask

LEMMA InvInit == SSAInit => SSAInv
<1> SUFFICES ASSUME SSAInit PROVE SSAInv
  OBVIOUS
<1>1. SSATypeOK
  BY InitTypes
<1>2. \A c \in Client : client[c].stage = "none" /\ client[c].file = "none" /\ ~client[c].held
  BY DEF SSAInit, NewClient
<1>3. /\ server.stage = "ExchangePublicKey" /\ server.decrypt = "none" /\ server.results = {}
      /\ server.secrets = {} /\ ~server.ready
      /\ \A c \in Client : server.b[c] = {} /\ server.s[c] = {}
  BY DEF SSAInit, NewServer
<1>4. total = NoMask /\ net = {}
  BY DEF SSAInit
<1>5. \A c \in Client : ClientOK(c)
  BY <1>2, <1>3 DEF ClientOK
<1>6. ServerOK
  BY <1>3 DEF ServerOK
<1>7. TotalOK
  BY <1>3, <1>4 DEF TotalOK, Accounted, NoMask
<1> QED BY <1>1, <1>3, <1>4, <1>5, <1>6, <1>7 DEF SSAInv, EnoughAnswersUnmask

\* As long as they exchange keys or shares there is no mask yet, and no update.
LEMMA Unsettled ==
  ASSUME SSAInv, ~Settled
  PROVE  /\ server.results = {} /\ server.secrets = {} /\ ~server.ready
         /\ server.decrypt \notin {"waits", "done"} /\ total = Accounted
         /\ \A c \in Client : server.b[c] = {} /\ server.s[c] = {}
         /\ \A c \in Client : client[c].file = "none" /\ ~client[c].held
                              /\ client[c].stage # "DecryptResult"
<1>1. server.results \subseteq Client
  BY DEF SSAInv, SSATypeOK, Server
<1>2. \A c \in Client : client[c].file = "none" /\ ~client[c].held /\ c \notin server.results
                        /\ client[c].stage # "DecryptResult"
  BY DEF SSAInv, ClientOK, Deciding, Settled
<1>3. /\ server.secrets = {} /\ ~server.ready /\ server.decrypt \notin {"waits", "done"}
      /\ \A c \in Client : server.b[c] = {} /\ server.s[c] = {}
  BY DEF SSAInv, ServerOK, Deciding, Settled
<1>4. total = Accounted
  BY <1>3 DEF SSAInv, TotalOK
<1> QED BY <1>1, <1>2, <1>3, <1>4

LEMMA UnsettledMessages ==
  ASSUME SSAInv, ~Settled, NEW m \in net
  PROVE  /\ m.type \notin {"shares", "update", "alive", "secrets"}
         /\ m.type = "public_keys" => Double
<1>1. MessageOK(m) /\ m \in Message
  BY DEF SSAInv, SSATypeOK
<1> QED BY <1>1, Unsettled, MessageFields DEF MessageOK, Deciding, Settled

\* Before the masks are there, the sums of masks are empty whoever takes part.
LEMMA NothingAccounted ==
  ASSUME server.results = {}
  PROVE  Accounted = NoMask
BY DEF Accounted, NoMask

-----------------------------------------------------------------------------
(* Steps of clients. *)

LEMMA ClientSideStep ==
  ASSUME SSAInv, SSATypeOK', UNCHANGED <<mode, server, total>>,
         \A m \in net' : MessageOK(m)', \A c \in Client : ClientOK(c)'
  PROVE  SSAInv'
<1>1. UNCHANGED <<Double, Party, Deciding, Accounted>>
  BY DEF Double, Party, Deciding, Accounted
<1>2. ServerOK' /\ TotalOK' /\ EnoughAnswersUnmask'
  BY <1>1 DEF SSAInv, ServerOK, TotalOK, EnoughAnswersUnmask, Dropped
<1> QED BY <1>2 DEF SSAInv

\* A message stays right when the server and the secrets its sender has used do.
LEMMA MessageStays ==
  ASSUME UNCHANGED <<mode, server>>, NEW m, MessageOK(m),
         m.type = "update" => (client[m.from].file = "used" => client'[m.from].file = "used")
  PROVE  MessageOK(m)'
BY DEF MessageOK, Double, Settled, Deciding, Dropped

LEMMA BecomesFields ==
  ASSUME client \in [Client -> ClientState], NEW c \in Client, NEW r, Becomes(c, r)
  PROVE  client'[c] = r /\ \A d \in Client : d # c => client'[d] = client[d]
BY DEF Becomes

LEMMA ClientStays ==
  ASSUME UNCHANGED <<mode, server>>, NEW c \in Client, ClientOK(c),
         \/ client'[c] = client[c]
         \/ /\ client'[c].stage = client[c].stage /\ client'[c].file = client[c].file
            /\ client'[c].peers = client[c].peers /\ ~client'[c].held
  PROVE  ClientOK(c)'
BY DEF ClientOK, Double, Settled, Party, Deciding

LEMMA ForgottenOK ==
  ASSUME SSAInv, UNCHANGED <<mode, server>>, NEW c \in Client, Becomes(c, Forgotten(c))
  PROVE  ClientOK(c)' /\ client'[c].file = client[c].file
<1>1. client \in [Client -> ClientState] /\ ClientOK(c)
  BY DEF SSAInv, SSATypeOK
<1>2. client'[c] = Forgotten(c)
  BY <1>1, BecomesFields
<1>3. /\ Forgotten(c).stage = client[c].stage /\ Forgotten(c).file = client[c].file
      /\ Forgotten(c).peers = client[c].peers /\ Forgotten(c).held = client[c].held
      /\ Forgotten(c).alive = client[c].alive
  BY <1>1 DEF Forgotten, ClientState
<1>4. ClientOK(c)'
  BY <1>1, <1>2, <1>3 DEF ClientOK, Double, Settled, Party, Deciding
<1> QED BY <1>2, <1>3, <1>4

LEMMA ClientStepInv ==
  ASSUME SSAInv, SSATypeOK', NEW c \in Client, ClientStep(c)
  PROVE  SSAInv'
<1>1. client \in [Client -> ClientState] /\ net \subseteq Message
  BY DEF SSAInv, SSATypeOK
<1>2. (\A d \in Client : ClientOK(d)) /\ (\A m \in net : MessageOK(m))
  BY DEF SSAInv
<1>3. UNCHANGED <<mode, server, total>>
  BY DEF ClientStep, Start, Encrypt, Finish, FinishFailed, ClientTimeout, GiveUpAlive, ProcessAlive
<1>4. client[c] \in ClientState /\ ClientOK(c)
  BY <1>1, <1>2
<1>11. \A d \in Client : d # c => client'[d] = client[d]
  BY <1>1 DEF ClientStep, Start, Encrypt, Finish, FinishFailed, ClientTimeout, GiveUpAlive,
              ProcessAlive, Becomes
<1> SUFFICES (\A m \in net' : MessageOK(m)') /\ ClientOK(c)'
  BY <1>2, <1>3, <1>11, ClientSideStep, ClientStays
<1>5. CASE Start(c)
  <2> DEFINE r == [client[c] EXCEPT !.stage = "ExchangePublicKey", !.registered = TRUE,
                                    !.wait = Double]
  <2>1. client[c].stage = "none" /\ client[c].file = "none"
    BY <1>4, <1>5 DEF Start, ClientOK
  <2>2. r.stage = "ExchangePublicKey" /\ r.file = "none" /\ r.held = client[c].held
        /\ r.alive = client[c].alive
    BY <1>4, <2>1 DEF ClientState
  <2>3. client'[c] = r
    BY <1>1, <1>5, BecomesFields DEF Start
  <2> HIDE DEF r
  <2>4. ClientOK(c)'
    BY <1>4, <1>3, <2>1, <2>2, <2>3 DEF ClientOK, Double, Settled, Party, Deciding
  <2>5. MessageOK(PublicKey(c))'
    BY DEF MessageOK, PublicKey
  <2>6. net' = net \cup {PublicKey(c)}
    BY <1>5 DEF Start
  <2>7. \A m \in net : MessageOK(m)'
    BY <1>1, <1>2, <1>3, <1>11, <2>1, <2>3, MessageStays, MessageFields
  <2> QED BY <2>4, <2>5, <2>6, <2>7
<1>6. CASE Encrypt(c)
  <2> DEFINE r == [client[c] EXCEPT !.file = "used"]
  <2>1. client[c].file = "there" /\ c \notin server.results
    BY <1>4, <1>6 DEF Encrypt, ClientOK
  <2>2. r.stage = client[c].stage /\ r.file = "used" /\ r.held = client[c].held
        /\ r.alive = client[c].alive /\ r.peers = client[c].peers
    BY <1>4 DEF ClientState
  <2>3. client'[c] = r
    BY <1>1, <1>6, BecomesFields DEF Encrypt
  <2> HIDE DEF r
  <2>4. ClientOK(c)'
    BY <1>4, <1>3, <2>1, <2>2, <2>3 DEF ClientOK, Double, Settled, Party, Deciding
  <2>5. MessageOK(Update(c))'
    BY <1>3, <2>1, <2>2, <2>3 DEF MessageOK, Update
  <2>6. net' = net \cup {Update(c)}
    BY <1>6 DEF Encrypt
  <2>7. \A m \in net : MessageOK(m)'
    BY <1>1, <1>2, <1>3, <1>11, <2>2, <2>3, MessageStays, MessageFields
  <2> QED BY <2>4, <2>5, <2>6, <2>7
<1>7. CASE Finish(c)
  <2> DEFINE r == [client[c] EXCEPT !.stage = "DecryptResult", !.registered = @ /\ Double]
  <2>1. client[c].file = "used"
    BY <1>7 DEF Finish
  <2>2. r.stage = "DecryptResult" /\ r.file = client[c].file /\ r.held = client[c].held
        /\ r.alive = client[c].alive /\ r.peers = client[c].peers
    BY <1>4 DEF ClientState
  <2>3. client'[c] = r
    BY <1>1, <1>7, BecomesFields DEF Finish
  <2> HIDE DEF r
  <2>4. ClientOK(c)'
    BY <1>4, <1>3, <2>1, <2>2, <2>3 DEF ClientOK, Double, Settled, Party, Deciding
  <2>5. net' = net
    BY <1>7 DEF Finish
  <2>6. \A m \in net : MessageOK(m)'
    BY <1>1, <1>2, <1>3, <1>11, <2>2, <2>3, MessageStays, MessageFields
  <2> QED BY <2>4, <2>5, <2>6
<1>8. CASE FinishFailed(c) \/ ClientTimeout(c)
  <2>1. Becomes(c, Forgotten(c)) /\ net' = net
    BY <1>8 DEF FinishFailed, ClientTimeout
  <2>2. ClientOK(c)' /\ client'[c].file = client[c].file
    BY <1>3, <2>1, ForgottenOK
  <2>3. \A m \in net : MessageOK(m)'
    BY <1>1, <1>2, <1>3, <1>11, <2>2, MessageStays, MessageFields
  <2> QED BY <2>1, <2>2, <2>3
<1>9. CASE GiveUpAlive(c)
  <2> DEFINE r == [client[c] EXCEPT !.held = FALSE, !.registered = FALSE]
  <2>1. r.stage = client[c].stage /\ r.file = client[c].file /\ ~r.held
        /\ r.peers = client[c].peers
    BY <1>4 DEF ClientState
  <2>2. client'[c] = r
    BY <1>1, <1>9, BecomesFields DEF GiveUpAlive
  <2> HIDE DEF r
  <2>3. ClientOK(c)'
    BY <1>4, <1>3, <2>1, <2>2, ClientStays
  <2>4. net' = net
    BY <1>9 DEF GiveUpAlive
  <2>5. \A m \in net : MessageOK(m)'
    BY <1>1, <1>2, <1>3, <1>11, <2>1, <2>2, MessageStays, MessageFields
  <2> QED BY <2>3, <2>4, <2>5
<1>10. CASE ProcessAlive(c)
  <2>1. Answers(c).stage = client[c].stage /\ Answers(c).file = client[c].file
        /\ ~Answers(c).held /\ Answers(c).peers = client[c].peers
    BY <1>4 DEF Answers, ClientState
  <2>2. client'[c] = Answers(c)
    BY <1>1, <1>10, BecomesFields DEF ProcessAlive
  <2>3. ClientOK(c)'
    BY <1>4, <1>3, <2>1, <2>2, ClientStays
  <2>4. /\ Deciding /\ c \in server.results /\ client[c].alive = server.results
        /\ client[c].peers = server.shares \ {c} /\ c \in server.shares
    BY <1>4, <1>10 DEF ProcessAlive, ClientOK, Deciding, Party
  <2>5. server.results \subseteq server.shares
    BY <1>1, <1>2, <2>4 DEF ClientOK, Deciding, Party, SSAInv, SSATypeOK, Server
  <2>6. /\ (client[c].peers \cap client[c].alive) \cup {c} = server.results
        /\ client[c].peers \ client[c].alive = Dropped(server)
    BY <2>4, <2>5 DEF Dropped
  <2>7. TakeOutShares(c) = Secrets(c, server.results, Dropped(server))
    BY <2>6 DEF TakeOutShares
  <2>8. MessageOK(TakeOutShares(c))
    BY <2>4, <2>7 DEF MessageOK, Secrets
  <2>9. TakeOutShares(c).type = "secrets"
    BY DEF TakeOutShares, Secrets
  <2>10. \A m \in net \cup {TakeOutShares(c)} : MessageOK(m)'
    BY <1>1, <1>2, <1>3, <1>11, <2>1, <2>2, <2>8, <2>9, MessageStays, MessageFields
  <2>11. net' \subseteq net \cup {TakeOutShares(c)}
    BY <1>10 DEF ProcessAlive
  <2> QED BY <2>3, <2>10, <2>11
<1> QED BY <1>5, <1>6, <1>7, <1>8, <1>9, <1>10 DEF ClientStep

LEMMA ClientReceiveInv ==
  ASSUME SSAInv, SSATypeOK', NEW m \in net,
         \/ m.type = "public_keys" /\ HandlePublicKeys(m.to, m.keys)
         \/ m.type = "shares" /\ HandleShares(m.to, m.peers)
         \/ m.type = "alive" /\ HandleAlive(m.to, m.alive)
  PROVE  SSAInv'
<1> DEFINE c == m.to
<1>1. client \in [Client -> ClientState] /\ net \subseteq Message
  BY DEF SSAInv, SSATypeOK
<1>2. (\A d \in Client : ClientOK(d)) /\ \A n \in net : MessageOK(n)
  BY DEF SSAInv
<1>3. UNCHANGED <<mode, server, total>>
  BY DEF HandlePublicKeys, HandleShares, HandleAlive
<1>4. c \in Client /\ client[c] \in ClientState /\ ClientOK(c) /\ MessageOK(m)
  BY <1>1, <1>2, MessageFields
<1> HIDE DEF c
<1>11. \A d \in Client : d # c => client'[d] = client[d]
  BY <1>1 DEF HandlePublicKeys, HandleShares, HandleAlive, Becomes, c
<1> SUFFICES (\A n \in net' : MessageOK(n)') /\ ClientOK(c)'
  BY <1>2, <1>3, <1>11, ClientSideStep, ClientStays
<1>5. ASSUME Becomes(c, Forgotten(c)), net' \subseteq net
      PROVE  (\A n \in net' : MessageOK(n)') /\ ClientOK(c)'
  <2>1. ClientOK(c)' /\ client'[c].file = client[c].file
    BY <1>3, <1>4, <1>5, ForgottenOK
  <2>2. \A n \in net : MessageOK(n)'
    BY <1>1, <1>2, <1>3, <1>11, <2>1, MessageStays, MessageFields
  <2> QED BY <1>5, <2>1, <2>2
<1>6. CASE m.type = "public_keys" /\ HandlePublicKeys(m.to, m.keys)
  <2>1. CASE Becomes(c, Forgotten(c)) /\ Takes(PublicKeys(c, m.keys), {})
    <3>1. net' \subseteq net
      BY <2>1 DEF Takes
    <3> QED BY <1>5, <2>1, <3>1
  <2>2. CASE /\ Double /\ client[c].stage = "ExchangePublicKey"
             /\ Becomes(c, [client[c] EXCEPT !.keys = m.keys \ {c},
                                            !.stage = "ExchangeEncryptedShare"])
             /\ Takes(PublicKeys(c, m.keys), {EncryptedShares(c)})
    <3> DEFINE r == [client[c] EXCEPT !.keys = m.keys \ {c}, !.stage = "ExchangeEncryptedShare"]
    <3>1. client[c].file = "none"
      BY <1>4, <2>2 DEF ClientOK, ClientState
    <3>2. r.stage = "ExchangeEncryptedShare" /\ r.file = "none" /\ r.held = client[c].held
          /\ r.alive = client[c].alive
      BY <1>4, <3>1 DEF ClientState
    <3>3. client'[c] = r
      BY <1>1, <1>4, <2>2, BecomesFields
    <3> HIDE DEF r
    <3>4. ClientOK(c)'
      BY <1>4, <1>3, <2>2, <3>1, <3>2, <3>3 DEF ClientOK, Double, Settled, Party, Deciding
    <3>5. MessageOK(EncryptedShares(c))'
      BY DEF MessageOK, EncryptedShares
    <3>6. net' \subseteq net \cup {EncryptedShares(c)}
      BY <2>2 DEF Takes
    <3>7. \A n \in net : MessageOK(n)'
      BY <1>1, <1>2, <1>3, <1>11, <3>1, <3>3, MessageStays, MessageFields
    <3> QED BY <3>4, <3>5, <3>6, <3>7
  <2>3. CASE /\ ~Double /\ client[c].stage = "ExchangePublicKey"
             /\ Becomes(c, OneMaskReady(c, m.keys)) /\ Takes(PublicKeys(c, m.keys), {})
    <3>1. client[c].file = "none" /\ Settled /\ c \in server.keys /\ m.keys = server.keys
      BY <1>4, <1>6, <2>3 DEF ClientOK, ClientState, MessageOK, c
    <3>2. /\ OneMaskReady(c, m.keys).stage = "CiphertextAggregate"
          /\ OneMaskReady(c, m.keys).file = "there"
          /\ OneMaskReady(c, m.keys).held = client[c].held
          /\ OneMaskReady(c, m.keys).alive = client[c].alive
          /\ OneMaskReady(c, m.keys).peers = server.keys \ {c}
      BY <1>4, <3>1 DEF OneMaskReady, ClientState
    <3>3. client'[c] = OneMaskReady(c, m.keys)
      BY <1>1, <1>4, <2>3, BecomesFields
    <3>4. ClientOK(c)'
      BY <1>4, <1>3, <2>3, <3>1, <3>2, <3>3 DEF ClientOK, Double, Settled, Party, Deciding
    <3>5. net' \subseteq net
      BY <2>3 DEF Takes
    <3>6. \A n \in net : MessageOK(n)'
      BY <1>1, <1>2, <1>3, <1>11, <3>1, <3>3, MessageStays, MessageFields
    <3> QED BY <3>4, <3>5, <3>6
  <2> QED BY <1>6, <2>1, <2>2, <2>3 DEF HandlePublicKeys, c
<1>7. CASE m.type = "shares" /\ HandleShares(m.to, m.peers)
  <2>1. net' \subseteq net
    BY <1>7 DEF HandleShares, Takes
  <2>2. CASE Becomes(c, Forgotten(c))
    BY <1>5, <2>1, <2>2
  <2>3. CASE client[c].stage = "ExchangeEncryptedShare" /\ Becomes(c, Masked(c, m.peers))
    <3>1. client[c].file = "none" /\ Double /\ Settled /\ c \in server.shares
          /\ m.peers = server.shares \ {c}
      BY <1>4, <1>7, <2>3 DEF ClientOK, ClientState, MessageOK, c
    <3>2. /\ Masked(c, m.peers).stage = "CiphertextAggregate"
          /\ Masked(c, m.peers).file = "there" /\ Masked(c, m.peers).held = client[c].held
          /\ Masked(c, m.peers).alive = client[c].alive
          /\ Masked(c, m.peers).peers = server.shares \ {c}
      BY <1>4, <3>1 DEF Masked, ClientState
    <3>3. client'[c] = Masked(c, m.peers)
      BY <1>1, <1>4, <2>3, BecomesFields
    <3>4. ClientOK(c)'
      BY <1>4, <1>3, <3>1, <3>2, <3>3 DEF ClientOK, Double, Settled, Party, Deciding
    <3>5. \A n \in net : MessageOK(n)'
      BY <1>1, <1>2, <1>3, <1>11, <3>1, <3>3, MessageStays, MessageFields
    <3> QED BY <2>1, <3>4, <3>5
  <2> QED BY <1>7, <2>2, <2>3 DEF HandleShares, c
<1>8. CASE m.type = "alive" /\ HandleAlive(m.to, m.alive)
  <2> DEFINE r == [client[c] EXCEPT !.held = TRUE, !.alive = m.alive]
  <2>1. Deciding /\ c \in server.results /\ m.alive = server.results
    BY <1>4, <1>8 DEF MessageOK, c
  <2>2. r.stage = client[c].stage /\ r.file = client[c].file /\ r.alive = server.results
        /\ r.peers = client[c].peers
    BY <1>4, <2>1 DEF ClientState
  <2>3. client'[c] = r
    BY <1>1, <1>4, <1>8, BecomesFields DEF HandleAlive, c
  <2> HIDE DEF r
  <2>4. ClientOK(c)'
    BY <1>4, <1>3, <2>1, <2>2, <2>3 DEF ClientOK, Double, Settled, Party, Deciding
  <2>5. net' \subseteq net
    BY <1>8 DEF HandleAlive, Takes
  <2>6. \A n \in net : MessageOK(n)'
    BY <1>1, <1>2, <1>3, <1>11, <2>2, <2>3, MessageStays, MessageFields
  <2> QED BY <2>4, <2>5, <2>6
<1> QED BY <1>6, <1>7, <1>8

-----------------------------------------------------------------------------
(* Steps of the server. *)

\* While keys or shares come, and when they have come: no client has a mask yet.
LEMMA ExchangeStep ==
  ASSUME SSAInv, SSATypeOK', ~Settled, UNCHANGED <<mode, client, total>>,
         server'.stage # "DecryptResult", server'.stage = "ExchangeEncryptedShare" => Double,
         server'.results = server.results, server'.secrets = server.secrets,
         server'.ready = server.ready, server'.decrypt = server.decrypt,
         server'.b = server.b, server'.s = server.s,
         \A m \in net' : m \in net \/ MessageOK(m)'
  PROVE  SSAInv'
<1>1. \A c \in Client : ClientOK(c)'
  BY Unsettled DEF SSAInv, ClientOK, Double
<1>2. ASSUME NEW m \in net PROVE MessageOK(m)'
  <2>1. /\ m.type \notin {"shares", "update", "alive", "secrets"}
        /\ m.type = "public_keys" => Double
    BY UnsettledMessages
  <2>2. Double' = Double
    BY DEF Double
  <2> QED BY <2>1, <2>2 DEF MessageOK
<1>3. ServerOK'
  BY Unsettled DEF ServerOK, Double, Deciding
<1>4. server.results = {} /\ total = Accounted /\ server.decrypt \notin {"waits", "done"}
  BY Unsettled
<1>5. Accounted' = NoMask
  BY <1>4 DEF Accounted, NoMask
<1>6. TotalOK'
  BY <1>4, <1>5, NothingAccounted DEF TotalOK
<1>7. EnoughAnswersUnmask'
  BY Unsettled DEF EnoughAnswersUnmask
<1> QED BY <1>1, <1>2, <1>3, <1>6, <1>7 DEF SSAInv

\* What going on to the next stage leaves of the server.
LEMMA StageFields ==
  ASSUME NEW srv \in Server
  PROVE  /\ ExchangePublicKeys(srv).stage =
              IF Double THEN "ExchangeEncryptedShare" ELSE "CiphertextAggregate"
         /\ ExchangePublicKeys(srv).keys = srv.keys
         /\ ExchangeEncryptedShares(srv).stage = "CiphertextAggregate"
         /\ ExchangeEncryptedShares(srv).shares = srv.shares
         /\ \A nxt \in {ExchangePublicKeys(srv), ExchangeEncryptedShares(srv)} :
              /\ nxt.results = srv.results /\ nxt.secrets = srv.secrets
              /\ nxt.ready = srv.ready /\ nxt.decrypt = srv.decrypt
              /\ nxt.b = srv.b /\ nxt.s = srv.s
<1>1. /\ ExchangePublicKeys(srv).stage =
           IF Double THEN "ExchangeEncryptedShare" ELSE "CiphertextAggregate"
      /\ ExchangePublicKeys(srv).keys = srv.keys
      /\ ExchangePublicKeys(srv).results = srv.results
      /\ ExchangePublicKeys(srv).secrets = srv.secrets
      /\ ExchangePublicKeys(srv).ready = srv.ready
      /\ ExchangePublicKeys(srv).decrypt = srv.decrypt
      /\ ExchangePublicKeys(srv).b = srv.b /\ ExchangePublicKeys(srv).s = srv.s
  BY DEF ExchangePublicKeys, Server
<1>2. /\ ExchangeEncryptedShares(srv).stage = "CiphertextAggregate"
      /\ ExchangeEncryptedShares(srv).shares = srv.shares
      /\ ExchangeEncryptedShares(srv).results = srv.results
      /\ ExchangeEncryptedShares(srv).secrets = srv.secrets
      /\ ExchangeEncryptedShares(srv).ready = srv.ready
      /\ ExchangeEncryptedShares(srv).decrypt = srv.decrypt
      /\ ExchangeEncryptedShares(srv).b = srv.b /\ ExchangeEncryptedShares(srv).s = srv.s
  BY DEF ExchangeEncryptedShares, Failed, Server
<1> QED BY <1>1, <1>2

LEMMA KeysGoOut ==
  ASSUME NEW srv \in Server, UNCHANGED mode, server' = ExchangePublicKeys(srv),
         NEW m \in SentKeys(srv)
  PROVE  MessageOK(m)'
<1>1. PICK c \in srv.keys : m = PublicKeys(c, srv.keys)
  BY DEF SentKeys
<1>2. m.type = "public_keys" /\ m.to = c /\ m.keys = srv.keys
  BY <1>1 DEF PublicKeys
<1>3. server'.keys = srv.keys /\ (~Double => server'.stage = "CiphertextAggregate")
  BY StageFields
<1> QED BY <1>2, <1>3 DEF MessageOK, Double, Settled

LEMMA SharesGoOut ==
  ASSUME NEW srv \in Server, UNCHANGED mode, Double, server' = ExchangeEncryptedShares(srv),
         NEW m \in SentShares(srv)
  PROVE  MessageOK(m)'
<1>1. PICK c \in srv.shares : m = Shares(c, srv.shares \ {c})
  BY DEF SentShares
<1>2. m.type = "shares" /\ m.to = c /\ m.peers = srv.shares \ {c}
  BY <1>1 DEF Shares
<1>3. server'.shares = srv.shares /\ server'.stage = "CiphertextAggregate"
  BY StageFields
<1> QED BY <1>2, <1>3 DEF MessageOK, Double, Settled

LEMMA PublicKeyInv ==
  ASSUME SSAInv, SSATypeOK', NEW c \in Client, HandlePublicKey(c)
  PROVE  SSAInv'
<1> DEFINE srv == [server EXCEPT !.keys = @ \cup {c}]
<1>1. server \in Server
  BY DEF SSAInv, SSATypeOK
<1>2. /\ srv \in Server /\ srv.stage = "ExchangePublicKey" /\ srv.results = server.results
      /\ srv.secrets = server.secrets /\ srv.ready = server.ready
      /\ srv.decrypt = server.decrypt /\ srv.b = server.b /\ srv.s = server.s
  BY <1>1 DEF HandlePublicKey, Server
<1>3. ~Settled /\ UNCHANGED <<mode, client, total>>
  BY DEF HandlePublicKey, Settled
<1>4. \/ server' = srv /\ net' \subseteq net
      \/ server' = ExchangePublicKeys(srv) /\ net' \subseteq net \cup SentKeys(srv)
  BY DEF HandlePublicKey, Takes
<1> HIDE DEF srv
<1>5. CASE server' = srv /\ net' \subseteq net
  BY <1>2, <1>3, <1>5, ExchangeStep
<1>6. CASE server' = ExchangePublicKeys(srv) /\ net' \subseteq net \cup SentKeys(srv)
  <2>1. \A m \in SentKeys(srv) : MessageOK(m)'
    BY <1>2, <1>3, <1>6, KeysGoOut
  <2> QED BY <1>2, <1>3, <1>6, <2>1, StageFields, ExchangeStep
<1> QED BY <1>4, <1>5, <1>6

LEMMA EncryptedSharesInv ==
  ASSUME SSAInv, SSATypeOK', NEW c \in Client, HandleEncryptedShares(c)
  PROVE  SSAInv'
<1> DEFINE srv == [server EXCEPT !.shares = @ \cup {c}]
<1>1. server \in Server /\ Double
  BY DEF SSAInv, SSATypeOK, ServerOK, HandleEncryptedShares
<1>2. /\ srv \in Server /\ srv.stage = "ExchangeEncryptedShare" /\ srv.results = server.results
      /\ srv.secrets = server.secrets /\ srv.ready = server.ready
      /\ srv.decrypt = server.decrypt /\ srv.b = server.b /\ srv.s = server.s
  BY <1>1 DEF HandleEncryptedShares, Server
<1>3. ~Settled /\ UNCHANGED <<mode, client, total>>
  BY DEF HandleEncryptedShares, Settled
<1>4. \/ server' = srv /\ net' \subseteq net
      \/ server' = ExchangeEncryptedShares(srv) /\ net' \subseteq net \cup SentShares(srv)
  BY DEF HandleEncryptedShares, Takes
<1> HIDE DEF srv
<1>5. CASE server' = srv /\ net' \subseteq net
  BY <1>1, <1>2, <1>3, <1>5, ExchangeStep
<1>6. CASE server' = ExchangeEncryptedShares(srv) /\ net' \subseteq net \cup SentShares(srv)
  <2>1. \A m \in SentShares(srv) : MessageOK(m)'
    BY <1>1, <1>2, <1>3, <1>6, SharesGoOut
  <2> QED BY <1>1, <1>2, <1>3, <1>6, <2>1, StageFields, ExchangeStep
<1> QED BY <1>4, <1>5, <1>6

\* Once the masks are settled the messages and the clients depend on nothing else.
LEMMA SettledStep ==
  ASSUME SSAInv, Settled, Settled', UNCHANGED <<mode, client>>, Deciding => Deciding',
         server'.keys = server.keys, server'.shares = server.shares,
         server'.results = server.results
  PROVE  /\ \A m \in net : MessageOK(m)'
         /\ \A c \in Client : ClientOK(c)'
         /\ Accounted' = Accounted /\ Dropped(server)' = Dropped(server)
<1>1. Dropped(server)' = Dropped(server) /\ Double' = Double /\ Party' = Party
  BY DEF Dropped, Double, Party
<1>2. \A m \in net : MessageOK(m)'
  BY <1>1 DEF SSAInv, MessageOK
<1>3. \A c \in Client : ClientOK(c)'
  BY <1>1 DEF SSAInv, ClientOK
<1>4. Accounted' = Accounted
  BY <1>1 DEF Accounted
<1> QED BY <1>1, <1>2, <1>3, <1>4

\* Each secret is known from all who have answered, so their number decides.
LEMMA AnswersDecide ==
  ASSUME SSAAssumption, NEW srv \in Server, srv.ready \/ ~srv.error,
         \A c \in srv.results : srv.b[c] = srv.secrets,
         \A c \in Dropped(srv) : srv.s[c] = srv.secrets,
         ~srv.error, GenerateDoubleMask(srv).error
  PROVE  Cardinality(srv.secrets) < min_client_num
<1>1. IsFiniteSet(srv.secrets)
  BY FS_Subset DEF SSAAssumption, Server
<1>2. Cardinality(srv.secrets) \in Nat /\ Cardinality({}) = 0
  BY <1>1, FS_CardinalityType, FS_EmptySet
<1>3. min_client_num \in Nat /\ 2 <= min_client_num
  BY DEF SSAAssumption
<1>4. ~CanUnmask(srv)
  BY DEF GenerateDoubleMask, Server
<1>5. CASE srv.secrets = {}
  BY <1>2, <1>3, <1>5
<1>6. CASE srv.secrets # {}
  BY <1>2, <1>3, <1>4, <1>6 DEF CanUnmask
<1> QED BY <1>5, <1>6

LEMMA GenerateFields ==
  ASSUME NEW srv \in Server
  PROVE  LET nxt == GenerateDoubleMask(srv) IN
         /\ nxt.stage = srv.stage /\ nxt.keys = srv.keys /\ nxt.shares = srv.shares
         /\ nxt.results = srv.results /\ nxt.secrets = srv.secrets /\ nxt.b = srv.b
         /\ nxt.s = srv.s /\ nxt.decrypt = srv.decrypt /\ nxt.wait = srv.wait
         /\ nxt.ready /\ ~nxt.registered
BY DEF GenerateDoubleMask, Server

\* The secrets are put together, or not, from a server that has them right.
LEMMA GenerateStep ==
  ASSUME SSAAssumption, SSAInv, SSATypeOK', Deciding, ~server.ready,
         UNCHANGED <<mode, client, total>>, net' \subseteq net, NEW srv \in Server,
         server' = GenerateDoubleMask(srv) \/ server' = srv,
         /\ srv.stage = server.stage /\ srv.keys = server.keys /\ srv.shares = server.shares
         /\ srv.results = server.results /\ srv.decrypt = server.decrypt
         /\ srv.wait = server.wait /\ srv.ready = server.ready /\ srv.error = server.error,
         \A c \in Client :
           /\ srv.b[c] = IF c \in srv.results THEN srv.secrets ELSE {}
           /\ srv.s[c] = IF c \in Dropped(srv) THEN srv.secrets ELSE {}
  PROVE  SSAInv'
<1>1. ServerOK /\ TotalOK /\ server.stage = "DecryptResult" /\ Double
  BY DEF SSAInv, Deciding
<1>2. ~server.error /\ ~server.wait
  BY <1>1 DEF ServerOK
<1>3. /\ server'.stage = srv.stage /\ server'.keys = srv.keys /\ server'.shares = srv.shares
      /\ server'.results = srv.results /\ server'.secrets = srv.secrets
      /\ server'.b = srv.b /\ server'.s = srv.s /\ server'.decrypt = srv.decrypt
      /\ server'.wait = srv.wait
      /\ server'.ready => ~server'.registered /\ server' = GenerateDoubleMask(srv)
      /\ ~server'.ready => server' = srv
  BY GenerateFields
<1>4. Settled /\ Settled' /\ Deciding'
  BY <1>1, <1>3 DEF Settled, Deciding, Double
<1>5. /\ (\A m \in net : MessageOK(m)') /\ (\A c \in Client : ClientOK(c)')
      /\ Accounted' = Accounted /\ Dropped(server)' = Dropped(server)
  BY <1>3, <1>4, SettledStep
<1>6. Dropped(srv) = Dropped(server)
  BY DEF Dropped
<1>7. ServerOK'
  BY <1>1, <1>2, <1>3, <1>4, <1>5, <1>6 DEF ServerOK, Double
<1>8. TotalOK'
  BY <1>1, <1>3, <1>5 DEF TotalOK, Double
<1>9. srv.results \subseteq Client /\ Dropped(srv) \subseteq Client
  BY DEF Server, Dropped
<1>10. EnoughAnswersUnmask'
  BY <1>2, <1>3, <1>9, AnswersDecide DEF EnoughAnswersUnmask
<1> QED BY <1>5, <1>7, <1>8, <1>10 DEF SSAInv

LEMMA SecretSharesInv ==
  ASSUME SSAAssumption, SSAInv, SSATypeOK', NEW m \in net, m.type = "secrets",
         HandleSecretShares(m)
  PROVE  SSAInv'
<1> DEFINE srv == [server EXCEPT !.secrets = @ \cup {m.from},
                                 !.b = Reconstructed(@, m.b, m.from),
                                 !.s = Reconstructed(@, m.s, m.from)]
<1>1. m \in Message /\ m.from \in Client /\ MessageOK(m) /\ server \in Server /\ ServerOK
  BY MessageFields DEF SSAInv, SSATypeOK
<1>2. Deciding /\ m.b = server.results /\ m.s = Dropped(server)
  BY <1>1 DEF MessageOK
<1>3. ~server.ready
  BY <1>1 DEF ServerOK, HandleSecretShares
<1>4. srv \in Server
  BY <1>1, ReconstructedType DEF Server
<1>5. /\ srv.stage = server.stage /\ srv.keys = server.keys /\ srv.shares = server.shares
      /\ srv.results = server.results /\ srv.decrypt = server.decrypt
      /\ srv.wait = server.wait /\ srv.ready = server.ready /\ srv.error = server.error
  BY <1>1 DEF Server
<1>6. /\ srv.secrets = server.secrets \cup {m.from}
      /\ srv.b = Reconstructed(server.b, server.results, m.from)
      /\ srv.s = Reconstructed(server.s, Dropped(server), m.from)
  BY <1>1, <1>2 DEF Server
<1>7. server' = GenerateDoubleMask(srv) \/ server' = srv
  BY DEF HandleSecretShares
<1> HIDE DEF srv
<1>8. Dropped(srv) = Dropped(server)
  BY <1>5 DEF Dropped
<1>9. ASSUME NEW c \in Client
      PROVE  /\ srv.b[c] = IF c \in srv.results THEN srv.secrets ELSE {}
             /\ srv.s[c] = IF c \in Dropped(srv) THEN srv.secrets ELSE {}
  <2>1. /\ server.b[c] = IF c \in server.results THEN server.secrets ELSE {}
        /\ server.s[c] = IF c \in Dropped(server) THEN server.secrets ELSE {}
    BY <1>1 DEF ServerOK
  <2>2. srv.b[c] = IF c \in server.results THEN server.b[c] \cup {m.from} ELSE server.b[c]
    BY <1>6 DEF Reconstructed
  <2>3. srv.s[c] = IF c \in Dropped(server) THEN server.s[c] \cup {m.from} ELSE server.s[c]
    BY <1>6 DEF Reconstructed
  <2>4. srv.results = server.results /\ Dropped(srv) = Dropped(server)
        /\ srv.secrets = server.secrets \cup {m.from}
    BY <1>5, <1>6, <1>8
  <2> QED BY <2>1, <2>2, <2>3, <2>4
<1>10. UNCHANGED <<mode, client, total>> /\ net' \subseteq net
  BY DEF HandleSecretShares, Takes
<1> QED BY <1>2, <1>3, <1>4, <1>5, <1>7, <1>9, <1>10, GenerateStep

LEMMA StageTimeoutInv ==
  ASSUME SSAAssumption, SSAInv, SSATypeOK', StageTimeout
  PROVE  SSAInv'
<1>1. server \in Server /\ ServerOK /\ UNCHANGED <<mode, client, total>>
  BY DEF SSAInv, SSATypeOK, StageTimeout
<1>2. CASE /\ server.stage = "ExchangePublicKey" /\ server' = ExchangePublicKeys(server)
           /\ net' = net \cup SentKeys(server)
  <2>1. \A m \in SentKeys(server) : MessageOK(m)'
    BY <1>1, <1>2, KeysGoOut
  <2>2. ~Settled
    BY <1>2 DEF Settled
  <2> QED BY <1>1, <1>2, <2>1, <2>2, StageFields, ExchangeStep
<1>3. CASE /\ server.stage = "ExchangeEncryptedShare"
           /\ server' = ExchangeEncryptedShares(server) /\ net' = net \cup SentShares(server)
  <2>1. Double
    BY <1>1, <1>3 DEF ServerOK
  <2>2. \A m \in SentShares(server) : MessageOK(m)'
    BY <1>1, <1>3, <2>1, SharesGoOut
  <2>3. ~Settled
    BY <1>3 DEF Settled
  <2> QED BY <1>1, <1>3, <2>2, <2>3, StageFields, ExchangeStep
<1>4. CASE /\ Double /\ server.stage = "DecryptResult" /\ ~server.ready
           /\ server' = GenerateDoubleMask(server) /\ net' = net
  <2>1. Deciding
    BY <1>4 DEF Deciding
  <2>2. \A c \in Client :
          /\ server.b[c] = IF c \in server.results THEN server.secrets ELSE {}
          /\ server.s[c] = IF c \in Dropped(server) THEN server.secrets ELSE {}
    BY <1>1 DEF ServerOK
  <2> QED BY <1>1, <1>4, <2>1, <2>2, GenerateStep
<1> QED BY <1>2, <1>3, <1>4 DEF StageTimeout

LEMMA AggregateTimeoutInv ==
  ASSUME SSAInv, SSATypeOK', AggregateTimeout
  PROVE  SSAInv'
<1>1. server \in Server /\ ServerOK /\ TotalOK /\ server.wait
      /\ UNCHANGED <<mode, client, total, net>>
  BY DEF SSAInv, SSATypeOK, AggregateTimeout
<1>2. server.stage # "DecryptResult" /\ ~server.ready
  BY <1>1 DEF ServerOK, Deciding
<1>3. /\ server'.stage = server.stage /\ server'.keys = server.keys
      /\ server'.shares = server.shares /\ server'.results = server.results
      /\ server'.secrets = server.secrets /\ server'.ready = server.ready
      /\ server'.b = server.b /\ server'.s = server.s /\ server'.decrypt = server.decrypt
  BY <1>1 DEF AggregateTimeout, Failed, Server
<1>4. CASE ~Settled
  BY <1>1, <1>2, <1>3, <1>4, ExchangeStep DEF ServerOK
<1>5. CASE Settled
  <2>1. Settled' /\ Deciding' = Deciding /\ Double' = Double
    BY <1>1, <1>3, <1>5 DEF Settled, Deciding, Double
  <2>2. /\ (\A m \in net : MessageOK(m)') /\ (\A c \in Client : ClientOK(c)')
        /\ Accounted' = Accounted /\ Dropped(server)' = Dropped(server)
    BY <1>1, <1>3, <1>5, <2>1, SettledStep
  <2>3. ServerOK'
    BY <1>1, <1>2, <1>3, <2>1, <2>2 DEF ServerOK
  <2>4. TotalOK'
    BY <1>1, <1>3, <2>1, <2>2 DEF TotalOK
  <2>5. EnoughAnswersUnmask'
    BY <1>2, <1>3 DEF EnoughAnswersUnmask
  <2> QED BY <1>1, <2>2, <2>3, <2>4, <2>5 DEF SSAInv
<1> QED BY <1>4, <1>5

LEMMA AccumulateInv ==
  ASSUME SSAInv, SSATypeOK', NEW c \in Client, Update(c) \in net, CiphertextAccumulate(c)
  PROVE  SSAInv'
<1>1. server \in Server /\ ServerOK /\ TotalOK /\ ClientOK(c) /\ MessageOK(Update(c))
  BY DEF SSAInv, SSATypeOK
<1>2. server.stage = "CiphertextAggregate" /\ UNCHANGED <<mode, client>>
      /\ total' = Accumulated(c) /\ net' = net \ {Update(c)}
  BY DEF CiphertextAccumulate, Takes
<1>3. client[c].file = "used" /\ c \notin server.results
  BY <1>1 DEF MessageOK, Update
<1>4. c \in Party /\ client[c].peers = Party \ {c}
  BY <1>1, <1>3 DEF ClientOK
<1>5. server' = [server EXCEPT !.results = @ \cup {c}]
  BY DEF CiphertextAccumulate
<1>6. /\ server'.stage = "CiphertextAggregate" /\ server'.keys = server.keys
      /\ server'.shares = server.shares /\ server'.results = server.results \cup {c}
      /\ server'.secrets = server.secrets /\ server'.ready = server.ready
      /\ server'.b = server.b /\ server'.s = server.s /\ server'.decrypt = server.decrypt
  BY <1>1, <1>2, <1>5 DEF Server
<1>7. Settled /\ Settled' /\ ~Deciding /\ ~Deciding' /\ Party' = Party /\ Double' = Double
  BY <1>2, <1>6 DEF Settled, Deciding, Party, Double
<1>8. ASSUME NEW m \in net' PROVE MessageOK(m)'
  <2>1. m \in Message /\ m # Update(c) /\ MessageOK(m)
    BY <1>2, <1>8 DEF SSAInv, SSATypeOK
  <2>2. m.type = "update" => m.from # c
    BY <2>1 DEF Message, Update
  <2>3. m.type = "update" => client'[m.from].file = "used" /\ m.from \notin server'.results
    BY <1>2, <1>6, <2>1, <2>2 DEF MessageOK
  <2> QED BY <1>6, <1>7, <2>1, <2>3 DEF MessageOK
<1>9. ASSUME NEW d \in Client PROVE ClientOK(d)'
  <2>1. ClientOK(d) /\ client' = client
    BY <1>2 DEF SSAInv
  <2> QED BY <1>3, <1>6, <1>7, <2>1 DEF ClientOK
<1>10. server.secrets = {} /\ ~server.ready /\ server.decrypt \notin {"waits", "done"}
       /\ \A d \in Client : server.b[d] = {} /\ server.s[d] = {}
  BY <1>1, <1>2, <1>7 DEF ServerOK
<1>11. ServerOK'
  BY <1>6, <1>7, <1>10 DEF ServerOK
<1>12. total = Accounted
  BY <1>1, <1>10 DEF TotalOK
<1>13. total' = Accounted'
  <2>1. \A d \in Client : total.b[d] = IF Double /\ d \in server.results THEN 1 ELSE 0
    BY <1>12 DEF Accounted
  <2>2. \A p \in Pair :
          total.s[p] = (IF p[1] \in server.results /\ p[2] \in Party THEN 1 ELSE 0)
                       - (IF p[2] \in server.results /\ p[1] \in Party THEN 1 ELSE 0)
    BY <1>12 DEF Accounted
  <2>3. ASSUME NEW d \in Client
        PROVE  total.b[d] + (IF d = c /\ Double THEN 1 ELSE 0) =
                 IF Double' /\ d \in server'.results THEN 1 ELSE 0
    BY <1>3, <1>6, <1>7, <2>1
  <2>4. ASSUME NEW p \in Pair
        PROVE  total.s[p] + MaskOfPair(c, Party \ {c}, p) =
                 (IF p[1] \in server'.results /\ p[2] \in Party' THEN 1 ELSE 0)
                 - (IF p[2] \in server'.results /\ p[1] \in Party' THEN 1 ELSE 0)
    <3>1. p[1] # p[2]
      <4>1. p[1] \in Nat /\ p[2] \in Nat /\ p[1] > p[2]
        BY SSAAssumption DEF Pair, SSAAssumption
      <4> QED BY <4>1
    <3>2. CASE p[1] = c
      BY <1>3, <1>4, <1>6, <1>7, <2>2, <3>1, <3>2 DEF MaskOfPair
    <3>3. CASE p[2] = c
      BY <1>3, <1>4, <1>6, <1>7, <2>2, <3>1, <3>3 DEF MaskOfPair
    <3>4. CASE p[1] # c /\ p[2] # c
      BY <1>3, <1>4, <1>6, <1>7, <2>2, <3>1, <3>4 DEF MaskOfPair
    <3> QED BY <3>2, <3>3, <3>4
  <2> QED BY <1>2, <1>4, <2>3, <2>4 DEF Accumulated, Accounted
<1>14. TotalOK' /\ EnoughAnswersUnmask'
  BY <1>6, <1>10, <1>13 DEF TotalOK, EnoughAnswersUnmask
<1> QED BY <1>8, <1>9, <1>11, <1>14 DEF SSAInv

\* A round decrypts only when updates are in.
LEMMA SomeResults ==
  ASSUME SSAAssumption, SSAInv, Cardinality(server.results) >= threshold
  PROVE  Settled
<1>1. CASE server.results = {}
  BY <1>1, FS_EmptySet DEF SSAAssumption
<1>2. CASE server.results # {}
  BY <1>2, Unsettled
<1> QED BY <1>1, <1>2

LEMMA DecryptInv ==
  ASSUME SSAAssumption, SSAInv, SSATypeOK', Decrypt
  PROVE  SSAInv'
<1>1. server \in Server /\ ServerOK /\ TotalOK /\ EnoughAnswersUnmask /\ Settled
      /\ UNCHANGED <<mode, client, total>> /\ Double /\ server.decrypt = "none"
  BY SomeResults DEF SSAInv, SSATypeOK, Decrypt
<1>2. /\ server'.keys = server.keys /\ server'.shares = server.shares
      /\ server'.results = server.results /\ server'.secrets = server.secrets
      /\ server'.b = server.b /\ server'.s = server.s /\ server'.ready = server.ready
      /\ server'.registered = server.registered /\ server'.error = server.error
      /\ ~server'.wait
  <2>1. \/ server' = [server EXCEPT !.wait = FALSE, !.decrypt = "failed"]
        \/ server' = [server EXCEPT !.wait = FALSE, !.stage = "DecryptResult",
                                    !.decrypt = "waits"]
    BY DEF Decrypt
  <2> QED BY <1>1, <2>1 DEF Server
<1>3. /\ server.error /\ server'.decrypt = "failed" /\ server'.stage = server.stage
         /\ net' = net
      \/ /\ ~server.error /\ server'.decrypt = "waits" /\ server'.stage = "DecryptResult"
         /\ net' = net \cup {Alive(c, server.results) : c \in server.results}
  BY <1>1 DEF Decrypt, Server
<1>4. Settled' /\ Double' = Double /\ (Deciding => Deciding')
  BY <1>1, <1>3 DEF Settled, Deciding, Double
<1>5. /\ (\A m \in net : MessageOK(m)') /\ (\A c \in Client : ClientOK(c)')
      /\ Accounted' = Accounted /\ Dropped(server)' = Dropped(server)
  BY <1>1, <1>2, <1>4, SettledStep
<1>6. ASSUME NEW m \in net' PROVE MessageOK(m)'
  <2>1. CASE m \in net
    BY <1>5, <2>1
  <2>2. CASE m \notin net
    <3>1. ~server.error
      BY <1>3, <2>2
    <3>2. PICK c \in server.results : m = Alive(c, server.results)
      BY <1>3, <2>2
    <3>3. m.type = "alive" /\ m.to = c /\ m.alive = server.results
      BY <3>2 DEF Alive
    <3>4. Deciding'
      BY <1>1, <1>3, <1>4, <3>1 DEF Deciding
    <3> QED BY <1>2, <3>3, <3>4 DEF MessageOK
  <2> QED BY <2>1, <2>2
<1>7. ServerOK'
  BY <1>1, <1>2, <1>3, <1>4, <1>5 DEF ServerOK, Deciding
<1>8. TotalOK' /\ EnoughAnswersUnmask'
  BY <1>1, <1>2, <1>3, <1>5 DEF TotalOK, EnoughAnswersUnmask
<1> QED BY <1>5, <1>6, <1>7, <1>8 DEF SSAInv

LEMMA DecryptSimpleInv ==
  ASSUME SSAAssumption, SSAInv, SSATypeOK', DecryptSimple
  PROVE  SSAInv'
<1>1. server \in Server /\ ServerOK /\ TotalOK /\ EnoughAnswersUnmask /\ Settled
      /\ UNCHANGED <<mode, client, total, net>> /\ ~Double /\ server.decrypt = "none"
  BY SomeResults DEF SSAInv, SSATypeOK, DecryptSimple
<1>2. /\ server'.keys = server.keys /\ server'.shares = server.shares
      /\ server'.results = server.results /\ server'.secrets = server.secrets
      /\ server'.b = server.b /\ server'.s = server.s /\ server'.ready = server.ready
      /\ server'.registered = server.registered /\ server'.error = server.error
      /\ ~server'.wait
  <2>1. \/ server' = [server EXCEPT !.wait = FALSE, !.decrypt = "failed"]
        \/ server' = [server EXCEPT !.wait = FALSE, !.stage = "DecryptResult",
                                    !.decrypt = "done"]
    BY DEF DecryptSimple
  <2> QED BY <1>1, <2>1 DEF Server
<1>3. \/ server'.decrypt = "failed" /\ server'.stage = server.stage
      \/ /\ ~server.error /\ server'.decrypt = "done" /\ server'.stage = "DecryptResult"
         /\ server.results = server.keys
  BY <1>1 DEF DecryptSimple, Server
<1>4. Settled' /\ Double' = Double /\ ~Deciding /\ ~Deciding'
  BY <1>1, <1>3 DEF Settled, Deciding, Double
<1>5. /\ (\A m \in net : MessageOK(m)') /\ (\A c \in Client : ClientOK(c)')
      /\ Accounted' = Accounted /\ Dropped(server)' = Dropped(server)
  BY <1>1, <1>2, <1>4, SettledStep
<1>6. ServerOK'
  BY <1>1, <1>2, <1>3, <1>4, <1>5 DEF ServerOK
<1>7. TotalOK' /\ EnoughAnswersUnmask'
  BY <1>1, <1>2, <1>4, <1>5 DEF TotalOK, EnoughAnswersUnmask
<1> QED BY <1>1, <1>5, <1>6, <1>7 DEF SSAInv

\* With the masks of the answers taken out nothing is left.
LEMMA UnmaskedIsClear ==
  ASSUME SSAInv, Double, total = Accounted
  PROVE  Unmasked(server) = NoMask
<1>1. server.results \subseteq Client /\ server.shares \subseteq Client
  BY DEF SSAInv, SSATypeOK, Server
<1>2. server.results \subseteq server.shares
  BY <1>1 DEF SSAInv, ClientOK, Party
<1>3. \A d \in Client : total.b[d] = IF d \in server.results THEN 1 ELSE 0
  BY DEF Accounted
<1>4. \A p \in Pair :
        total.s[p] = (IF p[1] \in server.results /\ p[2] \in server.shares THEN 1 ELSE 0)
                     - (IF p[2] \in server.results /\ p[1] \in server.shares THEN 1 ELSE 0)
  BY DEF Accounted, Party
<1>5. \A d \in Client : total.b[d] - (IF d \in server.results THEN 1 ELSE 0) = 0
  BY <1>3
<1>6. ASSUME NEW p \in Pair
      PROVE  total.s[p] + (IF p[1] \in Dropped(server) /\ p[2] \in server.results THEN 1
                           ELSE IF p[2] \in Dropped(server) /\ p[1] \in server.results
                           THEN -1 ELSE 0) = 0
  BY <1>2, <1>4 DEF Dropped
<1> QED BY <1>5, <1>6 DEF Unmasked, NoMask

LEMMA DecryptEndsInv ==
  ASSUME SSAInv, SSATypeOK', DecryptEnds
  PROVE  SSAInv'
<1>1. server \in Server /\ ServerOK /\ TotalOK /\ EnoughAnswersUnmask
      /\ UNCHANGED <<mode, client, net>> /\ server.decrypt = "waits" /\ server.ready
  BY DEF SSAInv, SSATypeOK, DecryptEnds
<1>2. Deciding /\ Double /\ Settled /\ total = Accounted
  BY <1>1 DEF ServerOK, TotalOK, Deciding, Settled
<1>3. /\ server'.stage = server.stage
      /\ server'.keys = server.keys /\ server'.shares = server.shares
      /\ server'.results = server.results /\ server'.secrets = server.secrets
      /\ server'.b = server.b /\ server'.s = server.s /\ server'.ready = server.ready
      /\ server'.registered = server.registered /\ server'.error = server.error
      /\ server'.wait = server.wait
  BY <1>1 DEF DecryptEnds, Server
<1>4. \/ server'.decrypt = "failed" /\ total' = total
      \/ server'.decrypt = "done" /\ total' = Unmasked(server)
  BY <1>1 DEF DecryptEnds, Server
<1>5. Settled' /\ Double' = Double /\ Deciding'
  BY <1>1, <1>2, <1>3 DEF Settled, Deciding, Double
<1>6. /\ (\A m \in net : MessageOK(m)') /\ (\A c \in Client : ClientOK(c)')
      /\ Accounted' = Accounted /\ Dropped(server)' = Dropped(server)
  BY <1>1, <1>2, <1>3, <1>5, SettledStep
<1>7. ServerOK'
  BY <1>1, <1>2, <1>3, <1>5, <1>6 DEF ServerOK, Deciding
<1>8. Unmasked(server) = NoMask
  BY <1>2, UnmaskedIsClear
<1>9. TotalOK'
  BY <1>2, <1>4, <1>5, <1>6, <1>8 DEF TotalOK
<1>10. EnoughAnswersUnmask'
  BY <1>1, <1>3 DEF EnoughAnswersUnmask
<1> QED BY <1>1, <1>6, <1>7, <1>9, <1>10 DEF SSAInv

\* A message that is lost or refused leaves all as it was.
LEMMA NothingHappens ==
  ASSUME SSAInv, SSATypeOK', UNCHANGED <<mode, server, client, total>>, net' \subseteq net
  PROVE  SSAInv'
<1>1. \A m \in net : MessageOK(m)'
  BY MessageStays DEF SSAInv
<1>2. \A c \in Client : ClientOK(c)'
  BY ClientStays DEF SSAInv
<1> QED BY <1>1, <1>2, ClientSideStep

LEMMA DeliveredInv ==
  ASSUME SSAAssumption, SSAInv, SSATypeOK', NEW m \in net, Delivered(m) \/ Lose(m)
  PROVE  SSAInv'
<1>1. m \in Message
  BY DEF SSAInv, SSATypeOK
<1>2. CASE Lose(m) \/ Refuses(m)
  BY <1>2, NothingHappens DEF Lose, Refuses, Takes
<1>3. CASE m.type = "update" /\ CiphertextAccumulate(m.from)
  <2>1. m = Update(m.from) /\ m.from \in Client
    BY <1>1, <1>3 DEF Message, Update
  <2> QED BY <1>3, <2>1, AccumulateInv
<1>4. CASE Delivered(m) /\ ~(Refuses(m) \/ (m.type = "update" /\ CiphertextAccumulate(m.from)))
  BY <1>1, <1>4, MessageFields, PublicKeyInv, EncryptedSharesInv, SecretSharesInv,
     ClientReceiveInv DEF Delivered
<1> QED BY <1>2, <1>3, <1>4

LEMMA InvNext == SSAAssumption /\ SSAInv /\ [SSANext]_ssaVars => SSAInv'
<1> SUFFICES ASSUME SSAAssumption, SSAInv, [SSANext]_ssaVars PROVE SSAInv'
  OBVIOUS
<1>1. SSATypeOK'
  BY NextTypes DEF SSAInv
<1>2. CASE UNCHANGED ssaVars
  BY <1>1, <1>2, NothingHappens DEF ssaVars
<1>3. CASE SSANext
  BY <1>1, <1>3, DecryptInv, DecryptSimpleInv, DecryptEndsInv, StageTimeoutInv,
     AggregateTimeoutInv, ClientStepInv, DeliveredInv DEF SSANext
<1> QED BY <1>2, <1>3

LEMMA InvHolds == SSASpec => []SSAInv
BY SSAAssumption, InvInit, InvNext, PTL DEF SSASpec, SSASafety

-----------------------------------------------------------------------------
(* What is promised. *)

LEMMA InvCancels == SSAInv => MasksCancel
<1> SUFFICES ASSUME SSAInv, server.decrypt = "done" PROVE total = NoMask
  BY DEF MasksCancel
<1>1. CASE Double
  BY <1>1 DEF SSAInv, TotalOK
<1>2. CASE ~Double
  <2>1. total = Accounted /\ server.results = server.keys
    BY <1>2 DEF SSAInv, TotalOK, ServerOK
  <2> QED BY <1>2, <2>1 DEF Accounted, NoMask, Party
<1> QED BY <1>1, <1>2

\* However clients drop out and messages are lost, the total the round gets holds no
\* mask, with any clients and thresholds: __do_decrypt takes out what is left.
THEOREM MasksAlwaysCancel == SSASpec => []MasksCancel
BY InvHolds, InvCancels, PTL

\* The server never learns both secrets of one client (__take_out_shares).
THEOREM NeverBothSecrets == SSASpec => []OneSecretEach
<1>1. SSAInv => OneSecretEach
  BY DEF SSAInv, ServerOK, OneSecretEach, Dropped
<1> QED BY <1>1, InvHolds, PTL

\* As many answers as recover a secret are enough for all (__generate_double_mask).
THEOREM AnswersAreEnough == SSASpec => []EnoughAnswersUnmask
<1>1. SSAInv => EnoughAnswersUnmask
  BY DEF SSAInv
<1> QED BY <1>1, InvHolds, PTL
==============================================================================
