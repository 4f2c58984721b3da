---------------------------- MODULE MobileProofs ----------------------------
(***************************************************************************)
(* The Seeker app: LinkInv is an invariant of the connection (MobileLink)  *)
(* and JobsInv one of the app with its jobs (MobileJobs), step by step.    *)
(***************************************************************************)
EXTENDS MobileJobs, FiniteSetTheorems, TLAPS

\* Leaves are proved by Zenon; those that need arithmetic or the theory of
\* sequences and records name SMT.
USE Zenon

(***************************************************************************)
(* The connection                                                          *)
(***************************************************************************)
\* A socket that is dialing, open or closing has live handlers.
LEMMA LiveByState ==
    ASSUME NEW s \in Sockets, conn[s].state \in {"dialing", "open", "closing"}
    PROVE  s \in Live
  BY SMT DEF Live, Closed

\* The parts of a socket's record.
LEMMA ConnectionEntry ==
    ASSUME LinkTypeOK, NEW s \in Sockets
    PROVE  conn[s] \in Connection /\ conn[s].registered \in Keys \cup {None}
           /\ conn[s].reply \in BOOLEAN
           /\ conn[s].state \in {"closed", "dialing", "open", "closing"}
  BY DEF LinkTypeOK, Connection

\* The two records a socket starts from.
LEMMA NewConnections ==
    /\ Closed \in Connection /\ Dialing \in Connection
    /\ Closed.state = "closed" /\ Dialing.state = "dialing"
    /\ Closed.registered = None /\ Dialing.registered = None
    /\ Closed.reply = FALSE /\ Dialing.reply = FALSE
    /\ Dialing # Closed
<1>1. Closed \in Connection /\ Closed.state = "closed" /\ Closed.registered = None
      /\ Closed.reply = FALSE
  BY DEF Closed, Connection
<1>2. Dialing \in Connection /\ Dialing.state = "dialing" /\ Dialing.registered = None
      /\ Dialing.reply = FALSE
  BY <1>1 DEF Dialing, Connection
<1> QED BY <1>1, <1>2

\* What cleanup does: ws is closed, and so no socket is left if ws was the only one.
LEMMA CleanupFacts ==
    ASSUME LinkTypeOK, cleanup
    PROVE  /\ heartbeat' = FALSE /\ held' = FALSE /\ ws' = None /\ loose' = loose
           /\ conn' \in [Sockets -> Connection]
           /\ \A s \in Sockets : conn'[s] = IF s = ws THEN Closed ELSE conn[s]
           /\ Live \subseteq {ws} => Live' = {}
  BY NewConnections DEF cleanup, stopHeartbeat, LinkTypeOK, Live

\* What a dial does.
LEMMA DoConnectFacts ==
    ASSUME LinkTypeOK, NEW h \in BOOLEAN, NEW l \in Nat, doConnect(h, l)
    PROVE  /\ status' = "connecting"
           /\ autoConnect' \in {"armed", "done"}
           /\ autoConnect' = "armed" => autoConnect = "armed" /\ status = "connecting"
           /\ held' \in BOOLEAN /\ loose' \in Nat
           /\ ws' \in Sockets \cup {None} /\ conn' \in [Sockets -> Connection]
           /\ ~h => loose' = l
           /\ \/ ws' = ws /\ conn' = conn
              \/ /\ held' = h
                 /\ ws' \in Sockets /\ conn'[ws'].registered = None /\ ~conn'[ws'].reply
                 /\ \A s \in Sockets : s # ws' => conn'[s] = conn[s]
<1>1. /\ status' = "connecting"
      /\ autoConnect' \in {"armed", "done"}
      /\ autoConnect' = "armed" => autoConnect = "armed" /\ status = "connecting"
  BY DEF doConnect, setStatus, LinkTypeOK
<1>2. CASE scheduleReconnect(h, l) /\ UNCHANGED <<ws, conn>>
  <2>1. ws' \in Sockets \cup {None} /\ conn' \in [Sockets -> Connection]
    BY <1>2 DEF LinkTypeOK
  <2>2. held' \in BOOLEAN
    BY <1>2 DEF scheduleReconnect
  <2>3. loose' \in Nat /\ (~h => loose' = l)
    BY <1>2, SMT DEF scheduleReconnect
  <2> QED BY <1>1, <1>2, <2>1, <2>2, <2>3
<1>3. CASE /\ held' = h /\ loose' = l
           /\ \E s \in Sockets \ Live : conn' = [conn EXCEPT ![s] = Dialing] /\ ws' = s
  <2>1. PICK s \in Sockets : conn' = [conn EXCEPT ![s] = Dialing] /\ ws' = s
    BY <1>3
  <2>2. conn \in [Sockets -> Connection]
    BY DEF LinkTypeOK
  <2> QED BY <1>1, <1>3, <2>1, <2>2, NewConnections
<1> QED BY <1>2, <1>3 DEF doConnect

\* A step that leaves the service and the sockets alone; what it does to the
\* keys and the mode shows in rekeyed.
LEMMA KeysMove ==
    ASSUME LinkInv, LinkTypeOK', UNCHANGED <<serviceVars, calls, conn, autoConnect, raced>>,
           \/ rekeyed'
           \/ rekeyed' = rekeyed /\ (~raced /\ ~rekeyed /\ status # "disconnected"
                                        => PublicKey' = PublicKey)
    PROVE  LinkInv'
<1> USE DEF serviceVars
<1>1. StatusIsTrue' /\ (autoConnect' = "armed" => status' = "disconnected")
  BY DEF LinkInv, StatusIsTrue, CanSend
<1>2. Live' = Live /\ Suspended' = Suspended
  BY DEF Live, Suspended
<1>3. Sound /\ ~raced => Sound'
  BY <1>2, SMT DEF Sound, CanSend
<1> QED BY <1>1, <1>3 DEF LinkInv

\* disconnect().
LEMMA DisconnectInv ==
    ASSUME LinkInv, LinkTypeOK', disconnect, calls' = calls PROVE LinkInv'
<1>1. LinkTypeOK
  BY DEF LinkInv
<1>2. /\ status' = "disconnected" /\ raced' = (raced \/ Suspended # {}) /\ Suspended' = Suspended
      /\ heartbeat' = FALSE /\ held' = FALSE /\ loose' = loose
      /\ Live \subseteq {ws} => Live' = {}
  BY <1>1, CleanupFacts DEF disconnect, setStatus, Suspended
<1>3. StatusIsTrue'
  BY <1>2 DEF StatusIsTrue
<1>4. ~raced' => Sound'
  BY <1>2 DEF LinkInv, Sound
<1> QED BY <1>2, <1>3, <1>4 DEF LinkInv

\* connect() up to its await, from where it is called with the service off.
LEMMA ConnectInv ==
    ASSUME LinkInv, LinkTypeOK', NEW o \in Origins, connect(o),
           status \in {"disconnected", "connecting"},
           autoConnect' \in {autoConnect, "done"},
           UNCHANGED <<status, ws, keys, heartbeat, held, loose, conn, provider, keyVars, rekeyed>>
    PROVE  LinkInv'
<1>1. LinkTypeOK
  BY DEF LinkInv
<1>2. Live' = Live /\ PublicKey' = PublicKey
  BY DEF Live, PublicKey, mwa_getPublicKeyHex, keyVars
<1>3. /\ StatusIsTrue' /\ (autoConnect' = "armed" => status' = "disconnected")
  BY <1>2 DEF LinkInv, StatusIsTrue
<1>4. CASE status = "connecting"
  <2>1. calls' = calls /\ raced' = raced /\ Suspended' = Suspended
    BY <1>4 DEF connect, Suspended
  <2>2. Sound => Sound'
    BY <1>2, <2>1 DEF Sound
  <2> QED BY <1>3, <2>1, <2>2 DEF LinkInv
<1>5. CASE status = "disconnected"
  <2>1. /\ raced' = (raced \/ Suspended # {})
        /\ \A p \in Origins : p # o => calls'[p] = calls[p]
    BY <1>1, <1>5 DEF connect, LinkTypeOK
  <2>2. Suspended = {} => \A p \in Suspended' : p = o
    BY <2>1 DEF Suspended
  <2>3. ~raced' => Sound'
    BY <1>2, <1>5, <2>1, <2>2 DEF Sound, LinkInv
  <2> QED BY <1>3, <2>3 DEF LinkInv
<1> QED BY <1>4, <1>5

\* The keys a provider may end up with.
KeysTyped ==
    /\ secret \in 1..MaxKeys \cup {None} /\ device \in 1..MaxKeys \cup {None}
    /\ wallet \in {WalletKey, None} /\ lastKey \in 0..MaxKeys

\* Reading the key in storage, or making one, leaves the keys well typed.
LEMMA LoadDeviceTyped ==
    ASSUME LinkTypeOK, NEW saw \in 1..MaxKeys \cup {None}, LoadDevice(saw), wallet' \in {WalletKey, None}
    PROVE  KeysTyped'
<1>1. lastKey \in 0..MaxKeys /\ MaxKeys \in Nat /\ secret \in 1..MaxKeys \cup {None}
  BY LinkAssumption DEF LinkTypeOK
<1> QED BY <1>1, SMT DEF LoadDevice, KeysTyped

\* The same for the device provider's getPublicKeyHex.
LEMMA DeviceKeyTyped ==
    ASSUME LinkTypeOK, device_getPublicKeyHex, wallet' \in {WalletKey, None}
    PROVE  KeysTyped'
<1>1. secret \in 1..MaxKeys \cup {None} /\ device \in 1..MaxKeys \cup {None}
      /\ lastKey \in 0..MaxKeys
  BY DEF LinkTypeOK
<1> QED BY <1>1, LoadDeviceTyped DEF device_getPublicKeyHex, KeysTyped

\* The same for the end of a provider's connect().
LEMMA ProviderConnectedTyped ==
    ASSUME LinkTypeOK, NEW call \in Call, ProviderConnected(call) PROVE KeysTyped'
<1>1. call.saw \in 1..MaxKeys \cup {None} /\ wallet \in {WalletKey, None}
      /\ secret \in 1..MaxKeys \cup {None} /\ device \in 1..MaxKeys \cup {None}
      /\ lastKey \in 0..MaxKeys
  BY DEF Call, LinkTypeOK
<1>2. CASE LoadDevice(call.saw) /\ UNCHANGED wallet
  BY <1>1, <1>2, LoadDeviceTyped
<1>3. CASE wallet' = WalletKey /\ device_getPublicKeyHex
  BY <1>3, DeviceKeyTyped
<1>4. CASE wallet' = WalletKey /\ UNCHANGED <<device, secret, lastKey>>
  BY <1>1, <1>4 DEF KeysTyped
<1> QED BY <1>2, <1>3, <1>4 DEF ProviderConnected

\* connect() after its await.
LEMMA ConnectedInv == ASSUME LinkInv, NEW o \in Origins, connected(o) PROVE LinkInv'
<1>1. LinkTypeOK
  BY DEF LinkInv
<1>2. calls[o] \in Call /\ provider' = provider /\ ProviderConnected(calls[o])
      /\ calls' = [calls EXCEPT ![o] = None]
      /\ UNCHANGED <<coordinatorUrl, screenVars, raced>>
  BY <1>1 DEF connected, LinkTypeOK
<1>3. KeysTyped'
  BY <1>1, <1>2, ProviderConnectedTyped
<1>4. /\ calls' \in [Origins -> Call \cup {None}]
      /\ o \in Suspended /\ o \notin Suspended'
      /\ \A p \in Origins : p \in Suspended' => p \in Suspended
  BY <1>1, <1>2 DEF LinkTypeOK, Suspended, connected
<1>5. ~raced => Suspended' = {} /\ status = "disconnected" /\ Live = {} /\ ~held /\ ~heartbeat
                /\ loose = 0
  BY <1>4 DEF LinkInv, Sound, Suspended
<1>6. PublicKey' \in Keys \cup {None}
  BY <1>3, LinkAssumption DEF KeysTyped, PublicKey, mwa_getPublicKeyHex, Keys
<1>7. CASE /\ PublicKey' # None /\ keys' = PublicKey' /\ doConnect(held, loose)
           /\ rekeyed' = FALSE /\ UNCHANGED <<shouldReconnect, heartbeat>>
  <2>1. held \in BOOLEAN /\ loose \in Nat
    BY <1>1 DEF LinkTypeOK
  <2>2. /\ status' = "connecting"
        /\ autoConnect' \in {"armed", "done"}
        /\ autoConnect' = "armed" => autoConnect = "armed" /\ status = "connecting"
        /\ held' \in BOOLEAN /\ loose' \in Nat
        /\ ws' \in Sockets \cup {None} /\ conn' \in [Sockets -> Connection]
        /\ ~held => loose' = loose
        /\ \/ ws' = ws /\ conn' = conn
           \/ /\ held' = held
              /\ ws' \in Sockets /\ conn'[ws'].registered = None /\ ~conn'[ws'].reply
              /\ \A s \in Sockets : s # ws' => conn'[s] = conn[s]
    BY <1>1, <1>7, <2>1, DoConnectFacts
  <2>3. LinkTypeOK'
    BY <1>1, <1>2, <1>3, <1>4, <1>6, <1>7, <2>2 DEF LinkTypeOK, KeysTyped, screenVars
  <2>4. StatusIsTrue' /\ (autoConnect' = "armed" => status' = "disconnected")
    BY <2>2 DEF StatusIsTrue, LinkInv
  <2>5. ~raced => /\ Live' \subseteq {ws'} /\ (held' => Live' = {})
                  /\ \A s \in Live' : conn'[s].registered \in {None, keys'} /\ ~conn'[s].reply
    BY <1>5, <2>2 DEF Live
  <2>6. ~raced => Sound'
    BY <1>2, <1>5, <1>7, <2>2, <2>5 DEF Sound
  <2> QED BY <1>2, <2>3, <2>4, <2>6 DEF LinkInv
<1>8. CASE UNCHANGED <<serviceVars, conn, autoConnect, rekeyed>>
  <2>1. LinkTypeOK'
    BY <1>1, <1>2, <1>3, <1>4, <1>8, SMT DEF LinkTypeOK, KeysTyped, screenVars, serviceVars
  <2>2. StatusIsTrue' /\ (autoConnect' = "armed" => status' = "disconnected")
    BY <1>2, <1>8 DEF StatusIsTrue, LinkInv, serviceVars, CanSend
  <2>3. ~raced => Sound'
    BY <1>5, <1>8 DEF Sound, serviceVars, Live
  <2> QED BY <1>2, <2>1, <2>2, <2>3, SMT DEF LinkInv
<1> QED BY <1>7, <1>8 DEF connected

\* A key may be written to SecureStore before getOrCreateKeypair throws.
LEMMA KeypairFailsTyped ==
    ASSUME LinkTypeOK, NEW saw, KeypairFails(saw)
    PROVE  secret' \in 1..MaxKeys \cup {None} /\ lastKey' \in 0..MaxKeys
<1>1. lastKey \in 0..MaxKeys /\ MaxKeys \in Nat /\ secret \in 1..MaxKeys \cup {None}
  BY LinkAssumption DEF LinkTypeOK
<1> QED BY <1>1, SMT DEF KeypairFails

\* connect() throws.
LEMMA DeclinedInv == ASSUME LinkInv, NEW o \in Origins, declined(o) PROVE LinkInv'
<1> USE DEF serviceVars, screenVars
<1>1. LinkTypeOK
  BY DEF LinkInv
<1>2. /\ UNCHANGED <<serviceVars, provider, coordinatorUrl, conn, device, screenVars,
                     autoConnect, raced, rekeyed>>
      /\ calls' \in [Origins -> Call \cup {None}]
  BY <1>1 DEF declined, LinkTypeOK
<1>3. secret' \in 1..MaxKeys \cup {None} /\ lastKey' \in 0..MaxKeys /\ wallet' \in {WalletKey, None}
  BY <1>1, KeypairFailsTyped DEF declined, LinkTypeOK
<1>4. LinkTypeOK'
  BY <1>1, <1>2, <1>3, SMT DEF LinkTypeOK
<1>5. StatusIsTrue' /\ (autoConnect' = "armed" => status' = "disconnected")
  BY <1>2 DEF LinkInv, StatusIsTrue, CanSend
<1>6. Live' = Live /\ \A p \in Origins : p \in Suspended' => p \in Suspended
  BY <1>1, <1>2 DEF declined, Live, Suspended, LinkTypeOK
<1>7. Sound => Sound'
  <2>1. o \in Suspended
    BY DEF declined, Suspended
  <2> QED BY <1>2, <1>6, <2>1 DEF Sound, CanSend, Suspended
<1> QED BY <1>2, <1>4, <1>5, <1>7 DEF LinkInv

\* The buttons, effects and timers of the screens.
LEMMA ToggleInv == ASSUME LinkInv, toggle PROVE LinkInv'
<1>1. LinkTypeOK
  BY DEF LinkInv
<1>2. CASE disconnect /\ UNCHANGED calls
  <2>1. LinkTypeOK'
    BY <1>1, <1>2, CleanupFacts, ZenonT(40) DEF LinkTypeOK, toggle, disconnect, setStatus, keyVars
  <2> QED BY <1>2, <2>1, DisconnectInv
<1>3. CASE /\ status \notin {"connected", "reconnecting"} /\ connect("toggle")
           /\ UNCHANGED <<status, autoConnect, ws, conn, heartbeat, held, loose, keys>>
  <2>1. [provider |-> provider, saw |-> secret] \in Call
    BY <1>1 DEF LinkTypeOK, Call
  <2>2. LinkTypeOK'
    <3>1. /\ "toggle" \in Origins /\ isToggling' = TRUE
          /\ UNCHANGED <<provider, coordinatorUrl, keyVars, signingMode, walletAddress, walletCall,
                         rekeyed>>
      BY DEF toggle
    <3>2. shouldReconnect' \in BOOLEAN /\ raced' \in BOOLEAN
      BY <1>1, <1>3 DEF LinkTypeOK, connect
    <3>3. calls' \in [Origins -> Call \cup {None}]
      BY <1>1, <1>3, <2>1, <3>1 DEF LinkTypeOK, connect
    <3> QED BY <1>1, <1>3, <3>1, <3>2, <3>3, SMT DEF LinkTypeOK, keyVars
  <2>3. status \in {"disconnected", "connecting"} /\ "toggle" \in Origins
    BY <1>1, <1>3 DEF LinkTypeOK, toggle
  <2> QED BY <1>3, <2>2, <2>3, ConnectInv DEF toggle
<1> QED BY <1>2, <1>3 DEF toggle

\* The call made when the app starts, and the one on refresh.
LEMMA AutoConnectsInv == ASSUME LinkInv, autoConnects \/ onRefresh PROVE LinkInv'
<1>1. LinkTypeOK /\ status = "disconnected"
  BY DEF LinkInv, autoConnects, onRefresh
<1>2. [provider |-> provider, saw |-> secret] \in Call
  BY <1>1 DEF LinkTypeOK, Call
<1>3. CASE autoConnects
  <2>1. LinkTypeOK'
    BY <1>1, <1>2, <1>3, SMT DEF LinkTypeOK, autoConnects, connect, keyVars, screenVars
  <2> QED BY <1>1, <1>3, <2>1, ConnectInv DEF autoConnects
<1>4. CASE onRefresh
  <2>1. LinkTypeOK'
    BY <1>1, <1>2, <1>4, SMT DEF LinkTypeOK, onRefresh, connect, keyVars, screenVars
  <2> QED BY <1>1, <1>4, <2>1, ConnectInv DEF onRefresh
<1> QED BY <1>3, <1>4

\* A new URL: the old connection is closed and another connect() begins.
LEMMA SetUrlInv ==
    ASSUME LinkInv, NEW u \in Urls, setCoordinatorUrl(u) PROVE LinkInv'
<1>1. LinkTypeOK /\ u \in AnyUrl
  BY LinkAssumption DEF LinkInv
<1>2. [provider |-> provider, saw |-> secret] \in Call
  BY <1>1 DEF LinkTypeOK, Call
<1>3. CASE /\ "url" \in Origins /\ cleanup /\ setStatus("disconnected") /\ shouldReconnect' = TRUE
           /\ calls' = [calls EXCEPT !["url"] = [provider |-> provider, saw |-> secret]]
           /\ raced' = (raced \/ Suspended # {})
  <2>1. /\ heartbeat' = FALSE /\ held' = FALSE /\ ws' = None /\ loose' = loose
        /\ conn' \in [Sockets -> Connection]
        /\ Live \subseteq {ws} => Live' = {}
        /\ status' = "disconnected" /\ autoConnect' \in {"armed", "done"}
    BY <1>1, <1>3, CleanupFacts DEF setStatus, LinkTypeOK
  <2>2. LinkTypeOK'
    BY <1>1, <1>2, <1>3, <2>1 DEF LinkTypeOK, setCoordinatorUrl, keyVars, screenVars
  <2>3. Suspended = {} => \A p \in Suspended' : p = "url"
    BY <1>1, <1>3 DEF Suspended, LinkTypeOK
  <2>4. ~raced' => Sound'
    BY <1>3, <2>1, <2>3 DEF Sound, LinkInv
  <2> QED BY <2>1, <2>2, <2>4 DEF LinkInv, StatusIsTrue
<1>4. CASE UNCHANGED <<status, autoConnect, shouldReconnect, calls, raced, ws, conn,
                       heartbeat, held, loose>>
  <2>1. LinkTypeOK'
    BY <1>1, <1>4, SMT DEF LinkTypeOK, setCoordinatorUrl, keyVars, screenVars
  <2>2. PublicKey' = PublicKey /\ UNCHANGED <<keys, rekeyed>>
    BY DEF setCoordinatorUrl, PublicKey, mwa_getPublicKeyHex, keyVars
  <2> QED BY <1>4, <2>1, <2>2, KeysMove DEF serviceVars
<1> QED BY <1>3, <1>4 DEF setCoordinatorUrl

\* Events of sockets.
LEMMA OnopenInv == ASSUME LinkInv, NEW s \in Sockets, onopen(s) PROVE LinkInv'
<1> USE DEF serviceVars, othersOfLink, keyVars, screenVars
<1> DEFINE opened == [conn EXCEPT ![s].state = "open"]
<1>1. LinkTypeOK
  BY SMT DEF LinkInv
<1>2. /\ opened \in [Sockets -> Connection] /\ opened[s].state = "open"
      /\ opened[s].registered = conn[s].registered /\ opened[s].reply = conn[s].reply
      /\ \A t \in Sockets : t # s => opened[t] = conn[t]
  BY <1>1, ConnectionEntry DEF LinkTypeOK, Connection
<1>3. /\ conn[s].state = "dialing" /\ conn' = sendRegister(opened)
      /\ UNCHANGED <<serviceVars, autoConnect, othersOfLink>>
  BY DEF onopen
<1>4. s \in Live
  BY <1>3, LiveByState
<1> HIDE DEF opened
<1>5. /\ conn' \in [Sockets -> Connection]
      /\ \A t \in Sockets : /\ conn'[t].state = opened[t].state
                            /\ conn'[t].registered \in {opened[t].registered, keys}
                            /\ t # ws => conn'[t] = opened[t]
                            /\ conn'[t] # opened[t] => /\ conn'[t].state = "open"
                                                       /\ keys # None /\ conn'[t].registered = keys
  <2>1. CASE keys # None /\ CanSend(opened)
    <3>1. ws \in Sockets /\ opened[ws].state = "open" /\ opened[ws] \in Connection
      BY <1>1, <1>2, <2>1 DEF CanSend, LinkTypeOK
    <3>2. conn' = [opened EXCEPT ![ws].registered = keys, ![ws].reply = TRUE]
      BY <1>3, <2>1 DEF sendRegister
    <3>3. keys \in Keys
      BY <1>1, <2>1 DEF LinkTypeOK
    <3>4. /\ conn'[ws] = [opened[ws] EXCEPT !.registered = keys, !.reply = TRUE]
          /\ \A t \in Sockets : t # ws => conn'[t] = opened[t]
          /\ DOMAIN conn' = Sockets
      BY <1>2, <3>1, <3>2
    <3>5. conn'[ws] \in Connection /\ conn'[ws].state = "open" /\ conn'[ws].registered = keys
      BY <3>1, <3>3, <3>4 DEF Connection
    <3>6. conn' = [t \in Sockets |-> conn'[t]]
      BY <1>2, <3>2
    <3>7. conn' \in [Sockets -> Connection]
      BY <1>2, <3>4, <3>5, <3>6
    <3> QED BY <1>2, <2>1, <3>1, <3>4, <3>5, <3>7
  <2>2. CASE ~(keys # None /\ CanSend(opened))
    <3>1. conn' = opened
      BY <1>3, <2>2 DEF sendRegister
    <3> QED BY <1>2, <3>1
  <2> QED BY <2>1, <2>2
<1>6. Live' = Live
  <2>1. \A t \in Sockets : conn[t] # Closed => conn'[t] # Closed
    BY <1>2, <1>5, NewConnections
  <2>2. \A t \in Sockets : conn'[t] # Closed => conn[t] # Closed
    BY <1>2, <1>4, <1>5, NewConnections DEF Live
  <2> QED BY <2>1, <2>2 DEF Live
<1>7. LinkTypeOK'
  BY <1>1, <1>3, <1>5, SMT DEF LinkTypeOK
<1>10. Sound => status # "connected"
  BY <1>3, <1>4 DEF Sound, CanSend
<1>8. StatusIsTrue' /\ (autoConnect' = "armed" => status' = "disconnected")
  BY <1>3, <1>10 DEF StatusIsTrue, LinkInv
<1>9. Sound => Sound'
  <2>1. ASSUME Sound PROVE \A t \in Live' : conn'[t].registered \in {None, keys'}
    BY <1>2, <1>3, <1>5, <1>6, <2>1, SMT DEF Sound, Live
  <2>3. ASSUME Sound, NEW t \in Live', conn'[t].reply
        PROVE  keys' # None /\ conn'[t].registered = keys'
    <3>1. t \in Live /\ t \in Sockets
      BY <1>6, <2>3 DEF Live
    <3>2. CASE conn'[t] = opened[t]
      BY <1>2, <1>3, <2>3, <3>1, <3>2 DEF Sound
    <3>3. CASE conn'[t] # opened[t]
      BY <1>3, <1>5, <3>1, <3>3
    <3> QED BY <3>2, <3>3
  <2>2. PublicKey' = PublicKey /\ Suspended' = Suspended
    BY <1>3 DEF PublicKey, mwa_getPublicKeyHex, Suspended
  <2> QED BY <1>3, <1>6, <1>10, <2>1, <2>2, <2>3 DEF Sound
<1> QED BY <1>3, <1>7, <1>8, <1>9 DEF LinkInv

\* A socket closes: a timer is armed if the worker is to reconnect.
LEMMA OncloseInv == ASSUME LinkInv, NEW s \in Sockets, onclose(s) PROVE LinkInv'
<1> USE DEF othersOfLink, keyVars, screenVars
<1>1. LinkTypeOK /\ s \in Live
  BY DEF LinkInv, onclose, Live
<1>2. /\ conn' \in [Sockets -> Connection] /\ Live' = Live \ {s}
      /\ \A t \in Live' : conn'[t] = conn[t]
  BY <1>1, NewConnections DEF onclose, LinkTypeOK, Live
<1>3. /\ heartbeat' = FALSE /\ status' = IF shouldReconnect THEN "reconnecting" ELSE "disconnected"
      /\ autoConnect' \in {"armed", "done"} /\ (autoConnect' = "armed" => status' = "disconnected")
      /\ UNCHANGED <<shouldReconnect, ws, keys, othersOfLink>>
  BY <1>1 DEF onclose, stopHeartbeat, setStatus, LinkInv, LinkTypeOK
<1>4. /\ loose' \in Nat /\ held' \in BOOLEAN /\ (~held => loose' = loose)
      /\ shouldReconnect => held'
      /\ ~shouldReconnect => held' = held
  <2>1. scheduleReconnect(held, loose) /\ held \in BOOLEAN /\ loose \in Nat
    BY <1>1 DEF onclose, LinkTypeOK
  <2>2. loose' \in Nat /\ (~held => loose' = loose)
    BY <2>1, SMT DEF scheduleReconnect
  <2> QED BY <2>1, <2>2 DEF scheduleReconnect
<1>5. LinkTypeOK'
  BY <1>1, <1>2, <1>3, <1>4, ZenonT(40) DEF LinkTypeOK
<1>6. StatusIsTrue'
  BY <1>3, <1>4 DEF StatusIsTrue
<1>7. Sound => Sound'
  <2>1. PublicKey' = PublicKey /\ Suspended' = Suspended
    BY <1>3 DEF PublicKey, mwa_getPublicKeyHex, Suspended
  <2>2. ASSUME Sound PROVE Live' = {} /\ ~held /\ Suspended = {} /\ status # "disconnected"
    BY <1>1, <1>2, <2>2 DEF Sound
  <2> QED BY <1>3, <1>4, <2>1, <2>2 DEF Sound
<1> QED BY <1>3, <1>5, <1>6, <1>7 DEF LinkInv

\* register_ack arrives.
LEMMA RegisterAckInv == ASSUME LinkInv, NEW s \in Sockets, handleRegisterAck(s) PROVE LinkInv'
<1> USE DEF othersOfLink, keyVars, screenVars
<1> DEFINE heard == [conn EXCEPT ![s].reply = FALSE]
<1>1. LinkTypeOK /\ s \in Live /\ conn[s].state = "open" /\ conn[s].reply
  BY LiveByState DEF LinkInv, handleRegisterAck
<1>2. /\ heard \in [Sockets -> Connection] /\ heard[s].state = "open"
      /\ heard[s].registered = conn[s].registered /\ heard[s].reply = FALSE
      /\ \A t \in Sockets : t # s => heard[t] = conn[t]
  BY <1>1, ConnectionEntry DEF LinkTypeOK, Connection
<1>3. UNCHANGED <<shouldReconnect, ws, keys, held, loose, othersOfLink>>
  BY DEF handleRegisterAck
<1>4. \/ /\ conn' = heard /\ status' = "connected" /\ heartbeat' = TRUE
         /\ autoConnect' \in {"armed", "done"}
         /\ autoConnect' = "armed" => autoConnect = "armed" /\ status = "connected"
      \/ /\ conn' = heard \/ (ws \in Sockets /\ conn[ws] # Closed
                              /\ conn' = [heard EXCEPT ![ws].state = "closing"])
         /\ UNCHANGED <<status, autoConnect, heartbeat>>
  BY <1>1 DEF handleRegisterAck, setStatus, startHeartbeat, LinkTypeOK
<1> HIDE DEF heard
<1>5. /\ conn' \in [Sockets -> Connection]
      /\ \A t \in Sockets : /\ conn'[t].registered = conn[t].registered
                            /\ conn'[t].reply = heard[t].reply
                            /\ conn'[t] = heard[t] \/ (conn'[t].state = "closing" /\ conn[t] # Closed)
  <2>1. CASE conn' = heard
    BY <1>2, <2>1
  <2>2. CASE /\ ws \in Sockets /\ conn[ws] # Closed /\ conn' = [heard EXCEPT ![ws].state = "closing"]
    <3>1. heard[ws] \in Connection /\ DOMAIN heard = Sockets
      BY <1>2, <2>2
    <3>2. /\ conn'[ws] = [heard[ws] EXCEPT !.state = "closing"]
          /\ \A t \in Sockets : t # ws => conn'[t] = heard[t]
      BY <2>2, <3>1
    <3>3. conn'[ws] \in Connection /\ conn'[ws].state = "closing"
          /\ conn'[ws].registered = heard[ws].registered /\ conn'[ws].reply = heard[ws].reply
      BY <3>1, <3>2 DEF Connection
    <3>4. conn' = [t \in Sockets |-> conn'[t]]
      BY <2>2, <3>1
    <3> QED BY <1>2, <2>2, <3>2, <3>3, <3>4, SMT
  <2> QED BY <1>4, <2>1, <2>2
<1>6. Live' = Live
  <2>1. \A t \in Sockets : conn[t] # Closed => conn'[t] # Closed
    BY <1>2, <1>5, NewConnections
  <2>2. \A t \in Sockets : conn'[t] # Closed => conn[t] # Closed
    BY <1>1, <1>2, <1>5 DEF Live
  <2> QED BY <2>1, <2>2, SMT DEF Live
<1>7. LinkTypeOK'
  <2>1. /\ status' \in {"disconnected", "connecting", "connected", "reconnecting"}
        /\ heartbeat' \in BOOLEAN /\ autoConnect' \in {"armed", "done"}
    BY <1>1, <1>4 DEF LinkTypeOK
  <2> QED BY <1>1, <1>3, <1>5, <2>1, SMT DEF LinkTypeOK
<1>10. ASSUME Sound
       PROVE  /\ status # "connected" /\ keys # None
              /\ conn' = heard => CanSend(conn)' /\ ~conn'[ws].reply /\ conn'[ws].registered = keys
              /\ \A t \in Live' : ~conn'[t].reply
  <2>1. s = ws /\ keys # None /\ conn[s].registered = keys /\ status # "connected"
    BY <1>1, <1>10 DEF Sound
  <2>2. conn' = heard => CanSend(conn)' /\ ~conn'[ws].reply /\ conn'[ws].registered = keys
    BY <1>2, <1>3, <2>1, LinkAssumption DEF CanSend
  <2>3. \A t \in Live' : t = s
    BY <1>6, <1>10, <2>1 DEF Sound
  <2> QED BY <1>2, <1>5, <2>1, <2>2, <2>3
<1>8. StatusIsTrue' /\ (autoConnect' = "armed" => status' = "disconnected")
  <2>1. CASE conn' = heard /\ status' = "connected" /\ heartbeat' = TRUE
    BY <1>3, <1>4, <1>10, <2>1 DEF StatusIsTrue, LinkInv
  <2>2. CASE UNCHANGED <<status, autoConnect, heartbeat>>
    BY <1>3, <1>10, <2>2 DEF StatusIsTrue, LinkInv
  <2> QED BY <1>4, <2>1, <2>2
<1>9. Sound => Sound'
  <2>1. PublicKey' = PublicKey /\ Suspended' = Suspended
    BY <1>3 DEF PublicKey, mwa_getPublicKeyHex, Suspended
  <2>2. ASSUME Sound PROVE status # "disconnected" /\ status' # "disconnected" /\ Suspended = {}
    BY <1>1, <1>4, <2>2 DEF Sound
  <2>3. \A t \in Live' : t \in Live /\ conn'[t].registered = conn[t].registered
    BY <1>5, <1>6 DEF Live
  <2> QED BY <1>3, <1>4, <1>6, <1>10, <2>1, <2>2, <2>3 DEF Sound
<1> QED BY <1>3, <1>7, <1>8, <1>9 DEF LinkInv

\* The timers of scheduleReconnect.
LEMMA TimerInv == ASSUME LinkInv, reconnectTimer PROVE LinkInv'
<1> USE DEF othersOfLink, keyVars, screenVars
<1>1. LinkTypeOK /\ held \in BOOLEAN /\ loose \in Nat
  BY DEF LinkInv, LinkTypeOK
<1>2. UNCHANGED <<shouldReconnect, keys, heartbeat, othersOfLink>>
      /\ PublicKey' = PublicKey /\ Suspended' = Suspended
  BY DEF reconnectTimer, PublicKey, mwa_getPublicKeyHex, Suspended
<1>3. ASSUME NEW h \in BOOLEAN, NEW l \in Nat, doConnect(h, l), ~raced => h = FALSE /\ l = 0 /\ held
      PROVE  LinkInv'
  <2>1. /\ status' = "connecting"
        /\ autoConnect' \in {"armed", "done"}
        /\ autoConnect' = "armed" => autoConnect = "armed" /\ status = "connecting"
        /\ held' \in BOOLEAN /\ loose' \in Nat
        /\ ws' \in Sockets \cup {None} /\ conn' \in [Sockets -> Connection]
        /\ ~h => loose' = l
        /\ \/ ws' = ws /\ conn' = conn
           \/ /\ held' = h
              /\ ws' \in Sockets /\ conn'[ws'].registered = None /\ ~conn'[ws'].reply
              /\ \A s \in Sockets : s # ws' => conn'[s] = conn[s]
    BY <1>1, <1>3, DoConnectFacts
  <2>2. LinkTypeOK'
    BY <1>1, <1>2, <2>1, SMT DEF LinkTypeOK
  <2>3. StatusIsTrue' /\ (autoConnect' = "armed" => status' = "disconnected")
    BY <2>1 DEF StatusIsTrue, LinkInv
  <2>4. ASSUME ~raced PROVE Sound'
    <3>1. Sound /\ Live = {} /\ held /\ ~h /\ l = 0 /\ status # "disconnected" /\ Suspended = {}
      BY <1>3, <2>4 DEF LinkInv, Sound
    <3>2. /\ Live' \subseteq {ws'} /\ (held' => Live' = {})
          /\ \A s \in Live' : conn'[s].registered \in {None, keys'} /\ ~conn'[s].reply
      BY <2>1, <3>1 DEF Live
    <3> QED BY <1>2, <2>1, <3>1, <3>2 DEF Sound
  <2> QED BY <1>2, <2>2, <2>3, <2>4 DEF LinkInv
<1>4. ASSUME ~shouldReconnect, held' \in BOOLEAN, loose' \in Nat, held' => held, loose' <= loose,
             UNCHANGED <<status, autoConnect, ws, conn>>
      PROVE  LinkInv'
  <2>1. LinkTypeOK' /\ Live' = Live
    BY <1>1, <1>2, <1>4, SMT DEF LinkTypeOK, Live
  <2>2. StatusIsTrue' /\ (autoConnect' = "armed" => status' = "disconnected")
    BY <1>2, <1>4, <2>1 DEF StatusIsTrue, LinkInv, CanSend
  <2>3. Sound => Sound'
    <3> SUFFICES ASSUME Sound PROVE Sound'
      OBVIOUS
    <3>1. loose' = 0
      BY <1>4, SMT DEF Sound
    <3>2. (held' => Live' = {}) /\ (status' = "disconnected" => Live' = {} /\ ~held' /\ ~heartbeat')
      BY <1>2, <1>4, <2>1 DEF Sound
    <3> QED BY <1>2, <1>4, <2>1, <3>1, <3>2 DEF Sound, CanSend
  <2> QED BY <1>2, <2>1, <2>2, <2>3 DEF LinkInv
<1>5. CASE held /\ (\/ doConnect(FALSE, loose)
                    \/ /\ ~shouldReconnect /\ held' = FALSE
                       /\ UNCHANGED <<status, autoConnect, loose, ws, conn>>)
  <2>1. ~raced => loose = 0
    BY DEF LinkInv, Sound
  <2>2. CASE doConnect(FALSE, loose)
    <3>1. FALSE \in BOOLEAN
      OBVIOUS
    <3> QED BY <1>1, <1>3, <1>5, <2>1, <2>2, <3>1
  <2>3. CASE /\ ~shouldReconnect /\ held' = FALSE
             /\ UNCHANGED <<status, autoConnect, loose, ws, conn>>
    <3>1. held' \in BOOLEAN /\ (held' => held)
      BY <2>3
    <3>2. loose' \in Nat /\ loose' <= loose
      BY <1>1, <2>3, SMT
    <3> QED BY <1>4, <2>3, <3>1, <3>2
  <2> QED BY <1>5, <2>2, <2>3
<1>6. CASE loose > 0 /\ (\/ doConnect(held, loose - 1)
                         \/ /\ ~shouldReconnect /\ loose' = loose - 1
                            /\ UNCHANGED <<status, autoConnect, held, ws, conn>>)
  <2>1. raced /\ loose - 1 \in Nat
    BY <1>1, <1>6, SMT DEF LinkInv, Sound
  <2> QED BY <1>1, <1>3, <1>4, <1>6, <2>1, SMT
<1> QED BY <1>5, <1>6 DEF reconnectTimer

\* Signing mode and identity.
LEMMA ModeInv ==
    ASSUME LinkInv,
           \/ connectWallet \/ walletLinked \/ walletUnlinked \/ toggleSettles
           \/ \E m \in Modes : switchSigningMode(m)
    PROVE  LinkInv'
<1> USE DEF othersOfMode, serviceVars, keyVars, LinkInv
<1>1. CASE connectWallet
  <2>1. LinkTypeOK' /\ PublicKey' = PublicKey
    BY <1>1, SMT DEF LinkTypeOK, connectWallet, PublicKey, mwa_getPublicKeyHex
  <2> QED BY <1>1, <2>1, KeysMove DEF connectWallet
<1>2. CASE walletLinked
  <2>1. LinkTypeOK'
    <3>1. /\ walletAddress' \in BOOLEAN /\ rekeyed' \in BOOLEAN
          /\ provider' \in Modes /\ signingMode' \in Modes /\ wallet' \in {WalletKey, None}
      BY <1>2 DEF LinkTypeOK, walletLinked, setSigningProvider, Modes
    <3> QED BY <1>2, <3>1, SMT DEF LinkTypeOK, walletLinked
  <2> QED BY <1>2, <2>1, KeysMove DEF walletLinked
<1>3. CASE walletUnlinked
  <2>1. LinkTypeOK'
    BY <1>3, ZenonT(40) DEF LinkTypeOK, walletUnlinked, setSigningProvider, Modes
  <2> QED BY <1>3, <2>1, KeysMove DEF walletUnlinked
<1>4. CASE toggleSettles
  <2>1. isToggling' \in BOOLEAN
    BY <1>4 DEF toggleSettles
  <2>2. LinkTypeOK'
    BY <1>4, <2>1, SMT DEF LinkTypeOK, toggleSettles
  <2>3. PublicKey' = PublicKey
    BY <1>4 DEF toggleSettles, PublicKey, mwa_getPublicKeyHex
  <2> QED BY <1>4, <2>2, <2>3, KeysMove DEF toggleSettles
<1>5. ASSUME NEW m \in Modes, switchSigningMode(m) PROVE LinkInv'
  <2>1. LinkTypeOK'
    BY <1>5, SMT DEF LinkTypeOK, switchSigningMode, setSigningProvider
  <2> QED BY <1>5, <2>1, KeysMove DEF switchSigningMode
<1> QED BY <1>1, <1>2, <1>3, <1>4, <1>5

\* The wallet is disconnected, or the key is reset.
LEMMA ForgetInv == ASSUME LinkInv, handleDisconnectWallet \/ handleResetKeypair PROVE LinkInv'
<1>1. LinkTypeOK /\ disconnect /\ calls' = calls
  BY DEF LinkInv, handleDisconnectWallet, handleResetKeypair
<1>2. /\ heartbeat' = FALSE /\ held' = FALSE /\ ws' = None /\ loose' = loose
      /\ conn' \in [Sockets -> Connection] /\ shouldReconnect' = FALSE /\ keys' = keys
      /\ status' = "disconnected" /\ autoConnect' \in {"armed", "done"} /\ raced' \in BOOLEAN
  BY <1>1, CleanupFacts DEF disconnect, setStatus, LinkTypeOK
<1>3. LinkTypeOK'
  BY <1>1, <1>2 DEF LinkTypeOK, handleDisconnectWallet, handleResetKeypair, mwa_disconnect,
     resetKeypair, screenVars
<1> QED BY <1>1, <1>3, DisconnectInv

\* Every handler and timer preserves the invariant.
LEMMA LinkInvNext == ASSUME LinkInv, [LinkNext]_linkVars PROVE LinkInv'
<1>1. CASE ScreenNext
  BY <1>1, ToggleInv, AutoConnectsInv, SetUrlInv, ConnectedInv, DeclinedInv, ModeInv, ForgetInv
  DEF ScreenNext, handleSaveUrl
<1>2. CASE SocketNext
  BY <1>2, OnopenInv, OncloseInv, RegisterAckInv, TimerInv DEF SocketNext
<1>3. CASE UNCHANGED linkVars
  <2>1. LinkTypeOK' /\ PublicKey' = PublicKey
    BY <1>3, SMT DEF LinkTypeOK, linkVars, serviceVars, keyVars, screenVars, LinkInv, PublicKey,
       mwa_getPublicKeyHex
  <2> QED BY <1>3, <2>1, KeysMove DEF linkVars
<1> QED BY <1>1, <1>2, <1>3 DEF LinkNext

\* The app starts in the invariant: nothing is connected.
LEMMA LinkInvInit == Init => LinkInv
<1> SUFFICES ASSUME Init PROVE LinkInv
  OBVIOUS
<1>1. Live = {} /\ Suspended = {}
  BY DEF Init, Live, Suspended
<1>2. LinkTypeOK
  <2>1. /\ shouldReconnect \in BOOLEAN /\ heartbeat \in BOOLEAN /\ held \in BOOLEAN
        /\ walletAddress \in BOOLEAN /\ isToggling \in BOOLEAN
        /\ raced \in BOOLEAN /\ rekeyed \in BOOLEAN
    BY DEF Init
  <2> QED BY <2>1, LinkAssumption, NewConnections, SMT DEF Init, LinkTypeOK, AnyUrl, Modes
<1> QED BY <1>1, <1>2 DEF Init, LinkInv, StatusIsTrue, Sound

\* So does an app that was killed and is started again.
LEMMA RelaunchInv == ASSUME LinkInv, relaunch PROVE LinkInv'
<1>1. Live' = {} /\ Suspended' = {}
  BY DEF relaunch, Live, Suspended
<1>2. LinkTypeOK'
  BY LinkAssumption, NewConnections DEF relaunch, LinkInv, LinkTypeOK
<1> QED BY <1>1, <1>2 DEF relaunch, LinkInv, StatusIsTrue, Sound

\* Every reachable state of the connection satisfies LinkInv.
THEOREM LinkInvariance == LinkSpec => []LinkInv
  BY LinkInvInit, LinkInvNext, PTL DEF LinkSpec

\* OneConnection: however connect(), disconnect(), the timers and the sockets'
\* events interleave, calls that do not overlap leave one live socket.
THEOREM OneLink == LinkSpec => []OneConnection
<1>1. LinkInv => OneConnection
  BY DEF LinkInv, OneConnection, Sound
<1> QED BY <1>1, LinkInvariance, PTL

\* OffMeansOff: after disconnect() no socket and no timer brings the app back.
THEOREM StaysOff == LinkSpec => []OffMeansOff
<1>1. LinkInv => OffMeansOff
  BY DEF LinkInv, OffMeansOff, Sound
<1> QED BY <1>1, LinkInvariance, PTL

\* StatusIsTrue: a worker shown as connected has its heartbeat running and, unless
\* calls have overlapped, an open ws registered under its key; one shown as
\* reconnecting has a timer armed.
THEOREM StatusTells == LinkSpec => []StatusIsTrue
<1>1. LinkInv => StatusIsTrue
  BY DEF LinkInv
<1> QED BY <1>1, LinkInvariance, PTL

(***************************************************************************)
(* The jobs                                                                *)
(***************************************************************************)
\* Prepending a job and cutting the list off keeps it a list of jobs.
LEMMA CappedTyped ==
    ASSUME NEW list \in Seq(Jobs), NEW j \in Jobs
    PROVE  Capped(<<j>> \o list) \in Seq(Jobs) /\ <<j>> \o list \in Seq(Jobs)
<1>1. <<j>> \o list \in Seq(Jobs)
  BY SMT
<1>2. ASSUME NEW s \in Seq(Jobs) PROVE Capped(s) \in Seq(Jobs)
  <2> DEFINE n == IF Len(s) > HistoryMax THEN HistoryMax ELSE Len(s)
  <2>1. n \in Nat /\ n <= Len(s)
    BY JobsAssumption, SMT
  <2>2. \A i \in 1..n : s[i] \in Jobs
    BY <2>1, SMT
  <2> HIDE DEF n
  <2>3. SubSeq(s, 1, n) \in Seq(Jobs)
    BY <2>1, <2>2, SMT
  <2> QED BY <2>3 DEF Capped, n
<1> QED BY <1>1, <1>2

\* The types of what is counted and remembered.
LedgerTyped ==
    /\ history \in Seq(Jobs) /\ jobHistory \in Seq(Jobs) /\ stored.history \in Seq(Jobs)
    /\ earnings \in Nat /\ totalEarnings \in Nat /\ jobsCompleted \in Nat
    /\ stored.completed \in Nat /\ stored.earnings \in Nat
    /\ shared \in BOOLEAN

JobsTyped == job \in [Jobs -> JobState] /\ news \in [Jobs -> SUBSET News] /\ kills \in 0..MaxKills

\* TypeOK in three parts.
LEMMA TypeParts == TypeOK <=> LinkTypeOK /\ JobsTyped /\ LedgerTyped
  BY DEF TypeOK, JobsTyped, LedgerTyped

\* The same after a step.
LEMMA TypePartsNext == TypeOK' <=> LinkTypeOK' /\ JobsTyped' /\ LedgerTyped'
  BY DEF TypeOK, JobsTyped, LedgerTyped

\* Which jobs succeeded depends on the state and the outcome of each.
LEMMA SameSucceeded ==
    ASSUME \A j \in Jobs : /\ job'[j].ok = job[j].ok
                           /\ job'[j].state \in {"sent", "dropped"}
                                <=> job[j].state \in {"sent", "dropped"}
    PROVE  Succeeded' = Succeeded
  BY DEF Succeeded, InState

\* The jobs that succeeded can be counted.
LEMMA SucceededFinite == Cardinality(Succeeded) \in Nat /\ IsFiniteSet(Succeeded)
<1>1. Succeeded \subseteq Jobs
  BY DEF Succeeded, InState
<1> QED BY <1>1, JobsAssumption, FS_Subset, FS_CardinalityType

\* Follow forgets sockets and nothing else.
LEMMA FollowFacts ==
    ASSUME job \in [Jobs -> JobState], job' = Follow(job), NEW j \in Jobs
    PROVE  /\ job' \in [Jobs -> JobState]
           /\ job'[j].state = job[j].state /\ job'[j].ok = job[j].ok
           /\ job'[j].via # None => job'[j] = job[j] /\ conn'[job[j].via] # Closed
<1> DEFINE F(k) == IF job[k].via # None /\ conn'[job[k].via] = Closed
                   THEN [job[k] EXCEPT !.via = None] ELSE job[k]
<1>1. job' = [k \in Jobs |-> F(k)]
  BY DEF Follow
<1>2. ASSUME NEW k \in Jobs
      PROVE  /\ F(k) \in JobState /\ F(k).state = job[k].state /\ F(k).ok = job[k].ok
             /\ F(k).via # None => F(k) = job[k] /\ conn'[job[k].via] # Closed
  <2>1. job[k] \in JobState
    OBVIOUS
  <2>2. CASE job[k].via # None /\ conn'[job[k].via] = Closed
    <3>1. F(k) = [job[k] EXCEPT !.via = None]
      BY <2>2
    <3> QED BY <2>1, <3>1 DEF JobState
  <2>3. CASE ~(job[k].via # None /\ conn'[job[k].via] = Closed)
    <3>1. F(k) = job[k]
      BY <2>3
    <3> QED BY <2>1, <2>3, <3>1
  <2> QED BY <2>2, <2>3
<1> HIDE DEF F
<1> QED BY <1>1, <1>2, SMT

\* Only a restart of the app forgets that calls overlapped.
LEMMA RacedStays == LinkNext /\ raced => raced'
  BY DEF LinkNext, ScreenNext, SocketNext, toggle, toggleSettles, autoConnects, onRefresh, connect,
     handleSaveUrl, setCoordinatorUrl, connected, declined, connectWallet, walletLinked,
     handleDisconnectWallet, walletUnlinked, switchSigningMode, handleResetKeypair, disconnect,
     onopen, onclose, handleRegisterAck, reconnectTimer, othersOfLink, othersOfMode

\* Unless calls overlap, a step of the connection that keeps a socket which is
\* open, acknowledged and registered leaves it so, and its key and provider.
LEMMA SocketKept ==
    ASSUME LinkInv, LinkNext, ~raced', NEW s \in Sockets, conn[s].state = "open", ~conn[s].reply,
           conn[s].registered # None, conn'[s] # Closed
    PROVE  /\ ~raced /\ conn'[s] = conn[s]
           /\ ~rekeyed' => ~rekeyed /\ provider' = provider
<1>1. LinkTypeOK /\ ~raced /\ Sound
  <2>1. ~raced
    BY RacedStays
  <2> QED BY <2>1 DEF LinkInv
<1>2. s \in Live /\ ws = s /\ status # "disconnected" /\ Suspended = {} /\ ~held /\ loose = 0
  BY <1>1, LiveByState DEF Sound
<1>3. ~disconnect /\ ~cleanup
  BY <1>1, <1>2, CleanupFacts DEF disconnect, Live
<1>4. \A o \in Origins : ~connected(o) /\ ~declined(o)
  BY <1>2 DEF connected, declined, Suspended
<1>5. ~reconnectTimer
  <2>1. ~(loose > 0)
    BY <1>2, SMT
  <2> QED BY <1>2, <2>1 DEF reconnectTimer
<1>6. CASE SocketNext
  <2>1. UNCHANGED <<rekeyed, provider>>
    BY <1>5, <1>6 DEF SocketNext, onopen, onclose, handleRegisterAck, othersOfLink
  <2>2. \A t \in Sockets : conn[t].state \in {"dialing", "open"} => t = s
    BY <1>1, <1>2, LiveByState DEF Sound
  <2>3. \A t \in Sockets : ~onopen(t) /\ ~handleRegisterAck(t)
    BY <2>2 DEF onopen, handleRegisterAck
  <2>4. \A t \in Sockets : onclose(t) => conn'[s] = conn[s]
    BY <1>1 DEF onclose, LinkTypeOK
  <2> QED BY <1>1, <1>5, <1>6, <2>1, <2>3, <2>4 DEF SocketNext
<1>7. CASE ScreenNext
  <2>1. conn' = conn
    BY <1>3, <1>4, <1>7 DEF ScreenNext, toggle, toggleSettles, autoConnects, onRefresh,
       handleSaveUrl, setCoordinatorUrl, connectWallet, walletLinked,
       handleDisconnectWallet, walletUnlinked, switchSigningMode, handleResetKeypair, othersOfMode
  <2>2. ~rekeyed' => ~rekeyed /\ provider' = provider
    BY <1>3, <1>4, <1>7 DEF ScreenNext, toggle, toggleSettles, autoConnects, onRefresh,
       handleSaveUrl, setCoordinatorUrl, connectWallet, walletLinked,
       handleDisconnectWallet, walletUnlinked, switchSigningMode, handleResetKeypair
  <2> QED BY <1>1, <2>1, <2>2
<1> QED BY <1>6, <1>7 DEF LinkNext

\* A step of the connection preserves the invariant of the jobs.
LEMMA LinkStepJobs ==
    ASSUME JobsInv, LinkNext, job' = Follow(job), UNCHANGED <<news, ledgerVars, kills>>
    PROVE  JobsInv'
<1>1. LinkInv' /\ LinkTypeOK' /\ LinkInv
  BY LinkInvNext DEF JobsInv, LinkInv
<1>2. job \in [Jobs -> JobState] /\ JobsTyped /\ LedgerTyped
  BY TypeParts DEF JobsInv, JobsTyped
<1>3. TypeOK'
  <2>1. JobsTyped'
    <3>1. CASE Jobs = {}
      BY <1>2, <3>1 DEF JobsTyped, Follow
    <3>2. CASE Jobs # {}
      BY <1>2, <3>2, FollowFacts DEF JobsTyped
    <3> QED BY <3>1, <3>2
  <2>2. LedgerTyped'
    BY <1>2 DEF LedgerTyped, ledgerVars
  <2> QED BY <1>1, <2>1, <2>2, TypePartsNext
<1>4. Succeeded' = Succeeded
  BY <1>2, FollowFacts, SameSucceeded
<1>5. EarnedOncePerJob' /\ (stored.earnings <= earnings)'
  BY <1>4 DEF EarnedOncePerJob, JobsInv, ledgerVars
<1>6. ASSUME ~raced', NEW j \in Jobs PROVE SoundJob(j)'
  <2> SUFFICES ASSUME job'[j].via # None PROVE SoundJob(j)'
    BY DEF SoundJob
  <2>1. job'[j] = job[j] /\ conn'[job[j].via] # Closed /\ job[j].via # None
    BY <1>2, FollowFacts
  <2>2. job[j].via \in Sockets
    BY <1>2, <2>1 DEF JobState
  <2>3. ~raced
    BY <1>6, RacedStays
  <2>4. SoundJob(j)
    BY <2>3 DEF JobsInv
  <2>5. conn'[job[j].via] = conn[job[j].via] /\ (~rekeyed' => ~rekeyed /\ provider' = provider)
    BY <1>1, <1>6, <2>1, <2>2, <2>4, SocketKept DEF SoundJob
  <2> QED BY <2>1, <2>4, <2>5 DEF SoundJob
<1> QED BY <1>1, <1>3, <1>5, <1>6 DEF JobsInv

\* A job_assign message arrives.
LEMMA JobAssignInv ==
    ASSUME JobsInv, NEW s \in Sockets, NEW j \in Jobs, handleJobAssign(s, j) PROVE JobsInv'
<1>1. LinkInv /\ LinkTypeOK /\ JobsTyped /\ LedgerTyped /\ job \in [Jobs -> JobState]
  BY TypeParts DEF JobsInv, JobsTyped
<1>2. UNCHANGED <<linkVars, news, ledgerVars, kills>>
  BY DEF handleJobAssign
<1>3. LinkTypeOK' /\ LinkInv' /\ conn' = conn /\ provider' = provider /\ raced' = raced
      /\ rekeyed' = rekeyed
  BY <1>1, <1>2, LinkInvNext DEF linkVars, LinkInv
<1>4. LedgerTyped'
  BY <1>1, <1>2 DEF LedgerTyped, ledgerVars
<1>5. /\ job'[j] \in JobState /\ job' \in [Jobs -> JobState]
      /\ job[j].state = "new" /\ job'[j].ok \in BOOLEAN
      /\ job'[j].state \in {"signing", "rejected"}
      /\ job'[j].via # None => /\ job'[j].via = s /\ job'[j].as = conn[s].registered
                               /\ job'[j].signer = provider /\ job'[j].state = "signing"
      /\ \A k \in Jobs : k # j => job'[k] = job[k]
  <2>1. job[j] = NewJob /\ NewJob.state = "new" /\ NewJob.via = None /\ job[j] \in JobState
    BY <1>1 DEF handleJobAssign, NewJob
  <2>2. ASSUME NEW ok \in BOOLEAN,
               job' = [job EXCEPT ![j] = [state |-> "signing", ok |-> ok, via |-> s,
                                          as |-> conn[s].registered, signer |-> provider,
                                          key |-> None]]
        PROVE  /\ job'[j] \in JobState /\ job' \in [Jobs -> JobState]
               /\ job'[j].ok \in BOOLEAN
               /\ job'[j].state \in {"signing", "rejected"}
               /\ job'[j].via # None => /\ job'[j].via = s /\ job'[j].as = conn[s].registered
                                        /\ job'[j].signer = provider /\ job'[j].state = "signing"
               /\ \A k \in Jobs : k # j => job'[k] = job[k]
    <3> DEFINE new == [state |-> "signing", ok |-> ok, via |-> s, as |-> conn[s].registered,
                       signer |-> provider, key |-> None]
    <3>1. conn[s].registered \in Keys \cup {None} /\ provider \in Modes
      BY <1>1, ConnectionEntry DEF LinkTypeOK
    <3>2. new \in JobState
      BY <3>1 DEF JobState
    <3>3. /\ new.state = "signing" /\ new.via = s /\ new.as = conn[s].registered
          /\ new.signer = provider /\ new.ok \in BOOLEAN
      BY <2>2
    <3> HIDE DEF new
    <3>4. job' = [job EXCEPT ![j] = new]
      BY <2>2 DEF new
    <3> QED BY <1>1, <3>2, <3>3, <3>4
  <2>3. CASE job' = [job EXCEPT ![j].state = "rejected"]
    <3>1. job'[j] = [job[j] EXCEPT !.state = "rejected"] /\ \A k \in Jobs : k # j => job'[k] = job[k]
      BY <1>1, <2>3
    <3>2. job'[j] \in JobState /\ job'[j].state = "rejected" /\ job'[j].via = None
          /\ job'[j].ok \in BOOLEAN
      BY <2>1, <3>1 DEF JobState
    <3>3. job' \in [Jobs -> JobState]
      BY <1>1, <2>3, <3>1, <3>2
    <3>4. job'[j].state \in {"signing", "rejected"}
      BY <3>2
    <3> QED BY <2>1, <3>1, <3>2, <3>3, <3>4
  <2> QED BY <2>1, <2>2, <2>3 DEF handleJobAssign
<1>6. TypeOK'
  BY <1>1, <1>2, <1>3, <1>4, <1>5, TypePartsNext DEF JobsTyped
<1>7. Succeeded' = Succeeded
  BY <1>5 DEF Succeeded, InState
<1>8. EarnedOncePerJob' /\ (stored.earnings <= earnings)'
  BY <1>2, <1>7 DEF EarnedOncePerJob, JobsInv, ledgerVars
<1>9. ASSUME ~raced', NEW k \in Jobs PROVE SoundJob(k)'
  <2>1. CASE k # j
    BY <1>3, <1>5, <1>9, <2>1 DEF JobsInv, SoundJob
  <2>2. CASE k = j
    BY <1>3, <1>5, <2>2 DEF handleJobAssign, SoundJob
  <2> QED BY <2>1, <2>2
<1> QED BY <1>3, <1>6, <1>8, <1>9 DEF JobsInv

\* Messages about feedback and payments, and the writes to storage.
LEMMA NewsInv ==
    ASSUME JobsInv, \/ \E s \in Sockets, j \in Jobs, kind \in News : handleNews(s, j, kind)
                    \/ Persist
    PROVE  JobsInv'
<1>1. LinkInv /\ LinkTypeOK /\ JobsTyped /\ LedgerTyped
  BY TypeParts DEF JobsInv
<1>2. UNCHANGED <<linkVars, job, earnings, totalEarnings, kills>>
  BY DEF handleNews, Persist
<1>3. LinkTypeOK' /\ LinkInv'
  BY <1>1, <1>2, LinkInvNext DEF linkVars, LinkInv
<1>4. JobsTyped' /\ LedgerTyped' /\ (stored.earnings <= earnings)'
  <2>1. ASSUME NEW s \in Sockets, NEW j \in Jobs, NEW kind \in News, handleNews(s, j, kind)
        PROVE  JobsTyped' /\ LedgerTyped' /\ (stored.earnings <= earnings)'
    <3>1. news' \in [Jobs -> SUBSET News] /\ stored' = stored /\ history' = history
      BY <1>1, <2>1 DEF handleNews, JobsTyped
    <3>2. jobHistory' \in Seq(Jobs) /\ jobsCompleted' \in Nat
      <4>1. jobHistory \in Seq(Jobs) /\ jobsCompleted \in Nat
        BY <1>1 DEF LedgerTyped
      <4>2. \/ jobHistory' = jobHistory /\ jobsCompleted' = jobsCompleted
            \/ /\ jobHistory' = Capped(<<j>> \o jobHistory)
               /\ jobsCompleted' = IF job[j].ok THEN jobsCompleted + 1 ELSE jobsCompleted
        BY <2>1 DEF handleNews, jobCompletedEvent
      <4> QED BY <4>1, <4>2, CappedTyped, SMT
    <3>3. shared' \in BOOLEAN
      BY <1>1, <2>1 DEF handleNews, jobCompletedEvent, LedgerTyped
    <3> QED BY <1>1, <1>2, <3>1, <3>2, <3>3 DEF JobsTyped, LedgerTyped, JobsInv
  <2>2. CASE Persist
    <3>1. /\ stored' = [history |-> jobHistory, completed |-> jobsCompleted,
                        earnings |-> totalEarnings]
          /\ UNCHANGED <<news, history, earnings, jobHistory, jobsCompleted, totalEarnings, shared>>
      BY <2>2 DEF Persist
    <3>2. /\ stored'.history = jobHistory /\ stored'.completed = jobsCompleted
          /\ stored'.earnings = totalEarnings /\ totalEarnings = earnings
      BY <3>1 DEF JobsInv, EarnedOncePerJob
    <3> QED BY <1>1, <1>2, <3>1, <3>2, SMT DEF JobsTyped, LedgerTyped
  <2> QED BY <2>1, <2>2
<1>5. TypeOK'
  BY <1>3, <1>4, TypePartsNext
<1>6. Succeeded' = Succeeded
  BY <1>2 DEF Succeeded, InState
<1>7. EarnedOncePerJob'
  BY <1>2, <1>6 DEF EarnedOncePerJob, JobsInv
<1>8. raced' \/ \A j \in Jobs : SoundJob(j)'
  BY <1>2 DEF JobsInv, SoundJob, linkVars
<1> QED BY <1>3, <1>4, <1>5, <1>7, <1>8 DEF JobsInv

\* What is counted when an answer is built.
LEMMA RecordedFacts ==
    ASSUME LedgerTyped, NEW j \in Jobs, NEW success \in BOOLEAN, Recorded(j, success)
    PROVE  /\ LedgerTyped' /\ stored' = stored
           /\ earnings' = IF success THEN earnings + 1 ELSE earnings
           /\ totalEarnings' = IF success THEN earnings' ELSE totalEarnings
<1>1. /\ stored' = stored
      /\ earnings' = IF success THEN earnings + 1 ELSE earnings
      /\ totalEarnings' = IF success THEN earnings' ELSE totalEarnings
      /\ jobsCompleted' = IF success THEN jobsCompleted + 1 ELSE jobsCompleted
      /\ shared' = FALSE
  BY DEF Recorded, jobCompletedEvent
<1>2. history' \in Seq(Jobs) /\ jobHistory' \in Seq(Jobs)
  <2>1. /\ history' = Capped(<<j>> \o history)
        /\ jobHistory' = Capped(<<j>> \o (IF shared THEN <<j>> \o history ELSE jobHistory))
    BY DEF Recorded, jobCompletedEvent
  <2>2. history \in Seq(Jobs) /\ jobHistory \in Seq(Jobs)
    BY DEF LedgerTyped
  <2>3. (IF shared THEN <<j>> \o history ELSE jobHistory) \in Seq(Jobs)
    BY <2>2, CappedTyped
  <2> QED BY <2>1, <2>2, <2>3, CappedTyped
<1>3. earnings' \in Nat /\ totalEarnings' \in Nat /\ jobsCompleted' \in Nat
  BY <1>1, SMT DEF LedgerTyped
<1>4. shared' \in BOOLEAN
  BY <1>1
<1> QED BY <1>1, <1>2, <1>3, <1>4 DEF LedgerTyped

\* Loading the device key for an answer leaves the connection's key alone.
LEMMA SigningKeys ==
    ASSUME LinkInv, UNCHANGED linkButKeys,
           \/ UNCHANGED keyVars
           \/ device_getPublicKeyHex /\ UNCHANGED wallet
    PROVE  /\ LinkInv' /\ KeysTyped'
           /\ ~raced /\ ~rekeyed /\ status # "disconnected" => PublicKey' = keys
<1>1. LinkTypeOK /\ wallet \in {WalletKey, None}
  BY DEF LinkInv, LinkTypeOK
<1>2. KeysTyped'
  BY <1>1, DeviceKeyTyped DEF KeysTyped, keyVars, LinkTypeOK
<1>3. LinkTypeOK'
  BY <1>1, <1>2, SMT DEF KeysTyped, LinkTypeOK, linkButKeys, serviceVars, screenVars
<1>4. ~raced /\ ~rekeyed /\ status # "disconnected" => keys # None /\ keys = PublicKey
  BY DEF LinkInv, Sound
<1>5. ~raced /\ ~rekeyed /\ status # "disconnected" => PublicKey' = PublicKey
  BY <1>4 DEF PublicKey, mwa_getPublicKeyHex, device_getPublicKeyHex, keyVars, linkButKeys
<1>6. UNCHANGED <<serviceVars, calls, conn, autoConnect, raced, rekeyed>>
  BY DEF linkButKeys
<1>7. LinkInv'
  BY <1>3, <1>5, <1>6, KeysMove
<1> QED BY <1>2, <1>4, <1>5, <1>7

\* The rest of handleJobAssign.
LEMMA ReceiptBuiltInv == ASSUME JobsInv, NEW j \in Jobs, receiptBuilt(j) PROVE JobsInv'
<1>1. LinkInv /\ LinkTypeOK /\ JobsTyped /\ LedgerTyped /\ job \in [Jobs -> JobState]
      /\ job[j] \in JobState /\ job[j].ok \in BOOLEAN
  BY TypeParts DEF JobsInv, JobsTyped, JobState
<1>2. job[j].state = "signing" /\ UNCHANGED <<linkButKeys, news, kills>>
  BY DEF receiptBuilt
<1>3. j \notin Succeeded
  BY <1>2 DEF Succeeded, InState
<1>4. Cardinality(Succeeded \cup {j}) = Cardinality(Succeeded) + 1 /\ Cardinality(Succeeded) \in Nat
  BY <1>3, SucceededFinite, FS_AddElement
<1>5. earnings \in Nat /\ stored.earnings \in Nat
  BY <1>1 DEF LedgerTyped
<1>6. CASE Signed(j) /\ Recorded(j, job[j].ok)
  <2>0. PICK mode \in {job[j].signer} :
            /\ buildJobCompleteWithProvider(mode)
            /\ job' = [job EXCEPT ![j].state = IF CanSend(conn) THEN "sent" ELSE "dropped",
                                  ![j].key = SigningKey(mode)']
    BY <1>6 DEF Signed
  <2> DEFINE st == IF CanSend(conn) THEN "sent" ELSE "dropped"
             ky == SigningKey(mode)'
  <2>1. /\ buildJobCompleteWithProvider(mode)
        /\ job' = [job EXCEPT ![j].state = st, ![j].key = ky]
        /\ mode = job[j].signer
    BY <2>0
  <2>2. \/ UNCHANGED keyVars
        \/ device_getPublicKeyHex /\ UNCHANGED wallet
    BY <2>1 DEF buildJobCompleteWithProvider
  <2>3. /\ LinkInv' /\ KeysTyped'
        /\ ~raced /\ ~rekeyed /\ status # "disconnected" => PublicKey' = keys
    BY <1>1, <1>2, <2>2, SigningKeys
  <2>4. ky \in Keys \cup {None} /\ (mode = provider => ky = PublicKey')
    <3>1. ky = (IF mode = "wallet" THEN wallet' ELSE device') /\ provider' = provider
      BY <1>2 DEF SigningKey, mwa_getPublicKeyHex, linkButKeys
    <3>2. ky \in Keys \cup {None}
      BY <2>3, <3>1, LinkAssumption DEF KeysTyped, Keys
    <3> QED BY <1>1, <2>1, <3>1, <3>2 DEF PublicKey, mwa_getPublicKeyHex, LinkTypeOK, Modes
  <2>5. st \in {"sent", "dropped"}
    OBVIOUS
  <2>6. st = "sent" <=> CanSend(conn)
    OBVIOUS
  <2> HIDE DEF st, ky
  <2>7. /\ job'[j] = [job[j] EXCEPT !.state = st, !.key = ky]
        /\ \A k \in Jobs : k # j => job'[k] = job[k]
    BY <1>1, <2>1
  <2>8. /\ job'[j] \in JobState /\ job'[j].state = st /\ job'[j].key = ky
        /\ job'[j].ok = job[j].ok /\ job'[j].via = job[j].via /\ job'[j].as = job[j].as
        /\ job'[j].signer = mode
    BY <1>1, <2>1, <2>4, <2>5, <2>7, ZenonT(40) DEF JobState
  <2>9. job' \in [Jobs -> JobState]
    BY <1>1, <2>1, <2>7, <2>8
  <2>10. /\ LedgerTyped' /\ stored' = stored
         /\ earnings' = IF job[j].ok THEN earnings + 1 ELSE earnings
         /\ totalEarnings' = IF job[j].ok THEN earnings' ELSE totalEarnings
    BY <1>1, <1>6, RecordedFacts
  <2>11. TypeOK'
    BY <1>1, <1>2, <2>3, <2>9, <2>10, TypePartsNext DEF LinkInv, JobsTyped
  <2>12. Succeeded' = IF job[j].ok THEN Succeeded \cup {j} ELSE Succeeded
    BY <1>2, <2>5, <2>7, <2>8 DEF Succeeded, InState
  <2>13. EarnedOncePerJob' /\ (stored.earnings <= earnings)'
    <3>0. EarnedOncePerJob /\ stored.earnings <= earnings
      BY DEF JobsInv
    <3>1. CASE job[j].ok
      <4>1. /\ earnings' = earnings + 1 /\ totalEarnings' = earnings' /\ stored' = stored
            /\ kills' = kills /\ Cardinality(Succeeded') = Cardinality(Succeeded) + 1
        BY <1>2, <1>4, <2>10, <2>12, <3>1
      <4> QED BY <1>4, <1>5, <3>0, <4>1, SMT DEF EarnedOncePerJob
    <3>2. CASE ~job[j].ok
      <4>1. /\ earnings' = earnings /\ totalEarnings' = totalEarnings /\ stored' = stored
            /\ kills' = kills /\ Succeeded' = Succeeded
        BY <1>2, <2>10, <2>12, <3>2
      <4> QED BY <3>0, <4>1 DEF EarnedOncePerJob
    <3> QED BY <3>1, <3>2
  <2>14. ASSUME ~raced', NEW k \in Jobs PROVE SoundJob(k)'
    <3>1. ~raced /\ conn' = conn /\ provider' = provider /\ rekeyed' = rekeyed /\ SoundJob(k)
      BY <1>2, <2>14 DEF linkButKeys, JobsInv
    <3>2. CASE k # j
      BY <2>7, <3>1, <3>2 DEF SoundJob
    <3>3. CASE k = j /\ job[j].via # None
      <4>1. job[j].via \in Sockets /\ conn[job[j].via].state = "open"
        BY <1>1, <3>1, <3>3 DEF SoundJob, JobState
      <4>2. job[j].via \in Live /\ Sound
        BY <3>1, <4>1, LiveByState DEF JobsInv, LinkInv
      <4>3. ws = job[j].via /\ status # "disconnected"
        BY <4>2 DEF Sound
      <4>4. CanSend(conn) /\ ws \in Sockets
        BY <4>1, <4>3, LinkAssumption DEF CanSend
      <4>5. conn[job[j].via].registered = job[j].as /\ job[j].as # None
            /\ job[j].as = keys
        BY <3>1, <3>3, <4>2 DEF SoundJob, Sound
      <4>6. ~rekeyed => ky = keys
        BY <2>1, <2>3, <2>4, <3>1, <3>3, <4>3 DEF SoundJob
      <4>7. job[j].via # None => /\ conn[job[j].via].state = "open" /\ ~conn[job[j].via].reply
                                 /\ ~rekeyed => job[j].signer = provider
        BY <3>1, <3>3 DEF SoundJob
      <4>8. job'[j].state = "sent" /\ job'[j].signer = job[j].signer
        BY <2>1, <2>6, <2>8, <4>4
      <4> QED BY <2>8, <3>1, <3>3, <4>5, <4>6, <4>7, <4>8 DEF SoundJob
    <3>4. CASE k = j /\ job[j].via = None
      BY <2>8, <3>4 DEF SoundJob
    <3> QED BY <3>2, <3>3, <3>4
  <2> QED BY <2>3, <2>11, <2>13, <2>14 DEF JobsInv
<1>7. CASE /\ job' = [job EXCEPT ![j].state = "unsigned"] /\ Recorded(j, FALSE) /\ UNCHANGED keyVars
  <2>1. LinkInv'
    BY <1>1, <1>2, <1>7, SigningKeys
  <2>2. /\ job'[j] = [job[j] EXCEPT !.state = "unsigned"]
        /\ \A k \in Jobs : k # j => job'[k] = job[k]
    BY <1>1, <1>7
  <2>3. /\ job'[j] \in JobState /\ job'[j].state = "unsigned" /\ job'[j].via = job[j].via
        /\ job'[j].as = job[j].as /\ job'[j].signer = job[j].signer
    BY <1>1, <2>2 DEF JobState
  <2>4. job' \in [Jobs -> JobState]
    BY <1>1, <1>7, <2>2, <2>3
  <2>5. FALSE \in BOOLEAN
    OBVIOUS
  <2>6. LedgerTyped' /\ stored' = stored /\ earnings' = earnings /\ totalEarnings' = totalEarnings
    BY <1>1, <1>7, <2>5, RecordedFacts
  <2>7. TypeOK'
    BY <1>1, <1>2, <2>1, <2>4, <2>6, TypePartsNext DEF LinkInv, JobsTyped
  <2>8. Succeeded' = Succeeded
    BY <1>2, <2>2, <2>3 DEF Succeeded, InState
  <2>9. EarnedOncePerJob' /\ (stored.earnings <= earnings)'
    BY <1>2, <2>6, <2>8 DEF EarnedOncePerJob, JobsInv
  <2>10. ASSUME ~raced', NEW k \in Jobs PROVE SoundJob(k)'
    <3>1. ~raced /\ conn' = conn /\ provider' = provider /\ rekeyed' = rekeyed /\ SoundJob(k)
      BY <1>2, <2>10 DEF linkButKeys, JobsInv
    <3> QED BY <2>2, <2>3, <3>1 DEF SoundJob
  <2> QED BY <2>1, <2>7, <2>9, <2>10 DEF JobsInv
<1> QED BY <1>6, <1>7 DEF receiptBuilt

\* The app is killed and started again.
LEMMA RestartInv == ASSUME JobsInv, restart PROVE JobsInv'
<1>1. LinkInv /\ LinkTypeOK /\ JobsTyped /\ LedgerTyped /\ job \in [Jobs -> JobState]
  BY TypeParts DEF JobsInv, JobsTyped
<1>2. LinkInv' /\ LinkTypeOK'
  BY <1>1, RelaunchInv DEF restart, LinkInv
<1> DEFINE F(k) == [job[k] EXCEPT !.state = IF @ = "signing" THEN "killed" ELSE @, !.via = None]
<1>3. job' = [k \in Jobs |-> F(k)]
  BY DEF restart
<1>4. ASSUME NEW k \in Jobs
      PROVE  /\ F(k) \in JobState /\ F(k).ok = job[k].ok /\ F(k).via = None
             /\ F(k).state \in {"sent", "dropped"} <=> job[k].state \in {"sent", "dropped"}
  <2>1. job[k] \in JobState
    BY <1>1
  <2>2. (IF job[k].state = "signing" THEN "killed" ELSE job[k].state)
          \in {"new", "sent", "dropped", "unsigned", "rejected", "killed"}
    BY <2>1 DEF JobState
  <2> QED BY <2>1, <2>2 DEF JobState
<1> HIDE DEF F
<1>5. job' \in [Jobs -> JobState] /\ Succeeded' = Succeeded /\ \A k \in Jobs : job'[k].via = None
  BY <1>3, <1>4, SameSucceeded
<1>6. /\ history' = stored.history /\ jobHistory' = stored.history /\ earnings' = stored.earnings
      /\ totalEarnings' = stored.earnings /\ jobsCompleted' = stored.completed
      /\ news' = news /\ stored' = stored /\ kills < MaxKills /\ kills' = kills + 1
  BY DEF restart, setJobHistory, setEarnings
<1>7. shared' \in BOOLEAN
  BY DEF restart, setJobHistory
<1>8. LedgerTyped'
  BY <1>1, <1>6, <1>7 DEF LedgerTyped
<1>9. JobsTyped' /\ kills' # 0
  BY <1>1, <1>5, <1>6, JobsAssumption, SMT DEF JobsTyped
<1>10. TypeOK'
  BY <1>2, <1>8, <1>9, TypePartsNext
<1>11. EarnedOncePerJob' /\ (stored.earnings <= earnings)'
  <2>1. Cardinality(Succeeded) \in Nat /\ earnings \in Nat /\ stored.earnings \in Nat
    BY <1>1, SucceededFinite DEF LedgerTyped
  <2> QED BY <1>5, <1>6, <1>9, <2>1, SMT DEF EarnedOncePerJob, JobsInv
<1>12. \A j \in Jobs : SoundJob(j)'
  BY <1>5 DEF SoundJob
<1> QED BY <1>2, <1>10, <1>11, <1>12 DEF JobsInv

\* The app starts in the invariant of the jobs.
LEMMA JobsInvInit == JobsInit => JobsInv
<1> SUFFICES ASSUME JobsInit PROVE JobsInv
  BY SMT
<1>1. LinkInv /\ LinkTypeOK
  BY LinkInvInit DEF JobsInit, LinkInv
<1>2. NewJob \in JobState /\ NewJob.via = None /\ NewJob.state = "new"
  BY DEF NewJob, JobState
<1>3. Succeeded = {}
  BY <1>2 DEF JobsInit, Succeeded, InState
<1>4. JobsTyped
  BY <1>2, JobsAssumption, SMT DEF JobsInit, JobsTyped
<1>5. LedgerTyped /\ stored.earnings = 0
  <2>1. shared \in BOOLEAN
    BY DEF JobsInit
  <2> QED BY <2>1, SMT DEF JobsInit, LedgerTyped
<1>6. EarnedOncePerJob
  BY <1>3, FS_EmptySet, SMT DEF JobsInit, EarnedOncePerJob
<1>7. \A j \in Jobs : SoundJob(j)
  BY <1>2 DEF JobsInit, SoundJob
<1>8. stored.earnings <= earnings
  BY <1>5, SMT DEF JobsInit
<1> QED BY <1>1, <1>4, <1>5, <1>6, <1>7, <1>8, TypeParts DEF JobsInv

\* Every step of the app preserves it.
LEMMA JobsInvNext == ASSUME JobsInv, [Next]_vars PROVE JobsInv'
<1>1. CASE UNCHANGED vars
  <2>1. LinkInv' /\ UNCHANGED <<job, news, ledgerVars, kills, linkVars>>
    BY <1>1, LinkInvNext DEF vars, JobsInv
  <2>2. TypeOK' /\ EarnedOncePerJob' /\ (stored.earnings <= earnings)'
    <3>1. LinkTypeOK' /\ JobsTyped' /\ LedgerTyped'
      BY <2>1, TypeParts DEF LinkInv, JobsTyped, LedgerTyped, ledgerVars, JobsInv
    <3>2. Succeeded' = Succeeded
      BY <2>1 DEF Succeeded, InState
    <3> QED BY <2>1, <3>1, <3>2, TypePartsNext DEF JobsInv, EarnedOncePerJob, ledgerVars
  <2>3. raced' \/ \A j \in Jobs : SoundJob(j)'
    BY <2>1 DEF JobsInv, SoundJob, linkVars
  <2> QED BY <2>1, <2>2, <2>3 DEF JobsInv
<1> QED BY <1>1, LinkStepJobs, JobAssignInv, NewsInv, ReceiptBuiltInv, RestartInv
        DEF Next, handleMessage

\* Every reachable state of the app satisfies JobsInv.
THEOREM JobsInvariance == Spec => []JobsInv
  BY JobsInvInit, JobsInvNext, PTL DEF Spec

\* TypeOK: counters, histories, jobs and keys keep their types across kills and restores.
THEOREM MobileTypes == Spec => []TypeOK
<1>1. JobsInv => TypeOK
  BY DEF JobsInv
<1> QED BY <1>1, JobsInvariance, PTL

\* ReceiptVerifies: an answer is signed by the key its socket is registered under.
THEOREM AnswersVerify == Spec => []ReceiptVerifies
<1>1. JobsInv => ReceiptVerifies
  BY DEF JobsInv, ReceiptVerifies, SoundJob
<1> QED BY <1>1, JobsInvariance, PTL

\* DroppedOnlyIfClosed: send() drops no answer of a job whose socket is still there.
THEOREM NoAnswerLost == Spec => []DroppedOnlyIfClosed
<1>1. JobsInv => DroppedOnlyIfClosed
  BY DEF JobsInv, DroppedOnlyIfClosed, SoundJob
<1> QED BY <1>1, JobsInvariance, PTL

\* EarnedOncePerJob: handleJobAssign, the messages about feedback and payments, and a
\* restart never make the earnings exceed the jobs that succeeded.
THEOREM EarnedOnce == Spec => []EarnedOncePerJob
<1>1. JobsInv => EarnedOncePerJob
  BY DEF JobsInv
<1> QED BY <1>1, JobsInvariance, PTL
=============================================================================
