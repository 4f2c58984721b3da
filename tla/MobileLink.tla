----------------------------- MODULE MobileLink -----------------------------
(***************************************************************************)
(* The connection of the Seeker app to a coordinator:                      *)
(* services/WebSocketService.ts, the signing providers behind it, and the  *)
(* buttons, effects and timers of the screens that call it (useWorker.ts,  *)
(* WalletProvider.tsx, the dashboard and the settings).                    *)
(*                                                                         *)
(* JavaScript is single threaded: a step is what runs between two awaits,  *)
(* or one event handler.  connect() awaits the signing provider, so other  *)
(* handlers run while it is suspended.  A dial (doConnect) replaces ws     *)
(* without closing the old socket, whose handlers stay attached.           *)
(***************************************************************************)
EXTENDS Integers, FiniteSets

CONSTANTS
    Sockets,     \* bound: sockets that exist at a time; closed ones are reused
    Origins,     \* where connect() is called from, a subset of CallSites
    Urls,        \* coordinator URLs the user may enter, a subset of AnyUrl
    Android,     \* whether Mobile Wallet Adapter is available
    MaxKeys,     \* bound: device keys ever generated
    None         \* null

CallSites == {"toggle", "auto", "refresh", "url"}
AnyUrl    == {"good", "bad"}  \* "bad": new WebSocket throws
Modes     == {"device-key", "wallet"}
WalletKey == 0
Keys      == {WalletKey} \cup 1..MaxKeys

ASSUME LinkAssumption ==
    /\ Origins \subseteq CallSites
    /\ Urls \subseteq AnyUrl
    /\ Android \in BOOLEAN
    /\ MaxKeys \in Nat \ {0}
    /\ None \notin Sockets /\ None \notin Keys /\ None \notin Modes

VARIABLES
    \* WebSocketService
    status, shouldReconnect,
    ws,              \* the socket of the last dial
    keys,            \* the public key the worker registers with
    heartbeat,       \* heartbeatInterval is set
    held,            \* the timer of reconnectTimeout is armed
    loose,           \* armed timers whose handle was overwritten
    provider,        \* _signingProvider
    coordinatorUrl,
    calls,           \* [Origins -> a suspended connect(), or None]
    \* the sockets, and what the coordinator knows of each
    conn,
    \* signing providers: SecureStore, DeviceKeyProvider.keys, MWAProvider's key
    secret, device, wallet, lastKey,
    \* the screens
    signingMode, walletAddress, walletCall, isToggling, autoConnect,
    \* history
    raced,           \* connect() or disconnect() ran during another connect()
    rekeyed          \* the signing mode changed since the last connect()

serviceVars == <<status, shouldReconnect, ws, keys, heartbeat, held, loose>>
keyVars     == <<secret, device, wallet, lastKey>>
screenVars  == <<signingMode, walletAddress, walletCall, isToggling>>
linkVars == <<serviceVars, provider, coordinatorUrl, calls, conn, keyVars,
              screenVars, autoConnect, raced, rekeyed>>

(***************************************************************************)
(* Sockets.  A socket that is not closed has the handlers of doConnect     *)
(* attached.  registered: the key of the register message received on it;  *)
(* reply: a register_ack is on its way.                                    *)
(***************************************************************************)
Connection == [state: {"closed", "dialing", "open", "closing"},
               registered: Keys \cup {None}, reply: BOOLEAN]

Closed  == [state |-> "closed", registered |-> None, reply |-> FALSE]
Dialing == [Closed EXCEPT !.state = "dialing"]

Live == {s \in Sockets : conn[s] # Closed}

Suspended == {o \in Origins : calls[o] # None}

\* A call keeps the provider it awaits and what it read from SecureStore.
Call == [provider: Modes, saw: 1..MaxKeys \cup {None}]

Init ==
    /\ status = "disconnected" /\ shouldReconnect = FALSE
    /\ ws = None /\ keys = None
    /\ heartbeat = FALSE /\ held = FALSE /\ loose = 0
    /\ provider = "device-key" /\ signingMode = "device-key"
    /\ coordinatorUrl = "good"
    /\ calls = [o \in Origins |-> None]
    /\ conn = [s \in Sockets |-> Closed]
    /\ secret = None /\ device = None /\ wallet = None /\ lastKey = 0
    /\ walletAddress = FALSE /\ walletCall = "idle"
    /\ isToggling = FALSE
    /\ autoConnect = "armed"
    /\ raced = FALSE /\ rekeyed = FALSE

(***************************************************************************)
(* Pieces of the service                                                   *)
(***************************************************************************)
\* The dashboard clears its auto-connect timer when the status changes.
setStatus(v) ==
    /\ status' = v
    /\ autoConnect' = IF v # status /\ autoConnect = "armed" THEN "done" ELSE autoConnect

\* The new timer takes the handle; one armed under the old handle goes on.
\* h and l are held and loose at this point of the handler.
scheduleReconnect(h, l) ==
    IF shouldReconnect
    THEN held' = TRUE /\ loose' = IF h THEN l + 1 ELSE l
    ELSE held' = h /\ loose' = l

doConnect(h, l) ==
    /\ setStatus("connecting")
    /\ \/ /\ coordinatorUrl = "bad"
          /\ scheduleReconnect(h, l)
          /\ UNCHANGED <<ws, conn>>
       \/ /\ coordinatorUrl # "bad"
          /\ held' = h /\ loose' = l
          /\ \E s \in Sockets \ Live :
                 /\ conn' = [conn EXCEPT ![s] = Dialing]
                 /\ ws' = s

\* send drops the message unless ws is OPEN; c is the socket map at that point.
CanSend(c) == ws # None /\ c[ws].state = "open"

sendRegister(c) ==
    IF keys # None /\ CanSend(c) THEN [c EXCEPT ![ws].registered = keys, ![ws].reply = TRUE] ELSE c

\* An interval that is running is replaced.
startHeartbeat == heartbeat' = TRUE
stopHeartbeat  == heartbeat' = FALSE

setSigningProvider(mode) == provider' = mode

\* Faulty variants: the timer, or the socket, outlives the cleanup.
cleanup_KeepsTimer ==
    /\ heartbeat' = FALSE
    /\ ws' = None
    /\ conn' = [s \in Sockets |-> IF s = ws THEN Closed ELSE conn[s]]
    /\ UNCHANGED <<held, loose>>

cleanup_KeepsSocket ==
    /\ heartbeat' = FALSE
    /\ held' = FALSE
    /\ ws' = None
    /\ UNCHANGED <<loose, conn>>

cleanup ==
    /\ stopHeartbeat
    /\ held' = FALSE
    /\ ws' = None
    /\ conn' = [s \in Sockets |-> IF s = ws THEN Closed ELSE conn[s]]
    /\ UNCHANGED loose

disconnect ==
    /\ shouldReconnect' = FALSE
    /\ cleanup
    /\ setStatus("disconnected")
    /\ raced' = (raced \/ Suspended # {})
    /\ UNCHANGED keys

\* The dials that are under way or will follow from timers and suspended calls.
Dials == Cardinality(Live) + Cardinality(Suspended) + loose + (IF held THEN 1 ELSE 0)

\* bound: no more dials than sockets, and a key for every call that makes one
WithinBounds ==
    /\ Dials < Cardinality(Sockets)
    /\ secret = None => lastKey + Cardinality(Suspended) < MaxKeys

\* connect() up to its await.
connect(o) ==
    IF status \in {"connected", "connecting"}
    THEN UNCHANGED <<shouldReconnect, calls, raced>>
    ELSE /\ WithinBounds
         /\ shouldReconnect' = TRUE
         /\ calls' = [calls EXCEPT ![o] = [provider |-> provider, saw |-> secret]]
         /\ raced' = (raced \/ Suspended # {})

(***************************************************************************)
(* Calls from the screens                                                  *)
(***************************************************************************)
\* The big button is disabled while it is settling and while no wallet is
\* linked in wallet mode.
needsWallet == signingMode = "wallet" /\ ~walletAddress

toggle ==
    /\ ~isToggling /\ ~needsWallet
    /\ "toggle" \in Origins
    /\ isToggling' = TRUE
    /\ \/ /\ status \in {"connected", "reconnecting"}
          /\ disconnect
          /\ UNCHANGED calls
       \/ /\ status \notin {"connected", "reconnecting"}
          /\ connect("toggle")
          /\ UNCHANGED <<status, autoConnect, ws, conn, heartbeat, held, loose, keys>>
    /\ UNCHANGED <<provider, coordinatorUrl, keyVars, signingMode, walletAddress, walletCall,
                   rekeyed>>

\* half a second after the call returned
toggleSettles ==
    /\ isToggling
    /\ calls["toggle"] = None
    /\ isToggling' = FALSE
    /\ UNCHANGED <<serviceVars, provider, coordinatorUrl, calls, conn, keyVars,
                   signingMode, walletAddress, walletCall, autoConnect, raced,
                   rekeyed>>

autoConnects ==
    /\ autoConnect = "armed"
    /\ "auto" \in Origins
    /\ autoConnect' = "done"
    /\ connect("auto")
    /\ UNCHANGED <<status, ws, keys, heartbeat, held, loose, provider,
                   coordinatorUrl, conn, keyVars, screenVars, rekeyed>>

onRefresh ==
    /\ "refresh" \in Origins
    /\ calls["refresh"] = None
    /\ status = "disconnected"
    /\ connect("refresh")
    /\ UNCHANGED <<status, ws, keys, heartbeat, held, loose, provider, autoConnect,
                   coordinatorUrl, conn, keyVars, screenVars, rekeyed>>

\* A worker that is connecting is left alone.
setCoordinatorUrl(u) ==
    /\ u # coordinatorUrl
    /\ coordinatorUrl' = u
    /\ \/ /\ status \in {"connected", "reconnecting"}
          /\ "url" \in Origins
          /\ calls["url"] = None
          /\ WithinBounds
          /\ cleanup
          /\ setStatus("disconnected")
          /\ shouldReconnect' = TRUE
          /\ calls' = [calls EXCEPT !["url"] = [provider |-> provider, saw |-> secret]]
          /\ raced' = (raced \/ Suspended # {})
       \/ /\ status \notin {"connected", "reconnecting"}
          /\ UNCHANGED <<status, autoConnect, shouldReconnect, calls, raced, ws, conn,
                         heartbeat, held, loose>>
    /\ UNCHANGED <<keys, provider, keyVars, screenVars, rekeyed>>

\* The Save button of the settings; an empty input is ignored.
handleSaveUrl == \E u \in Urls : setCoordinatorUrl(u)

(***************************************************************************)
(* connect() after its await                                               *)
(***************************************************************************)
\* Faulty variant: the stored key is not looked at.
LoadDevice_Always(saw) ==
    /\ lastKey' = lastKey + 1
    /\ secret' = lastKey'
    /\ device' = lastKey'

\* getOrCreateKeypair, when the read of SecureStore returned saw
LoadDevice(saw) ==
    IF saw # None
    THEN device' = saw /\ UNCHANGED <<secret, lastKey>>
    ELSE /\ lastKey < MaxKeys
         /\ lastKey' = lastKey + 1
         /\ secret' = lastKey'
         /\ device' = lastKey'

\* getOrCreateKeypair throws: SecureStore fails, or AsyncStorage after it has taken
\* a new key.
KeypairFails(saw) ==
    \/ UNCHANGED <<secret, lastKey>>
    \/ /\ saw = None /\ lastKey < MaxKeys
       /\ lastKey' = lastKey + 1
       /\ secret' = lastKey'

\* The public key of a provider; the device's is loaded if it has none, the
\* wallet's throws (None).
device_getPublicKeyHex ==
    IF device = None THEN LoadDevice(secret) ELSE UNCHANGED <<device, secret, lastKey>>

mwa_getPublicKeyHex == wallet

\* The provider has connected; the field is read again for the public key,
\* and may hold the other provider by now.
ProviderConnected(call) ==
    \/ /\ call.provider = "device-key"
       /\ LoadDevice(call.saw)
       /\ UNCHANGED wallet
    \/ /\ call.provider = "wallet"
       /\ wallet' = WalletKey
       /\ IF provider = "device-key" THEN device_getPublicKeyHex
          ELSE UNCHANGED <<device, secret, lastKey>>

PublicKey == IF provider = "device-key" THEN device ELSE mwa_getPublicKeyHex

\* Faulty variant: the key of the first connect() is kept for good.
connected_KeepsKeys(o) ==
    /\ calls[o] # None
    /\ UNCHANGED provider
    /\ ProviderConnected(calls[o])
    /\ calls' = [calls EXCEPT ![o] = None]
    /\ PublicKey' # None
    /\ keys' = IF keys # None THEN keys ELSE PublicKey'
    /\ doConnect(held, loose)
    /\ rekeyed' = FALSE
    /\ UNCHANGED <<shouldReconnect, heartbeat, coordinatorUrl, screenVars, raced>>

connected(o) ==
    /\ calls[o] # None
    /\ UNCHANGED provider
    /\ ProviderConnected(calls[o])
    /\ calls' = [calls EXCEPT ![o] = None]
    /\ \/ /\ PublicKey' # None
          /\ keys' = PublicKey'
          /\ doConnect(held, loose)
          /\ rekeyed' = FALSE
          /\ UNCHANGED <<shouldReconnect, heartbeat>>
       \/ /\ PublicKey' = None
          /\ UNCHANGED <<serviceVars, conn, autoConnect, rekeyed>>
    /\ UNCHANGED <<coordinatorUrl, screenVars, raced>>

\* The wallet declines, or the device's key cannot be had - when it is the wallet
\* that connected and the provider changed, for want of a public key: an error is
\* shown, and shouldReconnect stays set.
declined(o) ==
    /\ calls[o] # None
    /\ calls' = [calls EXCEPT ![o] = None]
    /\ \/ calls[o].provider = "wallet" /\ UNCHANGED <<wallet, secret, lastKey>>
       \/ calls[o].provider = "device-key" /\ KeypairFails(calls[o].saw) /\ UNCHANGED wallet
       \/ /\ calls[o].provider = "wallet" /\ provider = "device-key" /\ device = None
          /\ wallet' = WalletKey /\ KeypairFails(secret)
    /\ UNCHANGED <<serviceVars, provider, coordinatorUrl, conn, device, screenVars,
                   autoConnect, raced, rekeyed>>

(***************************************************************************)
(* Events of sockets and timers                                            *)
(***************************************************************************)
othersOfLink == <<provider, coordinatorUrl, calls, keyVars, screenVars, raced, rekeyed>>

\* Faulty variant: the worker waits for the coordinator to speak first.
onopen_NoRegister(s) ==
    /\ conn[s].state = "dialing"
    /\ conn' = [conn EXCEPT ![s].state = "open"]
    /\ UNCHANGED <<serviceVars, autoConnect, othersOfLink>>

\* onopen: register is sent on ws, which may be another socket by now
onopen(s) ==
    LET opened == [conn EXCEPT ![s].state = "open"]
    IN  /\ conn[s].state = "dialing"
        /\ conn' = sendRegister(opened)
        /\ UNCHANGED <<serviceVars, autoConnect, othersOfLink>>

\* Faulty variant: any close is taken as the end of the connection.
onclose_NoRetry(s) ==
    /\ conn[s] # Closed
    /\ conn' = [conn EXCEPT ![s] = Closed]
    /\ heartbeat' = FALSE
    /\ setStatus(IF shouldReconnect THEN "reconnecting" ELSE "disconnected")
    /\ UNCHANGED <<held, loose, shouldReconnect, ws, keys, othersOfLink>>

\* A dial fails, or a socket is closed by either end or by the network.
onclose(s) ==
    /\ conn[s] # Closed
    /\ conn' = [conn EXCEPT ![s] = Closed]
    /\ stopHeartbeat
    /\ setStatus(IF shouldReconnect THEN "reconnecting" ELSE "disconnected")
    /\ scheduleReconnect(held, loose)
    /\ UNCHANGED <<shouldReconnect, ws, keys, othersOfLink>>

\* Faulty variant: the heartbeat is started by connect() only.
handleRegisterAck_NoBeat(s) ==
    /\ conn[s].state = "open" /\ conn[s].reply
    /\ conn' = [conn EXCEPT ![s].reply = FALSE]
    /\ setStatus("connected")
    /\ UNCHANGED <<heartbeat, shouldReconnect, ws, keys, held, loose, othersOfLink>>

\* handleRegisterAck; a refusal closes ws, whichever socket it came on
handleRegisterAck(s) ==
    /\ conn[s].state = "open" /\ conn[s].reply
    /\ LET heard == [conn EXCEPT ![s].reply = FALSE]
       IN  \/ /\ conn' = heard
              /\ setStatus("connected")
              /\ startHeartbeat
           \/ /\ conn' = IF ws # None /\ conn[ws] # Closed
                         THEN [heard EXCEPT ![ws].state = "closing"]
                         ELSE heard
              /\ UNCHANGED <<status, autoConnect, heartbeat>>
    /\ UNCHANGED <<shouldReconnect, ws, keys, held, loose, othersOfLink>>

\* The callback of scheduleReconnect, under the current handle or an older one.
reconnectTimer ==
    /\ \/ /\ held
          /\ \/ shouldReconnect /\ doConnect(FALSE, loose)
             \/ /\ ~shouldReconnect
                /\ held' = FALSE
                /\ UNCHANGED <<status, autoConnect, loose, ws, conn>>
       \/ /\ loose > 0
          /\ \/ shouldReconnect /\ doConnect(held, loose - 1)
             \/ /\ ~shouldReconnect
                /\ loose' = loose - 1
                /\ UNCHANGED <<status, autoConnect, held, ws, conn>>
    /\ UNCHANGED <<shouldReconnect, keys, heartbeat, othersOfLink>>

(***************************************************************************)
(* Signing mode and identity                                               *)
(***************************************************************************)
othersOfMode == <<serviceVars, autoConnect, coordinatorUrl, calls, conn, isToggling, raced>>

isAvailable == Android

\* The button is shown on the dashboard and in the settings, in wallet mode
\* while no wallet is linked.
ConnectWalletButton == needsWallet /\ walletCall = "idle"

connectWallet ==
    /\ ConnectWalletButton
    /\ isAvailable
    /\ walletCall' = "linking"
    /\ UNCHANGED <<othersOfMode, provider, keyVars, signingMode, walletAddress, rekeyed>>

walletLinked ==
    /\ walletCall = "linking"
    /\ walletCall' = "idle"
    /\ \/ /\ wallet' = WalletKey
          /\ walletAddress' = TRUE
          /\ signingMode' = "wallet" /\ setSigningProvider("wallet")
       \/ /\ signingMode' = "device-key" /\ setSigningProvider("device-key")
          /\ UNCHANGED <<wallet, walletAddress>>
    /\ rekeyed' = TRUE
    /\ UNCHANGED <<othersOfMode, secret, device, lastKey>>

DisconnectWalletButton == signingMode = "wallet" /\ walletAddress /\ walletCall = "idle"

mwa_disconnect == wallet' = None

\* The worker is stopped, then the provider forgets.
handleDisconnectWallet ==
    /\ DisconnectWalletButton
    /\ disconnect
    /\ mwa_disconnect
    /\ walletCall' = "unlinking"
    /\ UNCHANGED <<coordinatorUrl, calls, provider, secret, device, lastKey,
                   signingMode, walletAddress, isToggling, rekeyed>>

walletUnlinked ==
    /\ walletCall = "unlinking"
    /\ walletCall' = "idle"
    /\ walletAddress' = FALSE
    /\ signingMode' = "device-key" /\ setSigningProvider("device-key")
    /\ rekeyed' = TRUE
    /\ UNCHANGED <<othersOfMode, keyVars>>

ModeButton(mode) == mode = "wallet" => Android

\* The connection stays up, registered under the key of the old mode.
switchSigningMode(mode) ==
    /\ ModeButton(mode)
    /\ mode # signingMode
    /\ signingMode' = mode /\ setSigningProvider(mode)
    /\ walletAddress' = (walletAddress /\ mode = "wallet")
    /\ rekeyed' = TRUE
    /\ UNCHANGED <<othersOfMode, keyVars, walletCall>>

ResetButton == signingMode = "device-key"

resetKeypair == secret' = None

\* DeviceKeyProvider keeps the old key until it is connected again.
handleResetKeypair ==
    /\ ResetButton
    /\ secret # None => lastKey + Cardinality(Suspended) < MaxKeys
    /\ disconnect
    /\ resetKeypair
    /\ UNCHANGED <<coordinatorUrl, calls, provider, device, wallet, lastKey, screenVars,
                   rekeyed>>

\* The app is killed and started again; loadPersistedState restores the URL
\* and the mode, but no wallet, and the dashboard arms its auto-connect timer.
relaunch ==
    /\ status' = "disconnected" /\ shouldReconnect' = FALSE
    /\ ws' = None /\ keys' = None
    /\ heartbeat' = FALSE /\ held' = FALSE /\ loose' = 0
    /\ provider' = signingMode
    /\ calls' = [o \in Origins |-> None]
    /\ conn' = [s \in Sockets |-> Closed]
    /\ device' = None /\ wallet' = None
    /\ walletAddress' = FALSE /\ walletCall' = "idle"
    /\ isToggling' = FALSE
    /\ autoConnect' = "armed"
    /\ raced' = FALSE /\ rekeyed' = FALSE
    /\ UNCHANGED <<coordinatorUrl, signingMode, secret, lastKey>>

ScreenNext ==
    \/ toggle \/ toggleSettles \/ autoConnects \/ onRefresh
    \/ handleSaveUrl
    \/ \E o \in Origins : connected(o) \/ declined(o)
    \/ connectWallet \/ walletLinked
    \/ handleDisconnectWallet \/ walletUnlinked
    \/ \E m \in Modes : switchSigningMode(m)
    \/ handleResetKeypair

SocketNext ==
    \/ \E s \in Sockets : onopen(s) \/ onclose(s) \/ handleRegisterAck(s)
    \/ reconnectTimer

LinkNext == ScreenNext \/ SocketNext

LinkSpec == Init /\ [][LinkNext]_linkVars

(***************************************************************************)
(* Fairness: setTimeout callbacks run; a dial or a close ends one way or   *)
(* the other (the platform's connect timeout); the coordinator's register  *)
(* handler acknowledges before it returns.  Nothing is assumed of the      *)
(* user, of wallets, or of how long an open socket stays open.             *)
(***************************************************************************)
DialEnds(s) == conn[s].state \in {"dialing", "closing"} /\ (onopen(s) \/ onclose(s))

LinkFairSpec ==
    /\ LinkSpec
    /\ WF_linkVars(reconnectTimer)
    /\ \A s \in Sockets : WF_linkVars(DialEnds(s)) /\ WF_linkVars(handleRegisterAck(s))

-----------------------------------------------------------------------------
LinkTypeOK ==
    /\ status \in {"disconnected", "connecting", "connected", "reconnecting"}
    /\ shouldReconnect \in BOOLEAN /\ heartbeat \in BOOLEAN /\ held \in BOOLEAN
    /\ ws \in Sockets \cup {None} /\ keys \in Keys \cup {None}
    /\ loose \in Nat
    /\ provider \in Modes /\ signingMode \in Modes
    /\ coordinatorUrl \in AnyUrl
    /\ calls \in [Origins -> Call \cup {None}]
    /\ conn \in [Sockets -> Connection]
    /\ {secret, device} \subseteq 1..MaxKeys \cup {None}
    /\ wallet \in {WalletKey, None} /\ lastKey \in 0..MaxKeys
    /\ walletAddress \in BOOLEAN /\ walletCall \in {"idle", "linking", "unlinking"}
    /\ isToggling \in BOOLEAN /\ autoConnect \in {"armed", "done"}
    /\ raced \in BOOLEAN /\ rekeyed \in BOOLEAN

\* doConnect never closes the socket it replaces, yet the worker has one
\* connection at a time: only connect() calls that overlap, or a disconnect()
\* that falls into one, can leave a second socket with live handlers behind.
OneConnection == ~raced => \A s, t \in Live : s = t

\* After disconnect() - or any other way to status "disconnected" - nothing is
\* left running that would dial, register or answer, unless a connect() is
\* still suspended or calls have overlapped.
OffMeansOff ==
    status = "disconnected" /\ Suspended = {} /\ ~raced
        => Live = {} /\ ~heartbeat /\ ~held /\ loose = 0

\* The status shown and the machinery agree.  A worker shown as connected has its
\* heartbeat running; and unless calls have overlapped, ws is open, so that the
\* heartbeats are sent, and registered under the key they carry.  (After an
\* overlap, a register_ack on a socket that was replaced also shows "connected".)
\* A worker shown as reconnecting has a timer armed whose callback will dial.
StatusIsTrue ==
    /\ status = "connected" =>
         heartbeat /\ (raced \/ (CanSend(conn) /\ keys # None /\ conn[ws].registered = keys))
    /\ status = "reconnecting" => shouldReconnect /\ (held \/ loose > 0)

\* Reconnecting never ends in waiting: scheduleReconnect's timer cannot be lost
\* by overwriting its handle, so the worker dials again or is switched off.
DialsAgain == []<>(status # "reconnecting")

\* An attempt to connect comes to an end, unless the URL cannot be dialled or
\* calls have overlapped.
AttemptEnds == []<>(status = "connecting" => coordinatorUrl = "bad" \/ raced)

(***************************************************************************)
(* The inductive invariant behind the first three                          *)
(***************************************************************************)
\* Unless calls have overlapped, ws is the only socket, a suspended connect(), a
\* dial and an armed timer exclude each other, and the key the worker registers
\* with is the provider's as long as the mode has not changed.
Sound ==
    /\ loose = 0 /\ (held => Live = {})
    /\ Live \subseteq {ws}
    /\ \A s \in Live : conn[s].registered \in {None, keys}
    /\ \A s \in Live : conn[s].reply => keys # None /\ conn[s].registered = keys
    /\ status = "connected" => CanSend(conn) /\ ~conn[ws].reply /\ conn[ws].registered = keys
    /\ \A o, p \in Suspended : o = p
    /\ Suspended # {} => status = "disconnected"
    /\ status = "disconnected" => Live = {} /\ ~held /\ ~heartbeat
    /\ status # "disconnected" /\ ~rekeyed => keys # None /\ keys = PublicKey

LinkInv ==
    /\ LinkTypeOK /\ StatusIsTrue
    /\ autoConnect = "armed" => status = "disconnected"
    /\ raced \/ Sound
=============================================================================
