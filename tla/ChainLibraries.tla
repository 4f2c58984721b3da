--------------------------- MODULE ChainLibraries ---------------------------
(***************************************************************************)
(* Library code for the two chains that the coordinators do not call yet:  *)
(* the one-off settlement of a job (bolt-settlement.ts, and swap.ts and    *)
(* distribute.ts of packages/bolt) and the anchoring of receipts           *)
(* (receiptAnchorer.ts, the receipt_anchor program on Solana and the       *)
(* ReceiptAnchor contract on Monad).  The calls are operators; the steps   *)
(* are a program that makes them, in any order.                            *)
(***************************************************************************)
EXTENDS Integers, Sequences

CONSTANTS
    MaxBolt,   \* bound: the largest amount a quote offers
    MaxCalls   \* bound: anchoring calls

ASSUME LibrariesAssumption == MaxBolt \in Nat /\ MaxCalls \in Nat

VARIABLES
    calls,     \* the anchoring calls so far, in the order the chain meets them
    accounts,  \* the accounts of the receipt_anchor program, by job id
    ledger,    \* the state of the ReceiptAnchor contract
    oneOff     \* what the last one-off settlement was given and returned

libVars == <<calls, accounts, ledger, oneOff>>

(***************************************************************************)
(* Settlement.  Jupiter answers with a quote, or not; a swap is refused by *)
(* its API, refused by the node, sent but not confirmed in time, or        *)
(* confirmed.                                                              *)
(***************************************************************************)
PROTOCOL_FEE_BPS == 500

NoQuote == -1
Quotes  == {NoQuote} \cup 0..MaxBolt
Swaps   == {"api fails", "not sent", "not confirmed", "confirmed"}
Threw   == [threw |-> TRUE]

\* Faulty variant: the fee is rounded up.
settleBolt_RoundsUp(quote, hasKeypair, swap) ==
    LET total == IF quote = NoQuote THEN 0 ELSE quote
        fee   == (total * PROTOCOL_FEE_BPS + 9999) \div 10000
    IN  [bolt_amount |-> total - fee, protocol_fee |-> fee,
         signed |-> hasKeypair /\ quote # NoQuote /\ swap = "confirmed"]

\* Never throws.  tx_signature is empty unless the swap was confirmed, also
\* when it was sent and may still be executed.
settleBolt(quote, hasKeypair, swap) ==
    LET total == IF quote = NoQuote THEN 0 ELSE quote
        fee   == (total * PROTOCOL_FEE_BPS) \div 10000
    IN  [bolt_amount |-> total - fee, protocol_fee |-> fee,
         signed |-> hasKeypair /\ quote # NoQuote /\ swap = "confirmed"]

\* Math.floor(outputAmount * 0.05); doubles are exact enough below 2^50.
swapUsdcToBolt(quote, hasKeypair, swap) ==
    IF quote = NoQuote \/ (hasKeypair /\ swap # "confirmed") THEN Threw
    ELSE [outputAmount |-> quote, protocolFee |-> (quote * 5) \div 100, signed |-> hasKeypair]

\* Computes the split, transfers nothing and returns no signature.
distributeBolt(total) ==
    LET fee == (total * PROTOCOL_FEE_BPS) \div 10000
    IN  [fee |-> fee, workerAmount |-> total - fee]

(***************************************************************************)
(* Anchoring.  Of a job id and a hash only the length matters, and which   *)
(* it is; the hub's job ids are UUIDs, of 36 characters.  An account of    *)
(* the program has an address made from the job id, which must not be      *)
(* longer than a seed, and "init" refuses an account that exists.          *)
(***************************************************************************)
MaxSeed == 32

JobIds == [short |-> 8, full |-> 32, uuid |-> 36, long |-> 65]
Hashes == [sha256 |-> 64, other |-> 64, prefixed |-> 66]

AnchorReceiptParams ==
    [jobId: DOMAIN JobIds, receiptHash: DOMAIN Hashes, providerPubkey: {"base58", "hex"}]

\* What becomes of a transaction: it is not executed, executed but not confirmed
\* in time, or confirmed.
Sends == {"lost", "not confirmed", "confirmed"}

NoRecord == [jobId |-> "none"]

\* The space of a record: discriminator, two strings, two keys, a timestamp.
SIZE == 8 + (4 + 64) + 32 + (4 + 64) + 8 + 32

Space(call) == 8 + (4 + JobIds[call.jobId]) + 32 + (4 + Hashes[call.receiptHash]) + 8 + 32

\* Faulty variant: an account that exists is written again.
anchor_receipt_IfNeeded(acc, call) ==
    IF JobIds[call.jobId] <= 64 /\ Hashes[call.receiptHash] <= 64
    THEN [acc EXCEPT ![call.jobId] = call]
    ELSE acc

Accepts(acc, call) ==
    /\ acc[call.jobId] = NoRecord
    /\ JobIds[call.jobId] <= 64 /\ Hashes[call.receiptHash] <= 64

anchor_receipt(acc, call) ==
    IF Accepts(acc, call) THEN [acc EXCEPT ![call.jobId] = call] ELSE acc

\* Any error is a warning and the answer null: an address that cannot be derived,
\* a transaction that the node does not take, the program's refusal, and also a
\* transaction that is executed but not confirmed in time.
anchorReceipt(acc, call, hasKeypair, sent) ==
    LET executed == /\ hasKeypair /\ JobIds[call.jobId] <= MaxSeed
                    /\ call.providerPubkey = "base58" /\ sent # "lost"
    IN  [accounts |-> IF executed THEN anchor_receipt(acc, call) ELSE acc,
         txSig |-> executed /\ Accepts(acc, call) /\ sent = "confirmed"]

\* Monad: the set of hashes, and the ReceiptAnchored events.
anchor(l, receiptHash) ==
    IF receiptHash \in l.anchored THEN l
    ELSE [anchored |-> l.anchored \cup {receiptHash},
          events |-> Append(l.events, receiptHash)]

isAnchored(receiptHash) == receiptHash \in ledger.anchored

(***************************************************************************)
(* A program that uses the libraries                                       *)
(***************************************************************************)
NoOneOff == [quote |-> "none"]

LibInit ==
    /\ calls = <<>>
    /\ accounts = [j \in DOMAIN JobIds |-> NoRecord]
    /\ ledger = [anchored |-> {}, events |-> <<>>]
    /\ oneOff = NoOneOff

AnchorOnSolana(call, hasKeypair, sent) ==
    /\ Len(calls) < MaxCalls
    /\ LET answer == anchorReceipt(accounts, call, hasKeypair, sent)
       IN  /\ calls' = Append(calls, [on |-> "solana", params |-> call, keypair |-> hasKeypair,
                                      sent |-> sent, txSig |-> answer.txSig])
           /\ accounts' = answer.accounts
    /\ UNCHANGED <<ledger, oneOff>>

AnchorOnMonad(call) ==
    /\ Len(calls) < MaxCalls
    /\ calls' = Append(calls, [on |-> "monad", params |-> call, keypair |-> TRUE,
                               sent |-> "confirmed", txSig |-> FALSE])
    /\ ledger' = anchor(ledger, call.receiptHash)
    /\ UNCHANGED <<accounts, oneOff>>

\* The same quote and swap, met by each of the three.
SettleOnce(quote, hasKeypair, swap) ==
    /\ oneOff' = [quote   |-> quote,
                  settled |-> settleBolt(quote, hasKeypair, swap),
                  swapped |-> swapUsdcToBolt(quote, hasKeypair, swap),
                  shared  |-> distributeBolt(IF quote = NoQuote THEN 0 ELSE quote)]
    /\ UNCHANGED <<calls, accounts, ledger>>

AnchorStep ==
    \E call \in AnchorReceiptParams :
        \/ \E hasKeypair \in BOOLEAN, sent \in Sends : AnchorOnSolana(call, hasKeypair, sent)
        \/ AnchorOnMonad(call)

SettleStep ==
    \E quote \in Quotes, hasKeypair \in BOOLEAN, swap \in Swaps :
        SettleOnce(quote, hasKeypair, swap)

LibNext == AnchorStep \/ SettleStep

LibSpec == LibInit /\ [][LibNext]_libVars

-----------------------------------------------------------------------------
(* Properties *)

\* "Deduct 5% protocol fee": whatever the quote, the worker's part and the fee
\* add up to it, the fee is the largest amount that is not above a twentieth,
\* and settleBolt, swapUsdcToBolt and distributeBolt agree on it.  Where
\* swapUsdcToBolt throws, settleBolt has no signature, otherwise the same.
BoltSplitExact ==
    oneOff # NoOneOff =>
        LET fee   == oneOff.settled.protocol_fee
            total == IF oneOff.quote = NoQuote THEN 0 ELSE oneOff.quote
        IN  /\ oneOff.settled.bolt_amount + fee = total
            /\ 20 * fee <= total /\ total < 20 * (fee + 1)
            /\ IF oneOff.swapped = Threw THEN ~oneOff.settled.signed
               ELSE /\ oneOff.swapped.protocolFee = fee
                    /\ oneOff.swapped.signed = oneOff.settled.signed
            /\ oneOff.shared = [fee |-> fee, workerAmount |-> oneOff.settled.bolt_amount]

\* The calls that the program on Solana can take a record of job j from.
SoundFor(j, c) ==
    /\ c.on = "solana" /\ c.keypair /\ c.sent # "lost"
    /\ c.params.jobId = j /\ JobIds[j] <= MaxSeed
    /\ Hashes[c.params.receiptHash] <= 64 /\ c.params.providerPubkey = "base58"

\* Whatever is submitted, in any order, confirmed or not, a job keeps the record of
\* the first sound transaction that was executed, and that record fits its
\* account; a caller that gets a signature finds its own record there, for good;
\* and ReceiptAnchor reports a hash once, when it is first submitted.
FirstAnchorStays ==
    /\ \A j \in DOMAIN JobIds :
         \/ accounts[j] = NoRecord /\ \A i \in DOMAIN calls : ~SoundFor(j, calls[i])
         \/ \E i \in DOMAIN calls :
                /\ SoundFor(j, calls[i]) /\ \A k \in 1..(i - 1) : ~SoundFor(j, calls[k])
                /\ accounts[j] = calls[i].params /\ Space(accounts[j]) <= SIZE
    /\ \A i \in DOMAIN calls :
         calls[i].txSig => accounts[calls[i].params.jobId] = calls[i].params
    /\ \A h \in DOMAIN Hashes :
         isAnchored(h) <=> \E i \in DOMAIN calls :
                               calls[i].on = "monad" /\ calls[i].params.receiptHash = h
    /\ \A m \in DOMAIN ledger.events :
         /\ isAnchored(ledger.events[m])
         /\ \A n \in DOMAIN ledger.events : ledger.events[m] = ledger.events[n] => m = n
=============================================================================
