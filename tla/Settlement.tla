----------------------------- MODULE Settlement -----------------------------
(***************************************************************************)
(* packages/settlement: verifyAndExecute, which a seller's server runs for *)
(* POST /execute (check the quote, check the payment on chain, run the     *)
(* service once), and verifySettlement, which the engine's settlement      *)
(* routes run.  Requests are concurrent; each awaits the signature check,  *)
(* the RPC node and, in verifyAndExecute, the service itself.              *)
(*                                                                         *)
(* A quote document is what a client puts into X-Ghost-Bazaar-Quote: the   *)
(* fields the steps look at, and whether each signature verifies.  A       *)
(* transaction is its status and its instructions.  A price is a decimal   *)
(* string, a transferred amount an integer of the mint's smallest unit.    *)
(***************************************************************************)
EXTENDS Amounts, FiniteSets

CONSTANTS
  Requests,       \* HTTP requests being handled at a time
  QuoteIds, Sellers, TxIds,
  UsdcMint,       \* request.usdcMint
  Decimals,       \* MINT_DECIMALS of that mint
  Documents,      \* quote documents clients present
  Payments,       \* transactions that may be confirmed on chain
  None,           \* null: an undecodable header, an unknown transaction, no mint
  Scopes          \* the bounds explored: see scope

Policies == {"optional", "quote_id_required", "hash_required"}

\* A signed quote, as the settlement steps see it.
IsQuoteDocument(q) ==
  /\ q.quote_id \in QuoteIds /\ q.seller \in Sellers
  /\ IsDecimalString(q.final_price)
  /\ q.memo_policy \in Policies /\ q.expires_at \in Nat
  /\ {q.nonce_ok, q.buyer_signed, q.seller_signed} \subseteq BOOLEAN

\* A token transfer, and a memo with the strings its text contains.
IsInstruction(i) ==
  \/ i.kind = "transfer" /\ i.destination \in Sellers /\ i.mint \in {UsdcMint, None}
                         /\ i.amount \in Nat
  \/ i.kind = "memo" /\ i.text \subseteq QuoteIds \cup Documents

ASSUME SettlementAssumption ==
  /\ Decimals \in Nat
  /\ \A q \in Documents : IsQuoteDocument(q)
  /\ \A p \in Payments : /\ p.failed \in BOOLEAN
                         /\ Len(p.instructions) \in Nat
                         /\ DOMAIN p.instructions = 1..Len(p.instructions)
                         /\ \A i \in DOMAIN p.instructions : IsInstruction(p.instructions[i])
  /\ \A s \in Scopes : /\ {s.txs, s.time, s.restarts} \subseteq Nat
                       /\ s.modes \subseteq {"execute", "verify"}
                       /\ s.documents \subseteq Documents /\ s.payments \subseteq Payments
  /\ None \notin Documents \cup Payments \cup TxIds \cup {UsdcMint}

VARIABLES
  chain,      \* confirmed transactions
  nonces,     \* consumedNonces: quote ids
  req,        \* what each request is doing
  now,        \* wall clock
  restarts,   \* restarts so far
  served,     \* history: the quotes services were completed for, with the payment
              \* and the number of restarts before
  verified,   \* history: what verifySettlement accepted last, and when
  scope       \* of this behaviour: the modes, verifyAndExecute
              \* ("execute") or verifySettlement ("verify"), documents and
              \* payments that occur, and bounds on payments, clock and restarts

vars == <<chain, nonces, req, now, restarts, served, verified, scope>>

Idle == [pc |-> "idle"]

Init ==
  /\ chain = [t \in TxIds |-> None]
  /\ nonces = {}
  /\ req = [r \in Requests |-> Idle]
  /\ now = 0
  /\ restarts = 0
  /\ served = <<>>
  /\ verified = None
  /\ scope \in Scopes

-----------------------------------------------------------------------------
(***************************************************************************)
(* The checks.  Each operator yields the code of the first step that       *)
(* fails, or "ok".                                                         *)
(***************************************************************************)

Codes ==
  {"ok", "malformed_quote_header", "invalid_buyer_signature", "invalid_seller_signature",
   "invalid_payment_signature", "transaction_not_found", "transaction_failed",
   "transfer_instruction_missing", "transfer_destination_mismatch", "transfer_mint_mismatch",
   "price_mismatch", "memo_missing", "memo_mismatch", "nonce_replayed", "expired_quote", "execution_failed"}

\* verifyQuote up to the signatures: expiry and nonce format come first.  Both
\* callers map a bad nonce to malformed_quote_header, and step 13 never fails.
PreVerifyQuote(q) ==
  IF q.expires_at <= now THEN "expired_quote"
  ELSE IF ~q.nonce_ok THEN "malformed_quote_header"
  ELSE "ok"

\* Faulty variant: one signature is enough.
VerifySignaturesEither(q) ==
  IF q.buyer_signed \/ q.seller_signed THEN "ok" ELSE "invalid_buyer_signature"

\* verifyQuote: the two signatures.
VerifySignatures(q) ==
  IF ~q.buyer_signed THEN "invalid_buyer_signature"
  ELSE IF ~q.seller_signed THEN "invalid_seller_signature"
  ELSE "ok"

\* The first instruction of a kind, or none.
FirstOfKind(t, kind) ==
  LET found == {i \in DOMAIN t.instructions : t.instructions[i].kind = kind}
  IN IF found = {} THEN None
     ELSE t.instructions[CHOOSE i \in found : \A j \in found : i <= j]

\* extractSplTransfer: the first transfer instruction; a plain transfer has no mint.
ExtractSplTransfer(t) == FirstOfKind(t, "transfer")

\* extractMemo: the first memo; its text is the set of strings it contains.
ExtractMemo(t) ==
  IF FirstOfKind(t, "memo") = None THEN None ELSE FirstOfKind(t, "memo").text

\* Faulty variant: any memo will do.
CheckMemoPresent(q, t) ==
  IF q.memo_policy # "optional" /\ ExtractMemo(t) = None THEN "memo_missing" ELSE "ok"

\* Steps 11 and 12: the memo contains the quote id, or the hash of the quote.
CheckMemo(q, t) ==
  LET expected == IF q.memo_policy = "quote_id_required" THEN q.quote_id ELSE q
  IN IF q.memo_policy = "optional" THEN "ok"
     ELSE IF ExtractMemo(t) = None THEN "memo_missing"
     ELSE IF expected \notin ExtractMemo(t) THEN "memo_mismatch"
     ELSE "ok"

\* Steps 5 to 12, on what getTransaction returned.
CheckPayment(q, t) ==
  IF t = None THEN "transaction_not_found"
  ELSE IF t.failed THEN "transaction_failed"
  ELSE IF ExtractSplTransfer(t) = None THEN "transfer_instruction_missing"
  ELSE IF ExtractSplTransfer(t).destination # q.seller THEN "transfer_destination_mismatch"
  ELSE IF ExtractSplTransfer(t).mint # UsdcMint THEN "transfer_mint_mismatch"
  ELSE IF ExtractSplTransfer(t).amount # NormalizeWithDecimals(q.final_price, Decimals)
       THEN "price_mismatch"
  ELSE CheckMemo(q, t)

\* Faulty variant: the expiry was checked with the signatures.
CheckNonceOnly(q) == IF q.quote_id \in nonces THEN "nonce_replayed" ELSE "ok"

\* Steps 14 and 15: the nonce, and the expiry once more.
CheckFreshness(q) ==
  IF q.quote_id \in nonces THEN "nonce_replayed"
  ELSE IF q.expires_at <= now THEN "expired_quote"
  ELSE "ok"

-----------------------------------------------------------------------------
(***************************************************************************)
(* A request.                                                              *)
(***************************************************************************)

\* The request is answered with the given code; the answer changes nothing else.
Reply(r, code) == code \in Codes /\ req' = [req EXCEPT ![r] = Idle]

GoTo(r, q) == req' = [req EXCEPT ![r] = q]

\* Faulty variant: the payment signature is not looked at.
AwaitPaymentUndecoded(r, q) == GoTo(r, [q EXCEPT !.pc = "payment"])

\* Step 4: the payment signature is decoded, then the RPC node is asked.
AwaitPayment(r, q) ==
  IF q.tx = None THEN Reply(r, "invalid_payment_signature")
  ELSE GoTo(r, [q EXCEPT !.pc = "payment"])

\* POST /execute or a settlement route: step 1 and verifyQuote to its first await.
\* verifySettlement goes on without the signatures when the quote has expired.
Submit(r, mode, doc, tx) ==
  /\ req[r] = Idle
  /\ IF doc = None THEN Reply(r, "malformed_quote_header")
     ELSE LET code == PreVerifyQuote(doc)
              q == [pc |-> "signatures", mode |-> mode, doc |-> doc, tx |-> tx]
          IN IF code = "ok" THEN GoTo(r, q)
             ELSE IF mode = "verify" /\ code = "expired_quote"
                  THEN AwaitPayment(r, q)
             ELSE Reply(r, code)
  /\ UNCHANGED <<chain, nonces, now, restarts, served, verified, scope>>

\* The signature check is done.
SignaturesChecked(r) ==
  /\ req[r].pc = "signatures"
  /\ LET code == VerifySignatures(req[r].doc)
     IN IF code # "ok" THEN Reply(r, code)
        ELSE AwaitPayment(r, req[r])
  /\ UNCHANGED <<chain, nonces, now, restarts, served, verified, scope>>

\* getTransaction answers and verifyAndExecute starts the service, or refuses.
PaymentFetched(r) ==
  /\ req[r].pc = "payment"
  /\ req[r].mode = "execute"
  /\ LET payment == CheckPayment(req[r].doc, chain[req[r].tx])
         code == IF payment = "ok" THEN CheckFreshness(req[r].doc) ELSE payment
     IN IF code = "ok" THEN GoTo(r, [req[r] EXCEPT !.pc = "executing"]) ELSE Reply(r, code)
  /\ UNCHANGED <<chain, nonces, now, restarts, served, verified, scope>>

\* getTransaction answers and verifySettlement returns.
PaymentVerified(r) ==
  /\ req[r].pc = "payment"
  /\ req[r].mode = "verify"
  /\ LET code == CheckPayment(req[r].doc, chain[req[r].tx])
     IN /\ Reply(r, code)
        /\ verified' = IF code = "ok" THEN [doc |-> req[r].doc, tx |-> req[r].tx, at |-> now]
                       ELSE verified
  /\ UNCHANGED <<chain, nonces, now, restarts, served, scope>>

\* Faulty variant: the nonce is not recorded.
ConsumeNothing(quoteId) == nonces

\* consumeNonce.
ConsumeNonce(quoteId) == nonces \cup {quoteId}

\* The service has run: the nonce is consumed and the receipt returned.
ServiceCompletes(r) ==
  /\ req[r].pc = "executing"
  /\ nonces' = ConsumeNonce(req[r].doc.quote_id)
  /\ served' = Append(served, [doc |-> req[r].doc, tx |-> req[r].tx, life |-> restarts])
  /\ Reply(r, "ok")
  /\ UNCHANGED <<chain, now, restarts, verified, scope>>

\* Faulty variant: the nonce is consumed whatever becomes of the service.
ServiceFailsConsumed(r) ==
  /\ req[r].pc = "executing"
  /\ nonces' = ConsumeNonce(req[r].doc.quote_id)
  /\ Reply(r, "execution_failed")
  /\ UNCHANGED <<chain, now, restarts, served, verified, scope>>

\* The service throws.
ServiceFails(r) ==
  /\ req[r].pc = "executing"
  /\ Reply(r, "execution_failed")
  /\ UNCHANGED <<chain, nonces, now, restarts, served, verified, scope>>

-----------------------------------------------------------------------------
(***************************************************************************)
(* The environment: payments are confirmed, time passes, the server        *)
(* restarts and forgets the nonces and its requests.                       *)
(***************************************************************************)
Confirm(t, p) ==
  /\ chain[t] = None
  /\ Cardinality({x \in TxIds : chain[x] # None}) < scope.txs
  /\ chain' = [chain EXCEPT ![t] = p]
  /\ UNCHANGED <<nonces, req, now, restarts, served, verified, scope>>

Tick ==
  /\ now < scope.time
  /\ now' = now + 1
  /\ UNCHANGED <<chain, nonces, req, restarts, served, verified, scope>>

Restart ==
  /\ restarts < scope.restarts
  /\ restarts' = restarts + 1
  /\ nonces' = {}
  /\ req' = [r \in Requests |-> Idle]
  /\ UNCHANGED <<chain, now, served, verified, scope>>

Next ==
  \/ \E r \in Requests :
       \/ \E mode \in scope.modes, doc \in scope.documents \cup {None},
             tx \in TxIds \cup {None} : Submit(r, mode, doc, tx)
       \/ SignaturesChecked(r) \/ PaymentFetched(r) \/ PaymentVerified(r)
       \/ ServiceCompletes(r) \/ ServiceFails(r)
  \/ \E t \in TxIds, p \in scope.payments : Confirm(t, p)
  \/ Tick
  \/ Restart

Spec == Init /\ [][Next]_vars

-----------------------------------------------------------------------------
(***************************************************************************)
(* Properties.                                                             *)
(***************************************************************************)
PcIs(r, pcs) == req[r].pc \in pcs

\* What a request that has been taken up holds.
OpenRequests ==
  [pc : {"signatures", "payment", "executing"}, mode : {"execute", "verify"},
   doc : Documents, tx : TxIds \cup {None}]

\* The fields of a request and of the histories; a payment is looked up, and a
\* service run, only with a payment signature that could be decoded.
TypeOK ==
  /\ chain \in [TxIds -> Payments \cup {None}]
  /\ nonces \subseteq QuoteIds
  /\ req \in [Requests -> OpenRequests \cup {Idle}]
  /\ \A r \in Requests : PcIs(r, {"payment", "executing"}) => req[r].tx # None
  /\ scope \in Scopes /\ now \in 0..scope.time /\ restarts \in 0..scope.restarts
  /\ served \in Seq([doc : Documents, tx : TxIds, life : Nat])
  /\ verified \in [doc : Documents, tx : TxIds, at : Nat] \cup {None}

\* A consumed nonce means that its service was completed: a service that fails, or
\* a request that is refused at any step, never uses up the buyer's payment.
ConsumedNonceWasServed ==
  \A id \in nonces : \E i \in DOMAIN served : served[i].doc.quote_id = id

\* Does the transaction transfer the price to the seller in the right mint?  The
\* price is reckoned from the number the string denotes, down to the unit.
Pays(t, q) ==
  \E i \in DOMAIN t.instructions :
    LET x == t.instructions[i]
    IN /\ x.kind = "transfer" /\ x.destination = q.seller /\ x.mint = UsdcMint
       /\ IsWorth(q.final_price, Decimals, x.amount)

IsPaid(tx, q) == chain[tx] # None /\ ~chain[tx].failed /\ Pays(chain[tx], q)

\* Every service that ran, and every settlement the engine was told of, was paid
\* for on chain: the quote's price to the unit, in the mint, to the seller, by a
\* transaction that did not fail (steps 5 to 10, normalizeAmount).
ServedQuotesArePaid ==
  /\ \A i \in DOMAIN served : IsPaid(served[i].tx, served[i].doc)
  /\ verified # None => IsPaid(verified.tx, verified.doc)

\* The quotes that the memo of a confirmed transaction names, by id or by hash.
NamedQuotes(t) ==
  {id \in QuoteIds : /\ ExtractMemo(t) # None
                     /\ \/ id \in ExtractMemo(t)
                        \/ \E q \in Documents : q \in ExtractMemo(t) /\ q.quote_id = id}

\* A payment stands only for the quotes its memo names, unless a quote asks for no
\* memo: nobody is served for a transfer that was made for other quotes.
PaymentsAreNotShared ==
  \A i \in DOMAIN served :
    served[i].doc.memo_policy # "optional" =>
      served[i].doc.quote_id \in NamedQuotes(chain[served[i].tx])

\* No service is run, to its end or at all, for a quote that lacks one of the
\* signatures: an expiry that verifyQuote reports before it looks at them ends the
\* request (verifyAndExecute, steps 2 and 3).
ServedQuotesAreSigned ==
  /\ \A i \in DOMAIN served : served[i].doc.buyer_signed /\ served[i].doc.seller_signed
  /\ \A r \in Requests : PcIs(r, {"executing"}) =>
       req[r].doc.buyer_signed /\ req[r].doc.seller_signed

\* No service is started for a quote that expired while its signatures or its
\* payment were being checked.
NoServiceAfterExpiry ==
  [][\A r \in Requests :
       ~PcIs(r, {"executing"}) /\ req'[r].pc = "executing" => now < req'[r].doc.expires_at]_vars

\* verifySettlement's description: it "Verifies buyer + seller Ed25519 signatures"
\* and leaves out the expiry only, so that what it accepts, early or late, carries
\* both.
VerifiedQuotesAreSigned ==
  verified # None => verified.doc.buyer_signed /\ verified.doc.seller_signed

\* Once the service of a quote has been completed, no request starts it again as
\* long as the process lives, whatever document and payment it brings
\* (consumedNonces; ENGINEERING.md: "Nonce replay after first success").
NoServiceAfterSuccess ==
  [][\A r \in Requests :
       ~PcIs(r, {"executing"}) /\ req'[r].pc = "executing" =>
         ~ \E i \in DOMAIN served :
              /\ served[i].doc.quote_id = req'[r].doc.quote_id
              /\ served[i].life = restarts]_vars

\* Money and service match: what was served or reported was paid for on chain to
\* the unit, by a transfer made for that quote (steps 5 to 12).
PaymentsMatch == TypeOK /\ ServedQuotesArePaid /\ PaymentsAreNotShared

\* When a service is started its quote has neither expired nor been served before
\* by this process, whatever happened while its request waited (steps 14 and 15).
ServiceStartsFresh == NoServiceAfterExpiry /\ NoServiceAfterSuccess

-----------------------------------------------------------------------------
(***************************************************************************)
(* The inductive invariant: what the steps behind a request have           *)
(* established, and what the nonces record of this process's life.         *)
(***************************************************************************)

\* Past the signature check a request of verifyAndExecute has both signatures; one of
\* verifySettlement lacks them only if its quote has expired.
RequestsAreSigned ==
  \A r \in Requests : PcIs(r, {"payment", "executing"}) =>
    \/ req[r].doc.buyer_signed /\ req[r].doc.seller_signed
    \/ req[r].mode = "verify" /\ req[r].doc.expires_at <= now

\* A service runs, has run or was reported only on a payment that passed steps 5 to 12.
PaymentsWereChecked ==
  /\ \A r \in Requests : PcIs(r, {"executing"}) =>
       req[r].mode = "execute" /\ CheckPayment(req[r].doc, chain[req[r].tx]) = "ok"
  /\ \A i \in DOMAIN served : CheckPayment(served[i].doc, chain[served[i].tx]) = "ok"
  /\ verified # None => CheckPayment(verified.doc, chain[verified.tx]) = "ok"

\* The nonces are the quotes served since the last restart.
NoncesRecordThisLife ==
  /\ \A i \in DOMAIN served :
       /\ served[i].life <= restarts
       /\ served[i].life = restarts => served[i].doc.quote_id \in nonces
  /\ ConsumedNonceWasServed

SettlementInv ==
  TypeOK /\ RequestsAreSigned /\ PaymentsWereChecked /\ NoncesRecordThisLife
         /\ ServedQuotesAreSigned

=============================================================================
