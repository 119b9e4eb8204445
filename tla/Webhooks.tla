-------------------------------- MODULE Webhooks --------------------------------
(***************************************************************************)
(* WebhooksService behind the idempotency interceptor: a delivery of a     *)
(* vendor is stored with the verdict on its signature.  A process never    *)
(* forgets a key it has served, and the key has no tenant.  A signature    *)
(* stands for the vendor whose id and payload it was computed with.        *)
(***************************************************************************)
EXTENDS Idempotency, Sequences

CONSTANTS
  VendorRows,  \* the table vendors: [tenant, slug]
  NoTenant,    \* the tenant of a vendor that all tenants share
  NoSignature

VARIABLES
  webhooks,      \* the table webhooks
  webhookCache,  \* idempotencyCache: the webhook of each key, in each process
  sender,        \* the vendor that a delivery has found
  receipt        \* the answer to a delivery

webhookVars == <<webhooks, webhookCache, sender, receipt>>

WebhooksInit ==
  /\ webhooks = <<>>
  /\ webhookCache = [p \in Processes |-> [k \in {} |-> 0]]
  /\ sender = [r \in Requests |-> NoTenant]
  /\ receipt = [r \in Requests |-> [id |-> 0, signatureValid |-> FALSE]]

Tell(r, id, valid) == receipt' = [receipt EXCEPT ![r] = [id |-> id, signatureValid |-> valid]]

\* Without a signature the controller answers 400.  A key that was served gets the
\* webhook of that time and signatureValid: true.
ingest(r) ==
  LET cached == webhookCache[process[r]]
      k == call[r].key
  IN  /\ At(r, {"ingest"}, "start")
      /\ \/ call[r].signature = NoSignature /\ Throw(r) /\ UNCHANGED <<step, receipt>>
         \/ /\ call[r].signature # NoSignature /\ k \in DOMAIN cached
            /\ Tell(r, cached[k], TRUE)
            /\ Answer(r)
            /\ UNCHANGED step
         \/ /\ call[r].signature # NoSignature /\ k \notin DOMAIN cached
            /\ Goto(r, "vendor")
            /\ UNCHANGED <<interceptorVars, receipt>>
      /\ UNCHANGED <<webhooks, webhookCache, sender>>

\* Mutant: where: { slug }.
SendersMutant(c) == {v \in VendorRows : v.slug = c.slug}

\* OR: the tenant's own vendor of that slug, or the shared one; either may come first.
Senders(c) == {v \in VendorRows : v.slug = c.slug /\ v.tenant \in {c.tenant, NoTenant}}

findSender(r) ==
  /\ At(r, {"ingest"}, "vendor")
  /\ \/ Senders(call[r]) = {} /\ Throw(r) /\ UNCHANGED <<step, sender>>
     \/ /\ \E v \in Senders(call[r]) : sender' = [sender EXCEPT ![r] = v]
        /\ Goto(r, "webhook")
        /\ UNCHANGED interceptorVars
  /\ UNCHANGED <<webhooks, webhookCache, receipt>>

createWebhook(r) ==
  /\ At(r, {"ingest"}, "webhook")
  /\ webhooks' = Append(webhooks,
       [tenant |-> call[r].tenant, vendor |-> sender[r], by |-> r,
        signatureValid |-> call[r].signature = sender[r]])
  /\ Tell(r, Len(webhooks) + 1, call[r].signature = sender[r])
  /\ Goto(r, "return")
  /\ UNCHANGED <<interceptorVars, webhookCache, sender>>

\* Mutant: the key is not kept.
rememberWebhookMutant(r) ==
  /\ At(r, {"ingest"}, "return")
  /\ Answer(r)
  /\ UNCHANGED <<step, webhooks, webhookCache, sender, receipt>>

rememberWebhook(r) ==
  /\ At(r, {"ingest"}, "return")
  /\ webhookCache' = [webhookCache EXCEPT ![process[r]] =
       [k \in DOMAIN @ \cup {call[r].key} |->
          IF k = call[r].key THEN receipt[r].id ELSE @[k]]]
  /\ Answer(r)
  /\ UNCHANGED <<step, webhooks, sender, receipt>>

WebhookStep(r) ==
  ingest(r) \/ findSender(r) \/ createWebhook(r) \/ rememberWebhook(r)

-----------------------------------------------------------------------------
\* A delivery that is answered names a stored webhook.  Either it is its own, and
\* the verdict it is told is that of the signature: valid only if made with the
\* vendor that the slug names for its tenant.  Or its key was served before by the
\* same process, for whatever tenant, and the webhook is one stored under that key.
ReceiptsAreGenuine ==
  \A r \in Answered : call[r].op = "ingest" =>
    LET w == webhooks[receipt[r].id]
    IN  IF w.by = r
        THEN /\ receipt[r].signatureValid = w.signatureValid
             /\ w.signatureValid =>
                  /\ call[r].signature.slug = call[r].slug
                  /\ call[r].signature.tenant \in {call[r].tenant, NoTenant}
        ELSE /\ w.by \in Answered /\ call[w.by].key = call[r].key
             /\ process[w.by] = process[r]
=============================================================================
