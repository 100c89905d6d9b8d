---------------------------- MODULE ChatRatchet ----------------------------
(***************************************************************************)
(* The double-ratchet session of chat/crypto.rs with symbolic keys.  A     *)
(* public key is a number, a Diffie-Hellman result the set of the two      *)
(* public keys, and a root or chain key the sequence of the secrets that   *)
(* went into it, so two sides hold the same chain exactly when they mixed  *)
(* the same secrets.  A message key is a chain with a position; an         *)
(* envelope opens only under the message key that sealed it.  Padding,     *)
(* wire layout and the optional hybrid layer are left out, and so are the  *)
(* limits of 1000 missing messages and kept keys.                          *)
(***************************************************************************)
EXTENDS Integers, Sequences

NoChain == <<>>

\* The identity key of a node is known to everyone.
IdentityKey(a) == -a

\* Session::new_initiator: `ek` starts the session, `r` is the first ratchet key.
NewInitiator(peer, ek, r) ==
    LET root == <<{ek}, {r, IdentityKey(peer)}>> IN
    [ek |-> ek, init |-> TRUE, pend |-> TRUE, root |-> root, dhs |-> r,
     dhr |-> IdentityKey(peer), cks |-> root, ckr |-> NoChain,
     ns |-> 0, nr |-> 0, pn |-> 0, skip |-> {}]

\* Session::new_responder: 0 stands for no remote ratchet key yet.
NewResponder(me, ek) ==
    [ek |-> ek, init |-> FALSE, pend |-> FALSE, root |-> <<{ek}>>, dhs |-> IdentityKey(me),
     dhr |-> 0, cks |-> NoChain, ckr |-> NoChain,
     ns |-> 0, nr |-> 0, pn |-> 0, skip |-> {}]

\* Session::seal_with: the envelope and the session after it.
Sealed(s, id, body) ==
    [id |-> id, ek |-> IF s.pend THEN s.ek ELSE 0, dh |-> s.dhs, pn |-> s.pn, n |-> s.ns,
     chain |-> s.cks, body |-> body]
AfterSeal(s) == [s EXCEPT !.ns = @ + 1]

\* Session::skip_until: the keys of messages that have not arrived are kept.
SkipUntil(s, until) ==
    IF s.ckr = NoChain \/ until <= s.nr THEN s
    ELSE [s EXCEPT !.nr = until,
                   !.skip = @ \cup {[dh |-> s.dhr, n |-> i, chain |-> s.ckr] : i \in s.nr .. until - 1}]

\* Session::dh_ratchet, with the fresh ratchet key it draws.
DhRatchet(s, pub, fresh) ==
    LET recv == Append(s.root, {s.dhs, pub})
        send == Append(recv, {fresh, pub}) IN
    [s EXCEPT !.pn = s.ns, !.ns = 0, !.nr = 0, !.dhr = pub, !.ckr = recv,
              !.dhs = fresh, !.root = send, !.cks = send]

\* Session::open_with works on a copy: the sessions after opening (none: an error).
KeptKeys(s, e) == {k \in s.skip : k.dh = e.dh /\ k.n = e.n}
Opened(s, e, fresh) ==
    IF KeptKeys(s, e) # {}
    THEN {[s EXCEPT !.skip = @ \ {k}] : k \in {k \in KeptKeys(s, e) : k.chain = e.chain}}
    ELSE LET s1 == IF s.dhr # e.dh THEN DhRatchet(SkipUntil(s, e.pn), e.dh, fresh) ELSE s
             s2 == SkipUntil(s1, e.n) IN
         IF (s.dhr = e.dh /\ e.n < s.nr) \/ s2.ckr # e.chain THEN {}
         ELSE {[s2 EXCEPT !.nr = @ + 1, !.pend = FALSE]}
=============================================================================
