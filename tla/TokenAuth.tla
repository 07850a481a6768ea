----------------------------- MODULE TokenAuth -----------------------------
(***************************************************************************)
(* Access and refresh tokens (crates/protocols/md-fanout/src/auth.rs) of   *)
(* both gateways: pairs of one family, refresh tokens used once, families  *)
(* revoked together.                                                       *)
(*                                                                         *)
(* A pair is named by the number it was minted with; Static is the token   *)
(* granted at start, of family 0, which never expires.                     *)
(***************************************************************************)
EXTENDS Integers

CONSTANTS
  AccessTtl, RefreshTtl,   \* TokenTtl
  Granted,                 \* {Static} where a static token is configured, or {}
  MaxPairs                 \* bound: pairs minted

Static == 0
Pairs == 1 .. MaxPairs
Never == -1

NoToken == [family |-> 0, expires |-> 0, present |-> FALSE, consumed |-> FALSE]
Token(family, expires) ==
  [family |-> family, expires |-> expires, present |-> TRUE, consumed |-> FALSE]

NewAuth ==
  [access |-> [n \in Pairs \cup {Static} |-> IF n \in Granted THEN Token(0, Never) ELSE NoToken],
   refresh |-> [n \in Pairs |-> NoToken],
   revoked |-> {}, revokedFamilies |-> {}, nextId |-> 1, nextFamily |-> 1]

Expired(token, now) == token.expires # Never /\ token.expires < now

\* mint_pair
MintPair(auth, family, now) ==
  [auth EXCEPT !.access[auth.nextId] = Token(family, now + AccessTtl),
               !.refresh[auth.nextId] = Token(family, now + RefreshTtl),
               !.nextId = @ + 1]

\* issue_client_credentials: a family of its own.
Issue(auth, now) ==
  MintPair([auth EXCEPT !.nextFamily = @ + 1], auth.nextFamily, now)

\* revoke_family: static tokens have none.
RevokeFamily(auth, family) ==
  LET doomed == {n \in DOMAIN auth.access : auth.access[n].present /\ auth.access[n].family = family}
  IN  IF family = 0 THEN auth
      ELSE [auth EXCEPT
              !.revokedFamilies = @ \cup {family},
              !.revoked = @ \cup doomed,
              !.access = [n \in DOMAIN @ |-> IF n \in doomed THEN NoToken ELSE @[n]],
              !.refresh = [n \in Pairs |-> IF @[n].family = family THEN NoToken ELSE @[n]]]

\* Mutant of RefreshPair: the token presented stays good.
RefreshAgain(auth, n, now) ==
  LET token == auth.refresh[n]
  IN  IF ~token.present \/ token.family \in auth.revokedFamilies \/ Expired(token, now) THEN auth
      ELSE MintPair(auth, token.family, now)

\* refresh: an expired token is forgotten, a consumed one revokes its family.
RefreshPair(auth, n, now) ==
  LET token == auth.refresh[n]
  IN  CASE ~token.present -> auth
        [] token.present /\ token.family \in auth.revokedFamilies -> auth
        [] token.present /\ token.family \notin auth.revokedFamilies ->
             CASE Expired(token, now) -> [auth EXCEPT !.refresh[n] = NoToken]
               [] ~Expired(token, now) /\ token.consumed -> RevokeFamily(auth, token.family)
               [] ~Expired(token, now) /\ ~token.consumed ->
                    MintPair([auth EXCEPT !.refresh[n].consumed = TRUE], token.family, now)

\* revoke of an access token, and of a refresh token.
RevokeAccess(auth, n) ==
  LET token == auth.access[n]
  IN  IF ~token.present THEN auth
      ELSE RevokeFamily([auth EXCEPT !.access[n] = NoToken, !.revoked = @ \cup {n}], token.family)

RevokeRefresh(auth, n) ==
  LET token == auth.refresh[n]
  IN  IF ~token.present THEN auth
      ELSE RevokeFamily([auth EXCEPT !.refresh[n] = NoToken], token.family)

\* authenticate; is_revoked is its negation.
Authenticates(auth, n, now) ==
  /\ n \notin auth.revoked
  /\ auth.access[n].present
  /\ auth.access[n].family \notin auth.revokedFamilies
  /\ ~Expired(auth.access[n], now)
=============================================================================
