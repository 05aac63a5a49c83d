-------------------------- MODULE MCGatewaySession --------------------------
(***************************************************************************)
(* GatewaySession with two overlapping requests and tokens of six units.  *)
(***************************************************************************)
EXTENDS GatewaySession

Setting(expire, refresh, prefix) ==
    [expire |-> expire, refresh |-> refresh, prefix |-> prefix]

\* The defaults, a short session, a long one that is refreshed well within
\* the lifetime of its token, and a refresh that comes after the expiry.
MCSettings == {Setting(0, 0, "oauth2"), Setting(3, 0, "_gwauth"),
               Setting(9, 2, "oauth2"), Setting(0, 7, "_gwauth")}

\* A refresh that comes before the expiry and after the end of the token.
MCLateRefresh == {Setting(9, 7, "oauth2")}
=============================================================================
