----------------------- MODULE MCDnsProviders ----------------------------
(***************************************************************************)
(* DnsProviders for TLC: a record under a two-label zone, one that         *)
(* no zone of the account owns, and one under a three-label zone.          *)
(***************************************************************************)
EXTENDS DnsProviders, TLC

Example == <<"_acme-challenge", "example", "com">>
Foreign == <<"_acme-challenge", "example", "org">>
British == <<"_acme-challenge", "example", "co", "uk">>

SomeNames == {Example, Foreign}
SomeZones == {<<"example", "com">>}
BritishNames == {Example, British}
BritishZones == {<<"example", "com">>, <<"example", "co", "uk">>}

ThreadSymmetry == Permutations(Threads)
=============================================================================
