---------------------------- MODULE MCRelayFilter ----------------------------
(* A small instance of RelayFilter for TLC: four relays, three base filters   *)
(* and parts of every kind.                                                  *)
EXTENDS RelayFilter, TLC

Relay(country, city, owned, speed, multihop, host) ==
  [country |-> country, city |-> city, provider |-> "m", owned |-> owned,
   speed |-> speed, multihop |-> multihop] @@ ("relay-hostname" :> host)

FourServers == {
  Relay("se", "sto", "true", 2, TRUE, "se1"),
  Relay("se", "got", "false", 1, FALSE, "se2"),
  Relay("no", "osl", "true", 1, TRUE, "no1"),
  Relay("us", "nyc", "false", 2, FALSE, "us1")}

ThreeBases == {
  NoFilter,
  [NoFilter EXCEPT !.country = {"se"}],
  [NoFilter EXCEPT !.speed = "2", !.owned = "true"]}

Part(k, v) == [key |-> k, value |-> v]

AllParts == {
  Part("country", "se"), Part("country", "no"), Part(Keyless, "us"), Part("city", "sto"),
  Part("city", ""), Part("owned", "false"), Part("speed", "1"), Part("speed", "x"), Part("speed", "-1"),
  Part("multihop", "true"), Part("multihop", "false"), Part("seed", "7"),
  Part("relay-hostname", "us1"), Part("foo", ""), Part("foo", "x"),
  Part(NoKey, ""), Part(NoKey, "x")}
=============================================================================
