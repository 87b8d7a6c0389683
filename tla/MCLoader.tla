------------------------------ MODULE MCLoader ------------------------------
(* Loader for TLC: two requests with up to two URLs of every kind. *)
EXTENDS Loader

CONSTANTS plain, fickle, private, malformed

MCUrl == {plain, fickle, private, malformed}

Accepted(us) == [post |-> TRUE, authorized |-> TRUE, json |-> TRUE, urls |-> us]

\* One request for each early return, and well-formed ones of one and two URLs.
MCInputs ==
  {[post |-> FALSE, authorized |-> TRUE, json |-> TRUE, urls |-> <<plain>>],
   [post |-> TRUE, authorized |-> FALSE, json |-> TRUE, urls |-> <<plain>>],
   [post |-> TRUE, authorized |-> TRUE, json |-> FALSE, urls |-> <<>>]}
  \cup {Accepted(us) : us \in {<<>>, <<plain>>, <<plain, plain>>, <<plain, fickle>>,
                               <<fickle, private>>, <<plain, malformed>>,
                               <<plain, plain, fickle>>}}
=============================================================================
