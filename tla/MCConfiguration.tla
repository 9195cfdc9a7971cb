-------------------------- MODULE MCConfiguration --------------------------
(***************************************************************************)
(* Instances of Configuration for TLC: collectors whose host has a dot, and*)
(* URLs that name no collector.                                            *)
(***************************************************************************)
EXTENDS Configuration, TLC

Host == << Word, ".", Word >>
MCCollectors ==
  { << "HTTP://" >> \o Host \o << ":", Number, "/", Word, ":", Number, "/", Word, ".", Word >>,
    Host \o << ".", Word, "/" >> }
\* What the theorem on collector URLs supposes of them.
ASSUME DottedCollectors == \A url \in MCCollectors : HasDottedHost(url)

MCUrl == MCCollectors \cup { << "https://", "http://" >> \o Host }

Symmetry == Permutations(Database) \cup Permutations(Store)
              \cup Permutations(HttpClients) \cup Permutations(Namespace)
=============================================================================
