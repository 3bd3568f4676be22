----------------------------- MODULE MCInstallations -----------------------------
(* A small instance of Installations for TLC. *)
EXTENDS Installations

CONSTANTS x, y, z

\* x stays a binary, y moves between all kinds of distribution and none for this
\* platform, z is not in the registry at first and may break it.
RegistryOffers ==
  [a \in Agents |-> CASE a = x -> {{"binary"}}
                      [] a = y -> {{"uvx"}, {"npx", "uvx"}, {"binary", "npx"}, {"elsewhere"}}
                      [] OTHER -> {None, {}}]
FirstRegistries ==
  {[a \in Agents |-> CASE a = x -> {"binary"} [] a = y -> {"npx", "uvx"} [] OTHER -> None]}
Batches == {<<z, y, x, y>>, <<y>>}
FirstPaths == {{"curl"}, {"npm", "uv"}}
================================================================================
