------------------------------ MODULE MCServer ------------------------------
(* Two listeners on one server, say http and https; the apps are the sso app,  *)
(* which adds two components, and one that adds none, with and without GitHub. *)
EXTENDS ServerLife

MCEnvironments == {
  [app |-> "none", client |-> FALSE, provider |-> ""],
  [app |-> "good", client |-> TRUE, provider |-> "github"],
  [app |-> "good", client |-> TRUE, provider |-> ""]}

MCExtensions == {<<>>, <<"oidclogin", "jwtissuer">>}
=============================================================================
