------------------------------- MODULE Catalogue -------------------------------
(***************************************************************************)
(* Profiles, subscriptions and routings together: the rows that the          *)
(* configuration names.                                                     *)
(***************************************************************************)
EXTENDS Profiles, Routings

\* The configuration names an active profile, an active routing and the
\* subscription that is shown; the database refuses what is not there, so a
\* command that leaves one behind would fail, and so would all that follow
\* (profiles/manager.rs, subscriptions/manager.rs, routing/manager.rs).
NamesAreThere == NothingDangles /\ OneRoutingIsActive

\* And the built-in template is not there twice (routing/manager.rs).
CatalogueHolds == NamesAreThere /\ BuiltinTemplateOnce
=============================================================================
