------------------------------ MODULE MCDeployApp ------------------------------
(***************************************************************************)
(* An instance of DeployApp for TLC: two drivers with different images in  *)
(* one directory, on App Engine and on Kubernetes Engine, one that tests a *)
(* given url, one with a relative directory, a check of both flows and two *)
(* of one flow each, not all of them at a time.  A builder comes with the  *)
(* --yaml that makes gcloud take it.                                       *)
(***************************************************************************)
EXTENDS DeployApp, TLC

CONSTANTS gae, gke, given, relative, both, c1, c2, app, legacy, i1, i2, b1

Arg(d, env, image, builder, url) ==
  [dir |-> d, env |-> env, image |-> image, builder |-> builder, yaml |-> builder # None,
   url |-> url]

MCArgs ==
  gae      :> Arg(app, "GAE", i1, b1, FALSE) @@
  gke      :> Arg(app, "GKE", i2, None, FALSE) @@
  given    :> Arg(app, "GAE", None, None, TRUE) @@
  relative :> Arg(legacy, "GAE", i1, None, FALSE) @@
  both     :> Arg(legacy, "GAE", None, None, FALSE) @@
  c1       :> Arg(legacy, "GAE", None, None, FALSE) @@
  c2       :> Arg(app, "GAE", None, None, FALSE)

\* c1 skips the builder flow, c2 the XRT flow.
MCFlows == both :> <<FALSE, TRUE>> @@ c1 :> <<FALSE>> @@ c2 :> <<TRUE>>

MCSessions == {{gae, gke}, {given, relative}, {both, given}, {c1, c2}, {gke, c2}}

===============================================================================
