--------------------------- MODULE FeatureLoader ---------------------------
(***************************************************************************)
(* Start-up of one web process: modules/loader.py orders the features of   *)
(* the enabled modules, app/features.py installs them, app/admin_screens.py *)
(* mounts their screens, and app/startup_checks.py looks at every route    *)
(* before the process serves.  Features are numbers, whose order is the    *)
(* alphabetical one; a feature stands for its permission code too.         *)
(***************************************************************************)
EXTENDS Naturals, FiniteSets, SequencesExt

CONSTANT Features                  \* a finite set of numbers

VARIABLES
    enabled,       \* features of ENABLED_MODULES with a feature.toml
    requires,      \* requires_features of each manifest
    foreign,       \* features whose requires_core names no core module
    pc,
    remaining, ordered,            \* locals of installation_order
    todo,          \* manifests still to install
    catalog,       \* permission_registry
    gates,         \* permissions that gate the registered admin screens
    markers        \* the marker lists found on the mounted routes

vars == <<enabled, requires, foreign, pc, remaining, ordered, todo, catalog, gates, markers>>

\* What _marker_attrs finds on a route of a feature, and on one of a screen.
RouteMarkers == {<<>>, <<"permission">>, <<"authenticated">>, <<"public">>,
                 <<"permission", "public">>}
Routes == [admin : BOOLEAN, attrs : RouteMarkers]

Init == /\ enabled \in SUBSET Features
        /\ requires \in [enabled -> SUBSET Features]
        /\ foreign \in SUBSET enabled
        /\ pc = "validate"
        /\ remaining = {} /\ ordered = <<>> /\ todo = <<>>
        /\ catalog = {} /\ gates = {} /\ markers = {}

----------------------------------------------------------------------------
\* validate_dependencies: every required feature is present, and every required
\* core module is one of CORE_MODULES.
Unmet == {f \in enabled : ~ requires[f] \subseteq enabled} \cup foreign

ValidateDependencies ==
    /\ pc = "validate"
    /\ pc' = IF Unmet = {} THEN "order" ELSE "refused"
    /\ remaining' = enabled
    /\ UNCHANGED <<enabled, requires, foreign, ordered, todo, catalog, gates, markers>>


\* The names of one round: those that wait for no remaining feature.
Ready == {f \in remaining : requires[f] \cap remaining = {}}

\* One iteration of installation_order; its end.
InstallationOrder ==
    /\ pc = "order"
    /\ IF remaining = {} THEN /\ pc' = "install"
                              /\ todo' = ordered
                              /\ UNCHANGED <<remaining, ordered>>
       ELSE IF Ready = {} THEN /\ pc' = "refused"
                               /\ UNCHANGED <<remaining, ordered, todo>>
       ELSE /\ ordered' = ordered \o SetToSortSeq(Ready, <)
            /\ remaining' = remaining \ Ready
            /\ UNCHANGED <<pc, todo>>
    /\ UNCHANGED <<enabled, requires, foreign, catalog, gates, markers>>

\* install_modules, one manifest: install() registers the feature's permission
\* and perhaps a screen, gated by any permission; then its router is mounted.
InstallFeature ==
    /\ pc = "install" /\ todo # <<>>
    /\ todo' = Tail(todo)
    /\ catalog' = catalog \cup {Head(todo)}
    /\ \E gate \in {{}} \cup {{f} : f \in Features} : gates' = gates \cup gate
    /\ \E found \in {{}} \cup {{r} : r \in Routes} : markers' = markers \cup found
    /\ UNCHANGED <<enabled, requires, foreign, pc, remaining, ordered>>

\* mount_admin_screens: require_registered.
MountAdminScreens ==
    /\ pc = "install" /\ todo = <<>>
    /\ pc' = IF gates \subseteq catalog THEN "check" ELSE "refused"
    /\ UNCHANGED <<enabled, requires, foreign, remaining, ordered, todo, catalog, gates, markers>>

\* validate_route_permissions, validate_admin_routes.
RoutePermissionsValid == \A r \in markers : Len(r.attrs) = 1
AdminRoutesValid == \A r \in markers : r.admin => r.attrs = <<"permission">>

\* The first lines of the lifespan; what follows is module RoleSync.
Lifespan ==
    /\ pc = "check"
    /\ pc' = IF RoutePermissionsValid /\ AdminRoutesValid THEN "serving" ELSE "refused"
    /\ UNCHANGED <<enabled, requires, foreign, remaining, ordered, todo, catalog, gates, markers>>

Next == \/ ValidateDependencies \/ InstallationOrder \/ InstallFeature
        \/ MountAdminScreens \/ Lifespan

Spec == Init /\ [][Next]_vars
----------------------------------------------------------------------------
\* A set of features in which each waits for another of the set.
Stuck(S) == S # {} /\ \A f \in S : requires[f] \cap S # {}
Satisfiable == Unmet = {} /\ ~ \E S \in SUBSET enabled : Stuck(S)

=============================================================================
