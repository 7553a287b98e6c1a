----------------------------- MODULE MenuRoutes -----------------------------
(***************************************************************************)
(* The menus as the administrator edits them and as the front end sees     *)
(* them (internal/service/menu.go, repository/menu.go): names, paths and   *)
(* route names that must not collide, the trees that are built from the    *)
(* rows a user may see, and the routes made of such a tree.  Writers hold  *)
(* menuWriteMu, so an operation is one step.                               *)
(*                                                                         *)
(* A path is a text and, for a link, its scheme; texts that differ in case *)
(* only are the same, to the database as to EqualFold.  Perms, icons and   *)
(* the order of siblings are left out: who may see or change a menu is any *)
(* set of them, and RelationWrites is about what permissions follow.       *)
(***************************************************************************)
EXTENDS Naturals, FiniteSets

CONSTANTS
    MenuIds,    \* positive: 0 is the root
    Forms       \* what a request may say of a menu, but for its parent

MenuRoot == 0
Types == {"dir", "page", "button"}
Text(t) == [scheme |-> "", text |-> t]
Empty == Text("")
Path == [scheme: STRING, text: STRING]
Form == [type: Types, name: STRING, parent: {MenuRoot}, routeName: Path, path: Path,
         external: BOOLEAN, active: BOOLEAN]

ASSUME MenusAssumption == IsFiniteSet(MenuIds) /\ MenuRoot \notin MenuIds /\ Forms \subseteq Form

VARIABLES
    menus,       \* id -> its row, for the menus there are
    overlooked   \* pairs of menus that nobody compared when one was created (history)

menuVars == <<menus, overlooked>>

Rows == DOMAIN menus
Parent(id) == menus[id].parent
WithParent(form, p) == [form EXCEPT !.parent = p]

MenusInit == menus = [id \in {} |-> {}] /\ overlooked = {}

-----------------------------------------------------------------------------
(* What a write checks; id is the one row it leaves out.                   *)

isHTTP(path) == path.scheme # ""
EffectiveName(row) == IF row.routeName = Empty THEN row.path ELSE row.routeName

\* Directories and pages; a path meets the route names, and a name the paths.
SelectMenusByPathOrRouteName(path, name) ==
    {id \in Rows : /\ menus[id].type # "button"
                   /\ {menus[id].path, menus[id].routeName} \cap {path, name} # {}}

\* Mutant: a path is compared with paths only, and a name with names.
SamePathOnly(id, row) ==
    \E other \in SelectMenusByPathOrRouteName(row.path, EffectiveName(row)) \ {id} :
        menus[other].path = row.path /\ row.parent \in {Parent(other), MenuRoot}

hasRouteConflict(id, row) ==
    \E other \in SelectMenusByPathOrRouteName(row.path, EffectiveName(row)) \ {id} :
        \/ menus[other].path = row.path /\ row.parent \in {Parent(other), MenuRoot}
        \/ EffectiveName(menus[other]) = EffectiveName(row)

CountMenuByNameAndParent(id, row) ==
    Cardinality({other \in Rows \ {id} : menus[other].name = row.name /\ Parent(other) = row.parent})

checkMenuValid(id, row) ==
    /\ CountMenuByNameAndParent(id, row) = 0
    /\ row.external => isHTTP(row.path)
    /\ ~hasRouteConflict(id, row)

\* The menus on the way up from p, and the first one that is not there.
ParentsOf(ids) == {Parent(id) : id \in ids \cap Rows}
Ancestry(p) ==
    LET climb[n \in 0..(Cardinality(MenuIds) + 1)] ==
            IF n = 0 THEN {p} ELSE climb[n - 1] \cup ParentsOf(climb[n - 1])
    IN climb[Cardinality(MenuIds) + 1]

menuParentCreatesCycle(id, p) == id \in Ancestry(p)

\* The request may carry the id of a menu, which the checks leave out and which
\* is dropped only after them: the row gets a new id.
CreateMenu(id, carried, row) ==
    /\ id \notin Rows
    /\ row.parent \in Rows \cup {MenuRoot}
    /\ checkMenuValid(carried, row)
    /\ menus' = [other \in Rows \cup {id} |-> IF other = id THEN row ELSE menus[other]]
    /\ overlooked' = overlooked \cup (IF carried \in Rows THEN {{id, carried}} ELSE {})

\* The pairs that remain when a menu was compared with all others, or is gone.
PairsWithout(id) == {pair \in overlooked : id \notin pair}

UpdateMenu(id, row) ==
    /\ id \in Rows /\ row.parent \in Rows \cup {MenuRoot}
    /\ row.parent # id
    /\ checkMenuValid(id, row)
    /\ ~menuParentCreatesCycle(id, row.parent)
    /\ menus' = [menus EXCEPT ![id] = row]
    /\ overlooked' = PairsWithout(id)

HasChildByMenuID(id) == \E other \in Rows : Parent(other) = id

\* A menu that a role has stays, too: then nothing happens.
DeleteMenu(id) ==
    /\ id \in Rows
    /\ ~HasChildByMenuID(id)
    /\ menus' = [other \in Rows \ {id} |-> menus[other]]
    /\ overlooked' = PairsWithout(id)

MenusNext ==
    \E id \in MenuIds :
        \/ \E form \in Forms, p \in MenuIds \cup {MenuRoot} :
             \/ \E carried \in Rows \cup {MenuRoot} : CreateMenu(id, carried, WithParent(form, p))
             \/ UpdateMenu(id, WithParent(form, p))
        \/ DeleteMenu(id)

MenusSpec == MenusInit /\ [][MenusNext]_menuVars

-----------------------------------------------------------------------------
(* The trees.  list is the set of the rows that a query returned.          *)

ChildrenIn(list, ids) == {id \in list : Parent(id) \in ids}
BelowMenu(list, tops) ==
    LET down[n \in 0..Cardinality(MenuIds)] ==
            IF n = 0 THEN tops ELSE down[n - 1] \cup ChildrenIn(list, down[n - 1])
    IN down[Cardinality(MenuIds)]

\* The menus a user sees: its directories and pages that are in use.
SelectMenuTreeByUserID(granted) == {id \in granted : menus[id].type # "button" /\ menus[id].active}

buildMenuTree(list) == BelowMenu(list, {id \in list : Parent(id) = MenuRoot})

\* A menu whose parent is not in the list begins a tree of its own.
BuildMenuTreeSelect(list) == BelowMenu(list, {id \in list : Parent(id) \notin list})

\* What the page shows as chosen: strictly, no menu above another chosen one.
SelectMenuIDsByRoleID(chosen, strictly) ==
    IF strictly THEN chosen \ {Parent(id) : id \in chosen} ELSE chosen

RoleMenuTreeSelect(seen, chosen, strictly) ==
    [tree |-> BuildMenuTreeSelect(seen), keys |-> SelectMenuIDsByRoleID(chosen, strictly) \cap seen]

-----------------------------------------------------------------------------
(* The routes.                                                             *)

isMenuFrame(id) == Parent(id) = MenuRoot /\ menus[id].type = "page" /\ ~menus[id].external
isInnerLink(id) == ~menus[id].external /\ isHTTP(menus[id].path)
Replaced(path) == Text(path.text)   \* innerLinkReplacer

routeNameOf(id) == IF isMenuFrame(id) THEN Empty ELSE EffectiveName(menus[id])

\* The routes of a tree: each menu gives one, and a page or an inner link of
\* the first level one more, inside it.
BuildRouters(tree) ==
    LET branch(id) == menus[id].type = "dir" /\ \E child \in tree : Parent(child) = id
        page(id) == [menu |-> id, part |-> "page", name |-> EffectiveName(menus[id])]
        link(id) == [menu |-> id, part |-> "link",
                     name |-> EffectiveName([menus[id] EXCEPT !.path = Replaced(@)])]
    IN {[menu |-> id, part |-> "own", name |-> routeNameOf(id)] : id \in tree}
         \cup {page(id) : id \in {m \in tree : isMenuFrame(m)}}
         \cup {link(id) : id \in {m \in tree : /\ Parent(m) = MenuRoot /\ isInnerLink(m)
                                               /\ ~isMenuFrame(m) /\ ~branch(m)}}

-----------------------------------------------------------------------------
(* Properties.                                                             *)

MenusTypeOK ==
    /\ Rows \subseteq MenuIds
    /\ \A id \in Rows : \E form \in Forms : menus[id] = WithParent(form, Parent(id))
    /\ \A pair \in overlooked : \E id, other \in Rows : id # other /\ pair = {id, other}

\* However menus are added, moved and turned from buttons into pages, two routes
\* of a user have one name, or two menus side by side one path, only if one of
\* the two was created by a request that carried the id of the other and
\* neither was edited since (internal/service/menu.go:440).  The route inside
\* an inner link of the first level is left out: it repeats its menu's own
\* name, and its path without the scheme may be another menu's.
RoutesDistinct ==
    /\ \A r, s \in BuildRouters(buildMenuTree(SelectMenuTreeByUserID(Rows))) :
         r # s /\ r.name = s.name /\ r.name # Empty =>
             "link" \in {r.part, s.part} \/ {r.menu, s.menu} \in overlooked
    /\ \A id, other \in {m \in Rows : menus[m].type # "button"} :
         id # other /\ Parent(id) = Parent(other) /\ menus[id].path = menus[other].path =>
             {id, other} \in overlooked

\* No sequence of moves hides a menu: of any rows a user may see, the tree of
\* the choices shows every one, and the menus shown in the navigation are
\* those with nothing missing on the way to the root.
NothingHidden ==
    \A list \in SUBSET Rows :
        /\ BuildMenuTreeSelect(list) = list
        /\ buildMenuTree(list) = {id \in list : Ancestry(id) \subseteq list \cup {MenuRoot}}

\* The page of a role shows the menus above a chosen one as half chosen and
\* sends them back: from the keys it is given it restores what the role has,
\* and it would not without any of them (internal/repository/menu.go:352).
ChoiceRestored ==
    LET restored(keys) == (UNION {Ancestry(id) : id \in keys}) \ {MenuRoot}
    IN \A chosen \in SUBSET Rows :
         (\A id \in chosen : Parent(id) \in chosen \cup {MenuRoot}) =>
             LET keys == RoleMenuTreeSelect(Rows, chosen, TRUE).keys
             IN restored(keys) = chosen /\ \A id \in keys : restored(keys \ {id}) # chosen

MenusConsistent == RoutesDistinct /\ NothingHidden /\ ChoiceRestored

=============================================================================
