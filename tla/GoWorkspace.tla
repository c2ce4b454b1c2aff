----------------------------- MODULE GoWorkspace -----------------------------
(***************************************************************************)
(* go/prepare_workspace.inc, with go_workspace.go and the scripts go.bash   *)
(* and go.ash around it: a build step that finds or makes a GOPATH and runs *)
(* go in it.  Steps of a build share the workspace, and each finds what     *)
(* those before it made there.                                              *)
(*                                                                          *)
(* A path is a sequence of names under the workspace, itself <<>>; every    *)
(* link these scripts make leads to the workspace.                          *)
(***************************************************************************)
EXTENDS Naturals, SequencesExt

CONSTANTS
  Roots,        \* project roots (import paths) a step or a comment may name
  Comments,     \* import comments of the source, NoPath if there is none
  Sources,      \* what directories the source may have: sets of paths
  WorkspaceName \* the base name of the workspace

NoPath == <<"-">>
UserPath == <<"/">>        \* a GOPATH that the user gave, made absolute
ShadowPath == <<"gopath">>

ASSUME GoAssumption ==
  /\ Roots \subseteq Seq(STRING)
  /\ Comments \subseteq Roots \cup {NoPath}

VARIABLES
  gpc,      \* where the script stands
  gopath,   \* $GOPATH, NoPath if it is not set
  root,     \* $PROJECT_ROOT, NoPath if it is not set
  lenient,  \* whether a failure of prepare_project_root is passed over
  cwd,      \* the directory go runs in, links resolved
  comment,  \* the import comment of the source
  source,   \* directories of the source
  made,     \* directories the steps made, or found where they would make them
  links,    \* links they made
  shadowed  \* the roots of the shadow workspaces asked for

gvars == <<gpc, gopath, root, lenient, cwd, comment, source, made, links, shadowed>>

GInit ==
  /\ gpc = "idle" /\ lenient = FALSE /\ cwd = <<>>
  /\ gopath = NoPath /\ root = NoPath
  /\ comment \in Comments /\ source \in Sources
  /\ made = {} /\ links = {} /\ shadowed = {}

\* Where a path leads to: it is followed name by name.
Resolve(p) ==
  LET at[n \in 0 .. Len(p)] ==
        IF n = 0 THEN <<>>
        ELSE LET next == Append(at[n - 1], p[n])
             IN  IF next \in links THEN <<>> ELSE next
  IN  at[Len(p)]
There(p) == Resolve(p) \in source \cup made \cup {<<>>}

Shadow == <<"gopath", "src">> \o root

GStart ==
  /\ gpc = "idle"
  /\ gopath' \in {NoPath, UserPath}
  /\ root' \in Roots \cup {NoPath}
  /\ cwd' = <<>>
  /\ gpc' = "choose"
  /\ UNCHANGED <<lenient, comment, source, made, links, shadowed>>

\* prepare_project_root is called for root'.
MakeShadow(mayFail) ==
  /\ lenient' = mayFail
  /\ shadowed' = shadowed \cup {root'}
  /\ gpc' = "mkdir"
  /\ UNCHANGED <<gopath, cwd, comment, source, made, links>>

GivenGopath ==
  /\ gpc = "choose" /\ gopath = UserPath
  /\ gpc' = "go"
  /\ UNCHANGED <<gopath, root, lenient, cwd, comment, source, made, links, shadowed>>

\* "return 0" follows the call.
GivenRoot ==
  /\ gpc = "choose" /\ gopath = NoPath /\ root # NoPath
  /\ UNCHANGED root
  /\ MakeShadow(TRUE)

NothingGiven == gpc = "choose" /\ gopath = NoPath /\ root = NoPath

SrcDirectory ==
  /\ NothingGiven /\ There(<<"src">>)
  /\ gopath' = <<>>
  /\ gpc' = "go"
  /\ UNCHANGED <<root, lenient, cwd, comment, source, made, links, shadowed>>

ImportComment ==
  /\ NothingGiven /\ ~There(<<"src">>) /\ comment # NoPath
  /\ root' = comment
  /\ MakeShadow(FALSE)

\* The source does not parse, or has no comment.
NoImportComment ==
  /\ NothingGiven /\ ~There(<<"src">>)
  /\ gpc' = "failed"
  /\ UNCHANGED <<gopath, root, lenient, cwd, comment, source, made, links, shadowed>>

MakeLinkDir ==
  /\ gpc = "mkdir"
  /\ made' = made \cup {Resolve(p) : p \in Prefixes(Front(Shadow)) \ {<<>>}}
  /\ gpc' = "link"
  /\ UNCHANGED <<gopath, root, lenient, cwd, comment, source, links, shadowed>>

\* Mutated form of LinkShadow: there is no "-T".
LinkShadowInside ==
  links' = links \cup
    {IF There(Shadow) THEN Append(Resolve(Shadow), WorkspaceName)
     ELSE Append(Resolve(Front(Shadow)), Last(Shadow))}

\* ln -s $PWD "$shadow_workspace" -T || stat "$shadow_workspace"
LinkShadow ==
  links' = IF There(Shadow) THEN links
           ELSE links \cup {Append(Resolve(Front(Shadow)), Last(Shadow))}

Link ==
  /\ gpc = "link"
  /\ LinkShadow
  /\ gopath' = ShadowPath
  /\ gpc' = "cd"
  /\ UNCHANGED <<root, lenient, cwd, comment, source, made, shadowed>>

EnterShadow ==
  /\ gpc = "cd"
  /\ cwd' = Resolve(Shadow)
  /\ gpc' = "go"
  /\ UNCHANGED <<gopath, root, lenient, comment, source, made, links, shadowed>>

\* mkdir fails, the shadow workspace is neither made nor there, or it cannot be
\* entered.
ShadowFails ==
  /\ gpc \in {"mkdir", "link", "cd"}
  /\ gpc' = IF lenient THEN "go" ELSE "failed"
  /\ UNCHANGED <<gopath, root, lenient, cwd, comment, source, made, links, shadowed>>

\* The exit code of go is the script's.
RunGo ==
  /\ gpc = "go"
  /\ gpc' \in {"idle", "failed"}
  /\ UNCHANGED <<gopath, root, lenient, cwd, comment, source, made, links, shadowed>>

GStep ==
  \/ GivenGopath \/ GivenRoot \/ SrcDirectory \/ ImportComment \/ NoImportComment
  \/ MakeLinkDir \/ Link \/ EnterShadow \/ ShadowFails \/ RunGo

\* No project root of the build lies inside another.
Unnested == \A r, s \in shadowed : ~IsStrictPrefix(r, s)

\* The source has nothing of its own where they are mapped to.
Unoccupied == \A r \in shadowed : <<"gopath", "src">> \o r \notin source

\* As long as that is so, go runs in the source, whatever the steps before
\* left in the workspace: in a shadow workspace the root leads to it, and a
\* src directory that makes the workspace the GOPATH is the source's own.
\* Outside gopath nothing is made.
GoFindsItsSource ==
  Unnested /\ Unoccupied /\ gpc = "go" =>
    /\ cwd = <<>>
    /\ gopath = ShadowPath => Resolve(Shadow) = <<>>
    /\ gopath = <<>> => <<"src">> \in source
    /\ \A p \in made \cup links : Head(p) = "gopath"

\* What prepare_workspace.inc says of a shadow workspace: working in it is
\* working in the original directory.
ShadowIsTheSource ==
  gpc = "go" /\ gopath = ShadowPath => cwd = <<>>
=============================================================================
