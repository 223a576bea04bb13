------------------------------- MODULE MCCli -------------------------------
(* The command line tool: configurations with and without further projects, *)
(* one of them called like the default root, locations that share names, and *)
(* one that is called like the files of the application.                     *)
EXTENDS Cli

MCNames == {"src", "app", "apps", "web", "lib", "a", "b"}
MCLocations == {<<"a">>, <<"b">>, <<"a", "b">>, <<"app">>}

MCConfigurations ==
    {[sourceRoot |-> <<"src">>, projects |-> <<>>, spec |-> s] : s \in {"none", "on", "services"}}
    \cup {[sourceRoot |-> <<"src">>, spec |-> "off",
           projects |-> [web |-> <<"apps", "web">>, src |-> <<"lib">>]]}

\* Command lines of generate with one option at most, or flat and another one.
MCRequests ==
    {r \in AllRequests :
        Cardinality({o \in {"alias", "dry", "spec", "project"} :
            CASE o = "alias" -> r.alias [] o = "dry" -> r.dryRun
              [] o = "spec" -> r.spec # "none" [] o = "project" -> r.project # "none"}) <= 1}

\* Packages are independent of the project's files: the commands that manage
\* them are checked in an empty directory, generate without packages; edited root
\* modules in one of the configurations; so is watching.
MCInit ==
    /\ CliInit
    /\ language # "none" => installed = {} /\ manager = "npm"
    /\ language = "none" => config.projects = <<>> /\ config.spec = "none"
    /\ config.spec # "on" => \A r \in DOMAIN modules : modules[r] = Application(r.dir).source

\* The last generate leaves out what makes it like another one.
MCNext ==
    /\ CliNext
    /\ command' = "watch" => language = "none" /\ installed = {} /\ manager = "npm"
    /\ generates' = MaxGenerates => ~request'.alias /\ ~request'.dryRun /\ request'.spec # "spec"
    /\ generates' # generates => installed = {} /\ manager = "npm"

MCSpec == MCInit /\ [][MCNext]_cliVars /\ WatchFairness
=============================================================================
