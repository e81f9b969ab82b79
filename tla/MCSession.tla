------------------------------- MODULE MCSession -------------------------------
(* An instance of Session for TLC. *)
EXTENDS Session

File(p) ==
  CASE p = <<"w", "a">> -> 1 [] p = <<"w", "p.htm">> -> 2 [] p = <<"w", "d", "index.phtml">> -> 3
    [] p = <<"w", "i">> -> 4 [] p = <<"w", "d", "i">> -> 5 [] p = <<"w", "d", "b">> -> 6
    [] p = <<"g", "s">> -> 7 [] p = <<"w", "e", "x">> -> 8 [] p = <<"a">> -> 9

Files == [p \in {<<"w", "a">>, <<"w", "p.htm">>, <<"w", "d", "index.phtml">>, <<"w", "i">>,
                 <<"w", "d", "i">>, <<"w", "d", "b">>, <<"g", "s">>, <<"w", "e", "x">>, <<"a">>} |-> File(p)]

Old(name) == IF name = "p.html" THEN "p.htm" ELSE None

Home == <<"w">>

Name(abs, dir, base) == [abs |-> abs, dir |-> dir, base |-> base]

(* A request to the server: the path that it made of the URL.              *)
Http(dir, base, h) ==
  [line |-> FALSE, name |-> Name(TRUE, <<"w">> \o dir, base), info |-> Name(TRUE, dir, base),
   script |-> <<"g">>, habits |-> h]
(* A name on the command line, for the program run by hand.                *)
Line(n, h) == [line |-> TRUE, name |-> n, info |-> n, script |-> None, habits |-> h]

(* To keep the instance small some names are for pages that do something.  *)
Request ==
  {Http(<<>>, "a", {}), Http(<<"d">>, None, {"works"}), Http(<<>>, "p.html", {"works"}), Http(<<"d">>, "b", {"works"}),
   Http(<<>>, "none", {"missing"}), Http(<<"e">>, None, {"missing"}), Http(<<>>, "s", {"script"}),
   Http(<<>>, "d", {"noslash"}),
   Line(Name(FALSE, <<>>, "a"), {}), Line(Name(FALSE, <<"d">>, "b"), {"relative"}),
   Line(Name(TRUE, <<>>, "a"), {"root"}), Line(Name(FALSE, <<>>, "none"), {"missing"})}

Inclusion(n, h) == [name |-> n, habits |-> h]

Included ==
  {Inclusion(Name(FALSE, <<>>, "i"), {}), Inclusion(Name(TRUE, <<"w", "d">>, "b"), {}),
   Inclusion(Name(FALSE, <<>>, "none"), {}), Inclusion(Name(TRUE, <<>>, "s"), {"script"})}

(* A pattern with a dollar, and what becomes of it.                        *)
Backslashed(t) ==
  CASE t = "edu$" -> "edu\\$" [] t = "edu\\$" -> "edu\\\\\\$" [] t = "edu\\\\\\$" -> "more" [] OTHER -> t
Bare(t) ==
  CASE t = "edu\\$" -> "edu$" [] t = "edu\\\\\\$" -> "edu\\$" [] t = "more" -> "edu\\\\\\$" [] OTHER -> t

Password == {"", "w1", "w2"}
Text == Password \union {"any", "edu", "bad", "edu$"}

Set(d, rules) == [def |-> d, rules |-> rules]
Log == Rule("L", "", "any")

(* The default set, and one for the page.                                  *)
Sets(all, own, h) == [sets |-> [k \in Keys |-> IF k = Default THEN all ELSE own], habits |-> h]
Config(own, h)    == Sets(Set("pub", <<Log>>), own, h)

Stored ==
  {Config(None, {}), Config(Set("pub", <<Rule("N", "", "any")>>), {}),
   Config(Set("pub", <<Log, Rule("P", "w1", "edu"), Rule("H", "", "any")>>), {"asks"}),
   Config(Set("pub", <<Rule("E", "", "any"), Rule("P", "w1", "edu")>>), {"asks"}),
   Config(Set("pri", <<Rule("A", "", "edu"), Rule("S", "", "any")>>), {"bans"}),
   Config(Set("pub", <<Rule("B", "", "edu"), Rule("A", "", "any"), Rule("B", "", "any")>>), {"bans"}),
   Config(Set("pri", <<Rule("E", "", "any")>>), {"asks", "bans"}),
   Sets(Set("pub", <<Rule("B", "", "edu")>>), None, {"bans"}),
   Config(Set("pub", <<Log, Rule("A", "", "edu$")>>), {"slashes"}),
   Config(Set("pub", <<Log, Rule("A", "", "bad"), Log>>), {"badpattern"})}

Edited == {Rule("A", "", "edu$"), Rule("A", "", "edu"), Rule("P", "w1", "any")}

Visitor == {[match |-> {"any", "edu", "edu$"}, password |-> "w2", email |-> FALSE],
            [match |-> {"any", "edu", "edu$"}, password |-> "w1", email |-> TRUE],
            [match |-> {"any"}, password |-> "", email |-> FALSE]}

W(build, db, admins, habits) == [build |-> build, db |-> db, admins |-> admins, habits |-> habits]
All == {"cgi", "fastcgi", "apache"}

(* Every property holds with all habits but those that it excludes; here   *)
(* with several combinations of the others: rules, pages and names, and    *)
(* administrators, alone and two at a time.                                *)
Work ==
  {W(b, db, {}, h) : b \in All, db \in {"gdbm", "flat"}, h \in {{"asks", "bans", "missing"}, {"bans", "badpattern"}}}
    \union {W(b, "flat", {}, h) : b \in All,
              h \in {{"works", "garbled"}, {"works", "missing", "asks"}, {"works", "late", "empty"},
                     {"works", "script", "relative", "root", "noslash"}}}
    \union {W("cgi", db, {"x"}, h) : db \in {"gdbm", "flat"},
              h \in {{"adds", "saves"}, {"adds", "together"}, {"fresh", "saves", "passfirst", "together"},
                     {"saves", "slashes"}}}
    \union {W("cgi", "flat", {"x", "y"}, {"adds"}), W("cgi", "flat", {"x", "y"}, {"saves"}),
            W("cgi", "gdbm", {"x", "y"}, {"adds"}),
            W("apache", "gdbm", {"x", "y"}, {"fresh"}), W("fastcgi", "gdbm", {"x"}, {"fresh", "kill"})}
=============================================================================
