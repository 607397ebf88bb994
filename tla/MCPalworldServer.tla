--------------------------- MODULE MCPalworldServer ---------------------------
(* An option in front of the password, one behind it and one the template    *)
(* does not have; ConfigMap and Secret say harmless things, or hold an       *)
(* unmatched parenthesis of either kind, or percent signs.                   *)
EXTENDS PalworldServer, TLC

CONSTANTS ServerName, ServerPassword, RCONEnabled, MaxPlayers, \* options
          default, set, other, open, close, percent, doubled   \* texts

Val(text, nest, sign) == [text |-> text, nest |-> nest, percent |-> sign]
Plain(text) == Val(text, 0, "none")

MCTemplate ==
  [order |-> <<ServerName, ServerPassword, RCONEnabled>>,
   value |-> [k \in {ServerName, ServerPassword, RCONEnabled} |-> Plain(default)]]

(* An empty document; an option of the template; a name that opens and one   *)
(* that closes a parenthesis; a new option with a percent sign.              *)
MCConfigs ==
  {NoValues,
   RCONEnabled :> Plain(set),
   ServerName :> Val(open, 1, "none"),
   MaxPlayers :> Plain(set) @@ ServerName :> Val(close, -1, "none"),
   MaxPlayers :> Val(doubled, 0, "doubled"),
   MaxPlayers :> Val(percent, 0, "bare")}

MCPasswords ==
  {Plain(other), Val(open, 1, "none"), Val(close, -1, "none"), Val(percent, 0, "bare"),
   Val(doubled, 0, "doubled")}

===============================================================================
