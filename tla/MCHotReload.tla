----------------------------- MODULE MCHotReload -----------------------------
\* Two connections and a page: the second request may meet every stage of a reload.
EXTENDS HotReloadProps
=============================================================================
