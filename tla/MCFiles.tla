------------------------------ MODULE MCFiles ------------------------------
EXTENDS Files

mc_paths == {<<"stdin", "">>, <<"kpuio", "">>, <<"/", "">>, <<"", File>>, <<"", "missing">>, <<"nodev", "">>}
mc_access == {"RDONLY", "RDWR"}
mc_options == {{}, {"CREAT"}, {"CREAT", "EXCL"}, {"TRUNC"}}
=============================================================================
