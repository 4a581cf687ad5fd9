--------------------------- MODULE MCGraphQLRoutes ---------------------------
EXTENDS GraphQLRoutes
=============================================================================
